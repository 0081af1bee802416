-------------------------- MODULE OtpChallenges_proofs -------------------------
(* Theorems about OtpChallenges, for any requests, sends, numbers of threads  *)
(* and of attempts.                                                           *)
EXTENDS OtpChallenges, FiniteSetTheorems, TLAPS

(* What a request can name: one challenge, or the two halves of a pair.       *)
Names == {<<c>> : c \in Challenges}
           \cup {<<p[1], p[2]>> : p \in {p \in Challenges \X Challenges : p[1] # p[2]}}
Loads == UNION {[C -> LoadedRow] : C \in SUBSET Challenges}

(* Where a request is tells what it has loaded, and only rows that were not   *)
(* used up.                                                                   *)
Stage ==
    /\ loaded \in [Requests -> Loads]
    /\ \A r \in Requests :
         /\ needs[r] \in Names \cup {<<>>}
         /\ Running(r) => needs[r] \in Names
         /\ ~Running(r) => HasLoaded(r) = {}
         /\ pc[r] = "idle" => needs[r] = <<>>
         /\ pc[r] = "find" => HasLoaded(r) = {} \/ (Len(needs[r]) = 2 /\ HasLoaded(r) = {needs[r][1]})
         /\ pc[r] \in {"verify", "commit"} => HasLoaded(r) = Range(needs[r])
         /\ outcome[r] \in CarriedOut => pc[r] = "done"
         /\ \A c \in HasLoaded(r) : loaded[r][c].attempts < MaxAttempts

(* No more requests run than there are threads. *)
ThreadsBound == Cardinality(InFlight) <= Threads

(* Requests that have loaded a challenge. *)
Holders(c) == {r \in Requests : c \in HasLoaded(r)}

(* A challenge is not loaded any more once it was used, so that what was      *)
(* loaded before and what has succeeded are together at most the threads.     *)
Uses == \A c \in Challenges :
    /\ c \notin consumed => uses[c] = 0
    /\ uses[c] + Cardinality(Holders(c)) <= Threads

(* A challenge that no two requests had loaded at once is held by one request *)
(* at a time, which knows its number of attempts: no fewer than were told.   *)
Alone == \A c \in Challenges \ raced :
    /\ wrong[c] <= attempts[c]
    /\ \A r \in Holders(c) : loaded[r][c].attempts = attempts[c] /\ Holders(c) = {r}

(* A successful registration has made the account. *)
Registered == {r \in Requests : kind[r] = "register" /\ outcome[r] \in CarriedOut}
Registration ==
    /\ Registered # {} => account
    /\ \A r, q \in Registered : r = q

(* Whatever is verified, or about to be, was shown. *)
Proven ==
    /\ verified \subseteq shown
    /\ \A r \in Requests :
         /\ \A c \in HasLoaded(r) : loaded[r][c].verified => c \in shown
         /\ pc[r] = "commit" => HasLoaded(r) \subseteq shown
         /\ outcome[r] \in CarriedOut => Range(needs[r]) \subseteq shown

Typed == TypeOK /\ Stage

USE DEF Goto, CarriedOut

-----------------------------------------------------------------------------
(* Operators. *)

LEMMA Bounds == Threads \in Nat \ {0} /\ MaxAttempts \in Nat \ {0}
  BY BoundsAssumption

LEMMA OneName ==
  ASSUME NEW c \in Challenges
  PROVE  /\ <<c>> \in Seq(Challenges) /\ Len(<<c>>) = 1 /\ <<c>>[1] = c
         /\ DOMAIN <<c>> = {1} /\ Range(<<c>>) = {c}
  <1>1. /\ <<c>> \in Seq(Challenges) /\ Len(<<c>>) = 1 /\ <<c>>[1] = c /\ DOMAIN <<c>> = {1}
    OBVIOUS
  <1>2. Range(<<c>>) = {c}
    BY <1>1 DEF Range
  <1> QED BY <1>1, <1>2

LEMMA TwoNames ==
  ASSUME NEW c \in Challenges, NEW d \in Challenges
  PROVE  /\ <<c, d>> \in Seq(Challenges) /\ Len(<<c, d>>) = 2
         /\ <<c, d>>[1] = c /\ <<c, d>>[2] = d
         /\ DOMAIN <<c, d>> = {1, 2} /\ Range(<<c, d>>) = {c, d}
  <1>1. /\ <<c, d>> \in Seq(Challenges) /\ Len(<<c, d>>) = 2
        /\ <<c, d>>[1] = c /\ <<c, d>>[2] = d /\ DOMAIN <<c, d>> = {1, 2}
    OBVIOUS
  <1>2. Range(<<c, d>>) = {c, d}
    BY <1>1 DEF Range
  <1> QED BY <1>1, <1>2

LEMMA NoNames == <<>> \in Seq(Challenges) /\ Len(<<>>) = 0 /\ DOMAIN <<>> = {} /\ Range(<<>>) = {}
  <1>1. <<>> \in Seq(Challenges) /\ Len(<<>>) = 0 /\ DOMAIN <<>> = {}
    OBVIOUS
  <1> QED BY <1>1 DEF Range

(* The names of a request, and their range. *)
LEMMA NamesShape ==
  ASSUME NEW n \in Names
  PROVE  /\ n \in Seq(Challenges)
         /\ \/ /\ Len(n) = 1 /\ DOMAIN n = {1} /\ n[1] \in Challenges /\ Range(n) = {n[1]}
            \/ /\ Len(n) = 2 /\ DOMAIN n = {1, 2} /\ n[1] \in Challenges /\ n[2] \in Challenges
               /\ n[1] # n[2] /\ Range(n) = {n[1], n[2]}
  <1>1. CASE \E c \in Challenges : n = <<c>>
    BY <1>1, OneName
  <1>2. CASE \E p \in Challenges \X Challenges : p[1] # p[2] /\ n = <<p[1], p[2]>>
    BY <1>2, TwoNames
  <1> QED BY <1>1, <1>2 DEF Names

LEMMA NameableShape ==
  ASSUME NEW p, NEW n \in Nameable(p)
  PROVE  n \in Names
  <1>1. Sent(p) \subseteq Sends
    BY DEF Sent
  <1>2. ASSUME NEW s \in Sends PROVE <<s, "email">> \in Challenges /\ <<s, "phone">> \in Challenges
    BY DEF Challenges
  <1>3. CASE p = "login"
    <2>1. PICK s \in Sends : n = <<<<s, "email">>>>
      BY <1>1, <1>3 DEF Nameable
    <2> QED BY <2>1, <1>2 DEF Names
  <1>4. CASE p # "login"
    <2>1. PICK s \in Sends, t \in Sends : n = <<<<s, "email">>, <<t, "phone">>>>
      BY <1>1, <1>4 DEF Nameable
    <2> DEFINE q == <<<<s, "email">>, <<t, "phone">>>>
    <2>2. q \in Challenges \X Challenges /\ q[1] # q[2] /\ n = <<q[1], q[2]>>
      BY <1>2, <2>1
    <2> HIDE DEF q
    <2> QED BY <2>2 DEF Names
  <1> QED BY <1>3, <1>4

(* A request with names comes with codes for some of them.                    *)
LEMMA CodesNamed ==
  ASSUME NEW p, NEW n \in Nameable(p), NEW R \in SUBSET Range(n)
  PROVE  n \in Names /\ R \in SUBSET Challenges
  <1>1. n \in Names
    BY NameableShape
  <1>2. Range(n) \subseteq Challenges
    BY <1>1, NamesShape
  <1> QED BY <1>1, <1>2

LEMMA LoadsShape ==
  ASSUME NEW f \in Loads
  PROVE  DOMAIN f \subseteq Challenges /\ f \in [DOMAIN f -> LoadedRow]
  BY DEF Loads

LEMMA NothingLoaded == <<>> \in Loads /\ DOMAIN <<>> = {}
  <1>1. <<>> \in [{} -> LoadedRow]
    OBVIOUS
  <1> QED BY <1>1 DEF Loads

-----------------------------------------------------------------------------
(* Types. *)

LEMMA InitTyped == Init => Typed /\ ThreadsBound
  <1> SUFFICES ASSUME Init PROVE Typed /\ ThreadsBound
    OBVIOUS
  <1> USE Bounds
  <1>1. account \in BOOLEAN
    BY Zenon DEF Init
  <1>2. \A r \in Requests : HasLoaded(r) = {} /\ loaded[r] = <<>>
    BY NothingLoaded DEF Init, HasLoaded
  <1>3. \A r \in Requests : loaded[r] \in [HasLoaded(r) -> LoadedRow]
    BY <1>2, NothingLoaded, LoadsShape
  <1>4. loaded \in [Requests -> Loads]
    BY NothingLoaded DEF Init
  <1>5. TypeOK
    <2>1. purpose \in [Sends -> Purposes]
      BY WorkloadsAssumption DEF Init
    <2>2. needs \in [Requests -> Seq(Challenges)]
      BY NoNames DEF Init
    <2>3. failures \in 0..Failures
      BY FailuresAssumption DEF Init
    <2> QED BY <1>1, <1>2, <1>3, <2>1, <2>2, <2>3 DEF Init, TypeOK, SendSteps, PCs, Kinds, Outcomes
  <1>6. Stage
    BY <1>2, <1>4 DEF Init, Stage, Running
  <1>7. ThreadsBound
    <2>1. InFlight = {}
      BY DEF Init, InFlight, Running
    <2> QED BY <2>1, FS_EmptySet DEF ThreadsBound
  <1> QED BY <1>5, <1>6, <1>7 DEF Typed

(* What the steps of one request leave to the others. *)
RequestStep(r) == Find(r) \/ WrongCode(r) \/ RightCodes(r) \/ Commit(r)

LEMMA OthersKept ==
  ASSUME Typed, NEW r \in Requests,
         \/ RequestStep(r)
         \/ \E k \in Kinds, n \in Names, R \in SUBSET Challenges : Arrive(r, k, n, R)
  PROVE  /\ \A q \in Requests \ {r} :
              /\ pc'[q] = pc[q] /\ kind'[q] = kind[q] /\ needs'[q] = needs[q] /\ right'[q] = right[q]
              /\ loaded'[q] = loaded[q] /\ outcome'[q] = outcome[q]
         /\ DOMAIN loaded' = Requests
  BY DEF RequestStep, Arrive, Find, WrongCode, RightCodes, Commit, Forget, End, Typed, TypeOK, Stage

(* The challenge that a request looks for next. *)
Sought(r) == needs[r][Cardinality(HasLoaded(r)) + 1]

LEMMA SoughtIsNamed ==
  ASSUME Typed, NEW r \in Requests, pc[r] = "find"
  PROVE  /\ Sought(r) \in Challenges /\ HasLoaded(r) \cup {Sought(r)} \subseteq Range(needs[r])
         /\ Sought(r) \notin HasLoaded(r)
         /\ \/ Range(needs[r]) = HasLoaded(r) \cup {Sought(r)}
            \/ Len(needs[r]) = 2 /\ HasLoaded(r) = {} /\ Sought(r) = needs[r][1]
  <1>1. needs[r] \in Names /\ (HasLoaded(r) = {} \/ (Len(needs[r]) = 2 /\ HasLoaded(r) = {needs[r][1]}))
    BY DEF Typed, Stage, Running
  <1>2. CASE HasLoaded(r) = {}
    <2>1. Sought(r) = needs[r][1]
      BY <1>2, FS_EmptySet DEF Sought
    <2> QED BY <1>1, <1>2, <2>1, NamesShape
  <1>3. CASE Len(needs[r]) = 2 /\ HasLoaded(r) = {needs[r][1]}
    <2>1. Cardinality(HasLoaded(r)) = 1
      BY <1>3, FS_Singleton
    <2>2. Sought(r) = needs[r][2]
      BY <2>1 DEF Sought
    <2> QED BY <1>1, <1>3, <2>2, NamesShape
  <1> QED BY <1>1, <1>2, <1>3

(* What Typed says of the requests' variables. *)
RequestsTyped ==
    /\ pc \in [Requests -> PCs]
    /\ kind \in [Requests -> Kinds]
    /\ needs \in [Requests -> Seq(Challenges)]
    /\ right \in [Requests -> SUBSET Challenges]
    /\ \A r \in Requests : loaded[r] \in [HasLoaded(r) -> LoadedRow] /\ HasLoaded(r) \subseteq Challenges
    /\ outcome \in [Requests -> Outcomes]
    /\ Stage

LEMMA LoadsTyped ==
  ASSUME loaded \in [Requests -> Loads]
  PROVE  \A r \in Requests : loaded[r] \in [HasLoaded(r) -> LoadedRow] /\ HasLoaded(r) \subseteq Challenges
  BY LoadsShape DEF HasLoaded

(* A request that ends forgets what it had loaded. *)
LEMMA EndTyped ==
  ASSUME Typed, NEW r \in Requests, NEW o \in Outcomes, Forget(r), End(r, o)
  PROVE  RequestsTyped'
  <1>1. /\ loaded' = [loaded EXCEPT ![r] = <<>>] /\ right' = [right EXCEPT ![r] = {}]
        /\ pc' = [pc EXCEPT ![r] = "done"] /\ outcome' = [outcome EXCEPT ![r] = o]
        /\ needs' = [needs EXCEPT ![r] = IF o \in CarriedOut THEN @ ELSE <<>>]
        /\ kind' = [kind EXCEPT ![r] = IF o \in CarriedOut THEN @ ELSE "verify_login"]
    BY DEF Forget, End
  <1>2. loaded' \in [Requests -> Loads]
    BY <1>1, NothingLoaded DEF Typed, Stage
  <1>3. needs'[r] \in Names \cup {<<>>} /\ needs'[r] \in Seq(Challenges)
    BY <1>1, NoNames DEF Typed, TypeOK, Stage
  <1>4. needs' \in [Requests -> Seq(Challenges)]
    BY <1>1, <1>3 DEF Typed, TypeOK
  <1>5. /\ pc' \in [Requests -> PCs] /\ right' \in [Requests -> SUBSET Challenges]
        /\ outcome' \in [Requests -> Outcomes] /\ kind' \in [Requests -> Kinds]
    <2>1. pc' \in [Requests -> PCs]
      BY <1>1 DEF Typed, TypeOK, PCs
    <2>2. right' \in [Requests -> SUBSET Challenges]
      BY <1>1 DEF Typed, TypeOK
    <2>3. outcome' \in [Requests -> Outcomes]
      BY <1>1 DEF Typed, TypeOK
    <2>4. kind' \in [Requests -> Kinds]
      BY <1>1 DEF Typed, TypeOK, Kinds
    <2> QED BY <2>1, <2>2, <2>3, <2>4
  <1>6. pc'[r] = "done" /\ outcome'[r] = o /\ loaded'[r] = <<>>
    BY <1>1, <1>2 DEF Typed, TypeOK, Stage
  <1>7. \A q \in Requests \ {r} : /\ pc'[q] = pc[q] /\ needs'[q] = needs[q]
                                  /\ loaded'[q] = loaded[q] /\ outcome'[q] = outcome[q]
    BY <1>1 DEF Typed, TypeOK, Stage
  <1>8. Stage'
    <2> SUFFICES ASSUME NEW q \in Requests
                 PROVE  (/\ needs[q] \in Names \cup {<<>>}
                         /\ Running(q) => needs[q] \in Names
                         /\ ~Running(q) => HasLoaded(q) = {}
                         /\ pc[q] = "idle" => needs[q] = <<>>
                         /\ pc[q] = "find" => HasLoaded(q) = {} \/ (Len(needs[q]) = 2 /\ HasLoaded(q) = {needs[q][1]})
                         /\ pc[q] \in {"verify", "commit"} => HasLoaded(q) = Range(needs[q])
                         /\ outcome[q] \in CarriedOut => pc[q] = "done"
                         /\ \A c \in HasLoaded(q) : loaded[q][c].attempts < MaxAttempts)'
      BY <1>2 DEF Stage
    <2>1. CASE q = r
      BY <1>3, <1>6, <2>1, NothingLoaded DEF Running, HasLoaded
    <2>2. CASE q # r
      BY <1>7, <2>2 DEF Running, HasLoaded, Typed, Stage
    <2> QED BY <2>1, <2>2
  <1>9. (\A q \in Requests : loaded[q] \in [HasLoaded(q) -> LoadedRow] /\ HasLoaded(q) \subseteq Challenges)'
    BY <1>2, LoadsShape DEF HasLoaded
  <1> QED BY <1>4, <1>5, <1>8, <1>9 DEF RequestsTyped

(* A request that goes on with what it had loaded. *)
LEMMA FindRowTyped ==
  ASSUME Typed, NEW r \in Requests, pc[r] = "find", Findable(r, Sought(r)), Find(r)
  PROVE  /\ loaded' = [loaded EXCEPT ![r] = [d \in HasLoaded(r) \cup {Sought(r)} |->
                                               IF d = Sought(r) THEN Row(Sought(r)) ELSE loaded[r][d]]]
         /\ pc' = [pc EXCEPT ![r] =
                     IF Range(needs[r]) = HasLoaded(r) \cup {Sought(r)} THEN "verify" ELSE "find"]
         /\ UNCHANGED <<kind, needs, right, outcome>>
         /\ raced' = IF \E q \in InFlight \ {r} : Sought(r) \in HasLoaded(q)
                       THEN raced \cup {Sought(r)} ELSE raced
         /\ loaded' \in [Requests -> Loads]
         /\ DOMAIN loaded'[r] = HasLoaded(r) \cup {Sought(r)}
         /\ loaded'[r][Sought(r)] = Row(Sought(r))
         /\ \A d \in HasLoaded(r) : loaded'[r][d] = loaded[r][d]
  <1> DEFINE c == Sought(r)
             D == HasLoaded(r) \cup {c}
             f == [d \in D |-> IF d = c THEN Row(c) ELSE loaded[r][d]]
  <1>1. /\ loaded' = [loaded EXCEPT ![r] = f]
        /\ pc' = [pc EXCEPT ![r] = IF Range(needs[r]) = D THEN "verify" ELSE "find"]
        /\ UNCHANGED <<kind, needs, right, outcome>>
        /\ raced' = IF \E q \in InFlight \ {r} : c \in HasLoaded(q) THEN raced \cup {c} ELSE raced
    BY DEF Find, Sought
  <1>2. c \in Challenges /\ c \notin HasLoaded(r)
    BY SoughtIsNamed
  <1>3. HasLoaded(r) \subseteq Challenges /\ loaded[r] \in [HasLoaded(r) -> LoadedRow]
    BY DEF Typed, TypeOK
  <1>4. Row(c) \in LoadedRow
    <2>1. attempts[c] \in 0..MaxAttempts
      BY <1>2 DEF Typed, TypeOK
    <2> HIDE DEF c
    <2>2. (c \in verified) \in BOOLEAN
      OBVIOUS
    <2> QED BY <2>1, <2>2 DEF Row, LoadedRow
  <1> HIDE DEF c
  <1>5. f \in [D -> LoadedRow] /\ D \in SUBSET Challenges
    BY <1>2, <1>3, <1>4
  <1>6. f \in Loads /\ DOMAIN f = D /\ f[c] = Row(c) /\ \A d \in HasLoaded(r) : f[d] = loaded[r][d]
    BY <1>2, <1>5 DEF Loads
  <1> HIDE DEF f
  <1>7. loaded' \in [Requests -> Loads] /\ loaded'[r] = f
    BY <1>1, <1>6 DEF Typed, Stage
  <1>8. /\ DOMAIN loaded'[r] = D /\ loaded'[r][c] = Row(c)
        /\ \A d \in HasLoaded(r) : loaded'[r][d] = loaded[r][d]
    BY <1>6, <1>7
  <1> QED BY <1>1, <1>7, <1>8 DEF c, f

LEMMA ArriveTyped ==
  ASSUME Typed, NEW r \in Requests, NEW k \in Kinds, NEW n \in Names,
         NEW R \in SUBSET Challenges, Arrive(r, k, n, R)
  PROVE  RequestsTyped'
  <1>1. /\ pc[r] = "idle" /\ kind' = [kind EXCEPT ![r] = k] /\ needs' = [needs EXCEPT ![r] = n]
        /\ right' = [right EXCEPT ![r] = R] /\ pc' = [pc EXCEPT ![r] = "find"]
        /\ loaded' = loaded /\ outcome' = outcome
    BY DEF Arrive
  <1>2. /\ pc' \in [Requests -> PCs] /\ right' \in [Requests -> SUBSET Challenges]
        /\ kind' \in [Requests -> Kinds]
    <2>1. pc' \in [Requests -> PCs]
      BY <1>1 DEF Typed, TypeOK, PCs
    <2>2. right' \in [Requests -> SUBSET Challenges] /\ kind' \in [Requests -> Kinds]
      BY <1>1 DEF Typed, TypeOK
    <2> QED BY <2>1, <2>2
  <1>3. needs' \in [Requests -> Seq(Challenges)]
    BY <1>1, NamesShape DEF Typed, TypeOK
  <1>4. /\ pc'[r] = "find" /\ needs'[r] = n
        /\ HasLoaded(r) = {} /\ outcome[r] \notin CarriedOut
    BY <1>1 DEF Typed, TypeOK, Stage, Running
  <1>5. \A q \in Requests \ {r} : pc'[q] = pc[q] /\ needs'[q] = needs[q]
    BY <1>1 DEF Typed, TypeOK
  <1>6. Stage'
    BY <1>1, <1>4, <1>5 DEF Stage, Running, HasLoaded, Typed
  <1> QED BY <1>1, <1>2, <1>3, <1>6 DEF RequestsTyped, HasLoaded, Typed, TypeOK

LEMMA FindTyped ==
  ASSUME Typed, NEW r \in Requests, Find(r)
  PROVE  RequestsTyped'
  <1>1. pc[r] = "find"
    BY DEF Find
  <1>2. CASE Findable(r, Sought(r))
    <2>1. /\ loaded' \in [Requests -> Loads]
          /\ DOMAIN loaded'[r] = HasLoaded(r) \cup {Sought(r)}
          /\ loaded'[r][Sought(r)] = Row(Sought(r))
          /\ \A d \in HasLoaded(r) : loaded'[r][d] = loaded[r][d]
          /\ UNCHANGED <<kind, needs, right, outcome>>
      BY <1>1, <1>2, FindRowTyped
    <2>2. \A q \in Requests \ {r} : loaded'[q] = loaded[q] /\ pc'[q] = pc[q]
      BY OthersKept DEF RequestStep
    <2>3. /\ pc' \in [Requests -> PCs]
          /\ pc'[r] = IF Range(needs[r]) = HasLoaded(r) \cup {Sought(r)} THEN "verify" ELSE "find"
      <3>1. pc' = [pc EXCEPT ![r] =
                     IF Range(needs[r]) = HasLoaded(r) \cup {Sought(r)} THEN "verify" ELSE "find"]
        BY <1>1, <1>2, FindRowTyped
      <3>2. pc \in [Requests -> PCs] /\ {"verify", "find"} \subseteq PCs
        BY DEF Typed, TypeOK, PCs
      <3> QED BY <3>1, <3>2
    <2>4. \A c \in DOMAIN loaded'[r] : loaded'[r][c].attempts < MaxAttempts
      <3>1. Row(Sought(r)).attempts < MaxAttempts
        BY <1>2 DEF Findable, Row
      <3>2. \A c \in HasLoaded(r) : loaded[r][c].attempts < MaxAttempts
        BY DEF Typed, Stage
      <3> QED BY <2>1, <3>1, <3>2
    <2>5. /\ needs[r] \in Names /\ outcome[r] \notin CarriedOut
      BY <1>1 DEF Typed, Stage, Running
    <2>6. Stage'
      <3> SUFFICES ASSUME NEW q \in Requests
                   PROVE  (/\ needs[q] \in Names \cup {<<>>}
                           /\ Running(q) => needs[q] \in Names
                           /\ ~Running(q) => HasLoaded(q) = {}
                           /\ pc[q] = "idle" => needs[q] = <<>>
                           /\ pc[q] = "find" => HasLoaded(q) = {} \/ (Len(needs[q]) = 2 /\ HasLoaded(q) = {needs[q][1]})
                           /\ pc[q] \in {"verify", "commit"} => HasLoaded(q) = Range(needs[q])
                           /\ outcome[q] \in CarriedOut => pc[q] = "done"
                           /\ \A c \in HasLoaded(q) : loaded[q][c].attempts < MaxAttempts)'
        BY <2>1 DEF Stage
      <3>1. CASE q = r
        <4>1. pc'[q] = "find" => DOMAIN loaded'[q] = {needs[q][1]} /\ Len(needs[q]) = 2
          BY <1>1, <2>1, <2>3, <3>1, SoughtIsNamed
        <4>2. pc'[q] # "find" => pc'[q] = "verify" /\ DOMAIN loaded'[q] = Range(needs[q])
          BY <2>1, <2>3, <3>1
        <4>3. pc'[q] = "find" \/ pc'[q] = "verify"
          BY <2>3, <3>1
        <4> QED BY <2>1, <2>4, <2>5, <3>1, <4>1, <4>2, <4>3 DEF Running, HasLoaded
      <3>2. CASE q # r
        BY <2>1, <2>2, <3>2 DEF Running, HasLoaded, Typed, Stage
      <3> QED BY <3>1, <3>2
    <2>7. (\A q \in Requests : loaded[q] \in [HasLoaded(q) -> LoadedRow] /\ HasLoaded(q) \subseteq Challenges)'
      BY <2>1, LoadsShape DEF HasLoaded
    <2> QED BY <2>1, <2>3, <2>6, <2>7 DEF RequestsTyped, Typed, TypeOK
  <1>3. CASE ~Findable(r, Sought(r))
    <2>1. Forget(r) /\ End(r, "failed")
      BY <1>3 DEF Find, Sought
    <2> QED BY <2>1, EndTyped DEF Outcomes
  <1> QED BY <1>2, <1>3

(* Whether its commit succeeds or not, a wrong code moves the attempts of one *)
(* challenge at most, by one, and tells of none that was not counted.         *)
LEMMA WrongCodeCounts ==
  ASSUME Typed, NEW r \in Requests, WrongCode(r)
  PROVE  \E c \in Failing(r) :
           \/ /\ attempts' = [attempts EXCEPT ![c] = loaded[r][c].attempts + 1]
              /\ wrong' = [wrong EXCEPT ![c] = @ + 1] \/ UNCHANGED wrong
           \/ UNCHANGED <<attempts, wrong>>
  BY DEF WrongCode

LEMMA WrongCodeTyped ==
  ASSUME Typed, NEW r \in Requests, WrongCode(r)
  PROVE  /\ RequestsTyped'
         /\ attempts' \in [Challenges -> 0..MaxAttempts] /\ wrong' \in [Challenges -> Nat]
         /\ verified' \subseteq Challenges /\ verified \subseteq verified' /\ shown' \subseteq Challenges
  <1> USE Bounds
  <1>1. RequestsTyped'
    BY EndTyped DEF WrongCode, Outcomes
  <1>2. PICK c \in Failing(r) :
           \/ /\ attempts' = [attempts EXCEPT ![c] = loaded[r][c].attempts + 1]
              /\ wrong' = [wrong EXCEPT ![c] = @ + 1] \/ UNCHANGED wrong
           \/ UNCHANGED <<attempts, wrong>>
    BY WrongCodeCounts
  <1>3. c \in HasLoaded(r) /\ Passed(r) \subseteq HasLoaded(r)
    BY <1>2 DEF Failing, Passed
  <1>4. loaded[r] \in [HasLoaded(r) -> LoadedRow] /\ HasLoaded(r) \subseteq Challenges
    BY DEF Typed, TypeOK
  <1>5. loaded[r][c].attempts \in 0..MaxAttempts /\ loaded[r][c].attempts < MaxAttempts
    <2>1. loaded[r][c] \in LoadedRow
      BY <1>3, <1>4
    <2> QED BY <1>3, <2>1 DEF LoadedRow, Typed, Stage
  <1>6. loaded[r][c].attempts + 1 \in 0..MaxAttempts
    BY <1>5
  <1>7. attempts' \in [Challenges -> 0..MaxAttempts]
    BY <1>2, <1>6 DEF Typed, TypeOK
  <1>8. wrong' \in [Challenges -> Nat]
    <2>1. wrong \in [Challenges -> Nat] /\ c \in Challenges
      BY <1>3, <1>4 DEF Typed, TypeOK
    <2>2. wrong' = [wrong EXCEPT ![c] = @ + 1] \/ wrong' = wrong
      BY <1>2
    <2> QED BY <2>1, <2>2
  <1>9. verified' = verified \cup Passed(r) \/ verified' = verified
    BY DEF WrongCode
  <1>10. shown' = shown \cup (Passed(r) \cap right[r])
    BY DEF WrongCode
  <1> QED BY <1>1, <1>3, <1>4, <1>7, <1>8, <1>9, <1>10 DEF Typed, TypeOK

LEMMA RightCodesTyped ==
  ASSUME Typed, NEW r \in Requests, RightCodes(r)
  PROVE  RequestsTyped' /\ shown' \subseteq Challenges
  <1>1. CASE Forget(r) /\ End(r, "failed")
    BY <1>1, EndTyped DEF Outcomes, RightCodes, Typed, TypeOK
  <1>2. CASE pc' = [pc EXCEPT ![r] = "commit"] /\ UNCHANGED <<kind, outcome, loaded, right, needs>>
    <2>1. pc[r] = "verify"
      BY DEF RightCodes
    <2>2. pc' \in [Requests -> PCs] /\ pc'[r] = "commit" /\ \A q \in Requests \ {r} : pc'[q] = pc[q]
      BY <1>2 DEF Typed, TypeOK, PCs
    <2>3. Stage'
      BY <1>2, <2>1, <2>2 DEF Typed, Stage, Running, HasLoaded
    <2>4. shown' \subseteq Challenges
      BY DEF RightCodes, Typed, TypeOK
    <2> QED BY <1>2, <2>2, <2>3, <2>4 DEF RequestsTyped, Typed, TypeOK, HasLoaded
  <1> QED BY <1>1, <1>2 DEF RightCodes

(* A commit leaves nothing, or all of a request.                              *)
CommitsNothing(r) ==
    /\ End(r, "failed")
    /\ UNCHANGED <<verified, consumed, uses, account>>
CommitsAll(r) ==
    /\ kind[r] = "register" => ~account
    /\ Consume(r)
    /\ uses' = [c \in Challenges |->
                  IF c \in HasLoaded(r) /\ kind[r] # "verify_signup" THEN uses[c] + 1 ELSE uses[c]]
    /\ account' = (account \/ kind[r] = "register")
    /\ \E o \in CarriedOut : End(r, o)

LEMMA CommitCases ==
  ASSUME NEW r \in Requests, Commit(r)
  PROVE  CommitsNothing(r) \/ CommitsAll(r)
  BY DEF Commit, CommitsNothing, CommitsAll

LEMMA CommitTyped ==
  ASSUME Typed, NEW r \in Requests, Commit(r)
  PROVE  /\ RequestsTyped'
         /\ verified' \subseteq Challenges /\ consumed' \subseteq verified'
         /\ account' \in BOOLEAN /\ uses' \in [Challenges -> Nat]
  <1>1. Forget(r)
    BY DEF Commit
  <1>2. CASE CommitsNothing(r)
    <2>1. account' \in BOOLEAN
      BY <1>2, Zenon DEF CommitsNothing, Typed, TypeOK
    <2>2. RequestsTyped'
      BY <1>1, <1>2, EndTyped DEF CommitsNothing, Outcomes
    <2> QED BY <1>2, <2>1, <2>2 DEF CommitsNothing, Typed, TypeOK
  <1>3. CASE CommitsAll(r)
    <2>1. account' = (account \/ kind[r] = "register")
      BY <1>3 DEF CommitsAll
    <2>2. account' \in BOOLEAN
      BY <2>1, Zenon
    <2>3. uses' \in [Challenges -> Nat]
      BY <1>3 DEF CommitsAll, Typed, TypeOK
    <2>4. verified' \subseteq Challenges /\ consumed' \subseteq verified'
      BY <1>3 DEF CommitsAll, Consume, Typed, TypeOK
    <2>5. RequestsTyped'
      BY <1>1, <1>3, EndTyped DEF CommitsAll, Outcomes
    <2> QED BY <2>2, <2>3, <2>4, <2>5
  <1> QED BY <1>2, <1>3, CommitCases

(* The faults stay within their bound. *)
LEMMA FailuresTyped ==
  ASSUME Typed, Fault \/ UNCHANGED failures
  PROVE  failures' \in 0..Failures
  BY FailuresAssumption DEF Fault, Typed, TypeOK

LEMMA StepTyped == Typed /\ [Next]_vars => Typed'
  <1> SUFFICES ASSUME Typed, [Next]_vars PROVE Typed'
    OBVIOUS
  <1> USE DEF vars, sendVars, requestVars, otpVars
  <1>1. ASSUME NEW s \in Sends, NEW step \in SendSteps, Step(s, step)
        PROVE  Typed'
    <2>1. sending' \in [Sends -> SendSteps]
      BY <1>1 DEF Step, Typed, TypeOK
    <2>2. account' \in BOOLEAN /\ usable' \in BOOLEAN
      BY <1>1, Zenon DEF Step, Typed, TypeOK
    <2>3. /\ UNCHANGED <<purpose, pc, kind, needs, right, loaded, outcome, attempts, verified, consumed>>
          /\ UNCHANGED <<expired, wrong, shown, uses, raced, failures>>
      BY <1>1 DEF Step
    <2> QED BY <2>1, <2>2, <2>3 DEF Typed, TypeOK, Stage, Running, HasLoaded
  <1>2. ASSUME NEW s \in Sends, SendSignup(s) \/ SendLogin(s) \/ SendReset(s) \/ Deliver(s)
        PROVE  Typed'
    <2>1. \E step \in SendSteps : Step(s, step)
      BY <1>2 DEF SendSignup, SendLogin, SendReset, Deliver, Asks, SendSteps
    <2> QED BY <1>1, <2>1
  <1>3. ASSUME NEW r \in Requests, NEW k \in Kinds, NEW n \in Nameable(PurposeOf[k]),
               NEW R \in SUBSET Range(n), Arrive(r, k, n, R)
        PROVE  Typed'
    <2>1. RequestsTyped'
      BY <1>3, ArriveTyped, CodesNamed
    <2>2. account' \in BOOLEAN /\ usable' \in BOOLEAN
      BY <1>3, Zenon DEF Arrive, Typed, TypeOK
    <2> QED BY <1>3, <2>1, <2>2 DEF Arrive, RequestsTyped, Typed, TypeOK
  <1>4. ASSUME NEW r \in Requests, Find(r)
        PROVE  Typed'
    <2>1. RequestsTyped'
      BY <1>4, FindTyped
    <2>2. account' \in BOOLEAN /\ usable' \in BOOLEAN
      BY <1>4, Zenon DEF Find, Typed, TypeOK
    <2>3. raced' \subseteq Challenges
      <3>1. CASE Findable(r, Sought(r))
        <4>1. pc[r] = "find"
          BY <1>4 DEF Find
        <4>2. Sought(r) \in Challenges
          BY <4>1, SoughtIsNamed
        <4>3. raced' = IF \E q \in InFlight \ {r} : Sought(r) \in HasLoaded(q)
                         THEN raced \cup {Sought(r)} ELSE raced
          BY <1>4, <3>1, <4>1, FindRowTyped
        <4> QED BY <4>2, <4>3 DEF Typed, TypeOK
      <3>2. CASE ~Findable(r, Sought(r))
        BY <1>4, <3>2 DEF Find, Sought, Typed, TypeOK
      <3> QED BY <3>1, <3>2
    <2> QED BY <1>4, <2>1, <2>2, <2>3 DEF Find, RequestsTyped, Typed, TypeOK
  <1>5. ASSUME NEW r \in Requests, WrongCode(r)
        PROVE  Typed'
    <2>1. account' \in BOOLEAN /\ usable' \in BOOLEAN
      BY <1>5, Zenon DEF WrongCode, Typed, TypeOK
    <2>2. failures' \in 0..Failures
      BY <1>5, FailuresTyped DEF WrongCode
    <2> QED BY <1>5, <2>1, <2>2, WrongCodeTyped DEF WrongCode, RequestsTyped, Typed, TypeOK
  <1>6. ASSUME NEW r \in Requests, RightCodes(r)
        PROVE  Typed'
    <2>1. account' \in BOOLEAN /\ usable' \in BOOLEAN
      BY <1>6, Zenon DEF RightCodes, Typed, TypeOK
    <2> QED BY <1>6, <2>1, RightCodesTyped DEF RightCodes, RequestsTyped, Typed, TypeOK
  <1>7. ASSUME NEW r \in Requests, Commit(r)
        PROVE  Typed'
    <2>1. usable' \in BOOLEAN
      BY <1>7, Zenon DEF Commit, Typed, TypeOK
    <2>2. failures' \in 0..Failures
      BY <1>7, FailuresTyped DEF Commit
    <2> QED BY <1>7, <2>1, <2>2, CommitTyped DEF Commit, RequestsTyped, Typed, TypeOK
  <1>8. ASSUME NEW c \in Challenges, Expire(c)
        PROVE  Typed'
    <2>1. account' \in BOOLEAN /\ usable' \in BOOLEAN
      BY <1>8, Zenon DEF Expire, Typed, TypeOK
    <2> QED BY <1>8, <2>1 DEF Expire, Typed, TypeOK, Stage, Running, HasLoaded
  <1>9. CASE SetActive
    <2>1. account' \in BOOLEAN /\ usable' \in BOOLEAN
      BY <1>9, Zenon DEF SetActive, Typed, TypeOK
    <2> QED BY <1>9, <2>1 DEF SetActive, Typed, TypeOK, Stage, Running, HasLoaded
  <1>10. CASE UNCHANGED vars
    <2>1. account' \in BOOLEAN /\ usable' \in BOOLEAN
      BY <1>10, Zenon DEF Typed, TypeOK
    <2> QED BY <1>10, <2>1 DEF Typed, TypeOK, Stage, Running, HasLoaded
  <1> QED BY <1>2, <1>3, <1>4, <1>5, <1>6, <1>7, <1>8, <1>9, <1>10 DEF Next

-----------------------------------------------------------------------------
(* The steps as the invariants see them: what moves no request, an arrival,   *)
(* and a step of a request that has arrived.                                  *)
Quiet == UNCHANGED <<requestVars, otpVars, account, wrong, shown, uses, raced>>

LEMMA Steps ==
  ASSUME [Next]_vars
  PROVE  \/ Quiet
         \/ \E r \in Requests, k \in Kinds, n \in Names, R \in SUBSET Challenges : Arrive(r, k, n, R)
         \/ \E r \in Requests : RequestStep(r)
  <1> USE DEF vars, sendVars, requestVars, otpVars
  <1>1. ASSUME NEW s \in Sends, SendSignup(s) \/ SendLogin(s) \/ SendReset(s) \/ Deliver(s)
        PROVE  Quiet
    BY <1>1 DEF SendSignup, SendLogin, SendReset, Deliver, Asks, Step, Quiet
  <1>2. ASSUME NEW r \in Requests, NEW k \in Kinds, NEW n \in Nameable(PurposeOf[k]),
               NEW R \in SUBSET Range(n), Arrive(r, k, n, R)
        PROVE  \E q \in Requests, l \in Kinds, m \in Names, C \in SUBSET Challenges : Arrive(q, l, m, C)
    <2>1. n \in Names /\ R \in SUBSET Challenges
      BY CodesNamed
    <2> QED BY <1>2, <2>1
  <1>3. ASSUME NEW c \in Challenges, Expire(c)
        PROVE  Quiet
    BY <1>3 DEF Expire, Quiet
  <1>4. CASE SetActive
    BY <1>4 DEF SetActive, Quiet
  <1>5. CASE UNCHANGED vars
    BY <1>5 DEF Quiet
  <1>6. CASE \E r \in Requests : Find(r) \/ WrongCode(r) \/ RightCodes(r) \/ Commit(r)
    BY <1>6 DEF RequestStep
  <1> QED BY <1>1, <1>2, <1>3, <1>4, <1>5, <1>6 DEF Next

(* A request that moves was running; unless it goes on with a challenge it    *)
(* has found, it holds nothing more than before.                              *)
LEMMA WhereItWas ==
  ASSUME NEW r \in Requests, RequestStep(r)
  PROVE  Running(r)
  BY DEF RequestStep, Find, WrongCode, RightCodes, Commit, Running

LEMMA Flight ==
  /\ InFlight \subseteq Requests /\ IsFiniteSet(InFlight) /\ Cardinality(InFlight) \in Nat
  /\ \A c : Holders(c) \subseteq Requests /\ IsFiniteSet(Holders(c)) /\ Cardinality(Holders(c)) \in Nat
  <1>1. InFlight \subseteq Requests /\ \A c : Holders(c) \subseteq Requests
    BY DEF InFlight, Holders
  <1> QED BY <1>1, RequestsAssumption, FS_Subset, FS_CardinalityType

(* Only what runs holds a challenge. *)
LEMMA HoldersRun ==
  ASSUME Typed, NEW c
  PROVE  Holders(c) \subseteq InFlight
  BY DEF Holders, InFlight, Typed, Stage

LEMMA StepBound ==
  ASSUME Typed, ThreadsBound, [Next]_vars
  PROVE  ThreadsBound'
  <1> USE Bounds
  <1>1. IsFiniteSet(InFlight) /\ Cardinality(InFlight) \in Nat
    BY Flight
  <1>2. ASSUME InFlight' \subseteq InFlight PROVE ThreadsBound'
    <2>1. IsFiniteSet(InFlight') /\ Cardinality(InFlight') \in Nat /\ Cardinality(InFlight') <= Cardinality(InFlight)
      BY <1>1, <1>2, FS_Subset, FS_CardinalityType
    <2> QED BY <1>1, <2>1 DEF ThreadsBound
  <1>3. CASE Quiet
    BY <1>2, <1>3 DEF Quiet, requestVars, InFlight, Running
  <1>4. ASSUME NEW r \in Requests, NEW k \in Kinds, NEW n \in Names, NEW R \in SUBSET Challenges,
               Arrive(r, k, n, R)
        PROVE  ThreadsBound'
    <2>1. \A q \in Requests \ {r} : pc'[q] = pc[q]
      BY <1>4, OthersKept
    <2>2. InFlight' \subseteq InFlight \cup {r}
      BY <2>1 DEF InFlight, Running
    <2>3. Cardinality(InFlight) < Threads
      BY <1>4 DEF Arrive
    <2>4. /\ IsFiniteSet(InFlight \cup {r})
          /\ Cardinality(InFlight \cup {r}) \in Nat
          /\ Cardinality(InFlight \cup {r}) <= Cardinality(InFlight) + 1
      <3>1. /\ IsFiniteSet(InFlight \cup {r})
            /\ \/ Cardinality(InFlight \cup {r}) = Cardinality(InFlight)
               \/ Cardinality(InFlight \cup {r}) = Cardinality(InFlight) + 1
        BY <1>1, FS_AddElement
      <3> QED BY <1>1, <3>1
    <2>5. Cardinality(InFlight') \in Nat /\ Cardinality(InFlight') <= Cardinality(InFlight \cup {r})
      BY <2>2, <2>4, FS_Subset, FS_CardinalityType
    <2> QED BY <1>1, <2>3, <2>4, <2>5 DEF ThreadsBound
  <1>5. ASSUME NEW r \in Requests, RequestStep(r)
        PROVE  ThreadsBound'
    <2>1. \A q \in Requests \ {r} : pc'[q] = pc[q]
      BY <1>5, OthersKept
    <2>2. r \in InFlight
      BY <1>5, WhereItWas DEF InFlight
    <2>3. InFlight' \subseteq InFlight
      BY <2>1, <2>2 DEF InFlight, Running
    <2> QED BY <1>2, <2>3
  <1> QED BY <1>3, <1>4, <1>5, Steps

(* What a step does to the challenges that requests hold: a request finds one *)
(* that was not used up, ends and holds none, or holds what it held.          *)
Found(r) == Find(r) /\ pc[r] = "find" /\ Findable(r, Sought(r))
Ended(r) ==
    /\ loaded'[r] = <<>> /\ DOMAIN loaded'[r] = {}
    /\ pc'[r] = "done"
    /\ UNCHANGED raced

LEMMA HoldSteps ==
  ASSUME Typed, NEW r \in Requests, RequestStep(r)
  PROVE  \/ Found(r)
         \/ Ended(r)
         \/ UNCHANGED <<loaded, raced>> /\ RightCodes(r) /\ pc'[r] = "commit" /\ outcome' = outcome
  <1>1. ASSUME NEW o, Forget(r), End(r, o), UNCHANGED raced PROVE Ended(r)
    <2>1. loaded' = [loaded EXCEPT ![r] = <<>>] /\ DOMAIN loaded = Requests
      BY <1>1 DEF Forget, Typed, Stage
    <2>2. pc' = [pc EXCEPT ![r] = "done"] /\ DOMAIN pc = Requests
      BY <1>1 DEF End, Typed, TypeOK
    <2> QED BY <1>1, <2>1, <2>2, NothingLoaded DEF Ended
  <1>2. CASE Find(r)
    <2>1. CASE Findable(r, Sought(r))
      BY <1>2, <2>1 DEF Find, Found
    <2>2. CASE ~Findable(r, Sought(r))
      BY <1>1, <1>2, <2>2 DEF Find, Sought
    <2> QED BY <2>1, <2>2
  <1>3. CASE WrongCode(r)
    BY <1>1, <1>3 DEF WrongCode
  <1>4. CASE RightCodes(r)
    <2>1. CASE Forget(r) /\ End(r, "failed")
      BY <1>1, <1>4, <2>1 DEF RightCodes
    <2>2. CASE pc' = [pc EXCEPT ![r] = "commit"] /\ UNCHANGED <<outcome, loaded>>
      BY <1>4, <2>2 DEF RightCodes, Typed, TypeOK
    <2> QED BY <1>4, <2>1, <2>2 DEF RightCodes
  <1>5. CASE Commit(r)
    BY <1>1, <1>5 DEF Commit
  <1> QED BY <1>2, <1>3, <1>4, <1>5 DEF RequestStep

LEMMA HoldersAfter ==
  ASSUME Typed, NEW r \in Requests, RequestStep(r), NEW c
  PROVE  /\ Found(r) => Holders(c)' = IF c = Sought(r) THEN Holders(c) \cup {r} ELSE Holders(c)
         /\ Ended(r) => Holders(c)' = Holders(c) \ {r}
         /\ UNCHANGED loaded => Holders(c)' = Holders(c)
  <1>1. \A q \in Requests \ {r} : loaded'[q] = loaded[q]
    BY OthersKept
  <1>2. CASE Found(r)
    <2>1. DOMAIN loaded'[r] = HasLoaded(r) \cup {Sought(r)}
      BY <1>2, FindRowTyped DEF Found
    <2>2. ~Ended(r)
      BY <2>1, <1>2 DEF Ended
    <2>3. Holders(c)' = IF c = Sought(r) THEN Holders(c) \cup {r} ELSE Holders(c)
      BY <1>1, <2>1 DEF Holders, HasLoaded
    <2> QED BY <2>2, <2>3 DEF Holders, HasLoaded
  <1>3. CASE Ended(r)
    <2>1. Holders(c)' = Holders(c) \ {r}
      BY <1>1, <1>3 DEF Holders, HasLoaded, Ended
    <2>2. ~Found(r)
      <3>1. Found(r) => DOMAIN loaded'[r] = HasLoaded(r) \cup {Sought(r)}
        BY FindRowTyped DEF Found
      <3> QED BY <1>3, <3>1 DEF Ended
    <2> QED BY <2>1, <2>2 DEF Holders, HasLoaded
  <1>4. CASE UNCHANGED loaded
    <2>1. Holders(c)' = Holders(c)
      BY <1>4 DEF Holders, HasLoaded
    <2> QED BY <1>2, <1>3, <2>1
  <1> QED BY <1>2, <1>3, <1>4

LEMMA StepUses ==
  ASSUME Typed, ThreadsBound', Uses, [Next]_vars, Typed'
  PROVE  Uses'
  <1> USE Bounds
  <1>a. \A c \in Challenges : uses[c] \in Nat /\ uses'[c] \in Nat
    BY DEF Typed, TypeOK
  <1>h. \A c : Holders(c)' \subseteq Requests /\ IsFiniteSet(Holders(c)') /\ Cardinality(Holders(c)') \in Nat
    <2>1. \A c : Holders(c)' \subseteq Requests
      BY DEF Holders
    <2> QED BY <2>1, RequestsAssumption, FS_Subset, FS_CardinalityType
  <1>l. ASSUME NEW c \in Challenges, Holders(c)' \subseteq Holders(c)
        PROVE  Cardinality(Holders(c)') <= Cardinality(Holders(c))
    BY <1>l, Flight, FS_Subset
  <1>1. ASSUME UNCHANGED <<consumed, uses>>, \A c \in Challenges : Holders(c)' \subseteq Holders(c)
        PROVE  Uses'
    <2> SUFFICES ASSUME NEW c \in Challenges
                 PROVE  /\ c \notin consumed' => uses'[c] = 0
                        /\ uses'[c] + Cardinality(Holders(c)') <= Threads
      BY DEF Uses
    <2>1. Cardinality(Holders(c)') <= Cardinality(Holders(c)) /\ Cardinality(Holders(c)') \in Nat /\ Cardinality(Holders(c)) \in Nat
      BY <1>1, <1>l, <1>h, Flight
    <2> QED BY <1>a, <1>1, <2>1 DEF Uses
  <1>2. CASE Quiet
    <2>1. \A c \in Challenges : Holders(c)' = Holders(c)
      BY <1>2 DEF Quiet, requestVars, Holders, HasLoaded
    <2> QED BY <1>1, <1>2, <2>1 DEF Quiet, otpVars
  <1>3. ASSUME NEW r \in Requests, NEW k \in Kinds, NEW n \in Names, NEW R \in SUBSET Challenges,
               Arrive(r, k, n, R)
        PROVE  Uses'
    <2>1. \A c \in Challenges : Holders(c)' = Holders(c)
      BY <1>3 DEF Arrive, Holders, HasLoaded
    <2> QED BY <1>1, <1>3, <2>1 DEF Arrive, otpVars
  <1>4. ASSUME NEW r \in Requests, Found(r)
        PROVE  Uses'
    <2>1. UNCHANGED <<consumed, uses>> /\ RequestStep(r)
      BY <1>4 DEF Found, Find, otpVars, RequestStep
    <2> SUFFICES ASSUME NEW c \in Challenges
                 PROVE  /\ c \notin consumed => uses[c] = 0
                        /\ uses[c] + Cardinality(Holders(c)') <= Threads
      BY <2>1 DEF Uses
    <2>2. CASE c = Sought(r)
      <3>1. c \notin consumed
        BY <1>4, <2>2 DEF Found, Findable
      <3>2. uses[c] = 0
        BY <3>1 DEF Uses
      <3>3. Holders(c)' \subseteq InFlight'
        BY DEF Holders, InFlight, Typed, Stage
      <3>4. InFlight' \subseteq Requests
        BY DEF InFlight
      <3>5. /\ IsFiniteSet(InFlight') /\ Cardinality(InFlight') \in Nat
            /\ Cardinality(Holders(c)') <= Cardinality(InFlight')
        BY <3>3, <3>4, RequestsAssumption, FS_Subset, FS_CardinalityType
      <3> QED BY <1>h, <3>2, <3>5 DEF ThreadsBound
    <2>3. CASE c # Sought(r)
      <3>1. Holders(c)' = Holders(c)
        BY <1>4, <2>1, <2>3, HoldersAfter
      <3> QED BY <3>1 DEF Uses
    <2> QED BY <2>2, <2>3
  <1>5. ASSUME NEW r \in Requests, RequestStep(r), ~Found(r), UNCHANGED <<consumed, uses>>
        PROVE  Uses'
    <2>1. \A c \in Challenges : Holders(c)' \subseteq Holders(c)
      BY <1>5, HoldSteps, HoldersAfter
    <2> QED BY <1>1, <1>5, <2>1
  <1>6. ASSUME NEW r \in Requests, Commit(r), Consume(r),
               uses' = [c \in Challenges |->
                          IF c \in HasLoaded(r) /\ kind[r] # "verify_signup" THEN uses[c] + 1 ELSE uses[c]]
        PROVE  Uses'
    <2>1. RequestStep(r) /\ ~Found(r) /\ ~RightCodes(r)
      BY <1>6 DEF RequestStep, Commit, Found, RightCodes
    <2>2. Ended(r)
      BY <2>1, HoldSteps
    <2> SUFFICES ASSUME NEW c \in Challenges
                 PROVE  /\ c \notin consumed' => uses'[c] = 0
                        /\ uses'[c] + Cardinality(Holders(c)') <= Threads
      BY DEF Uses
    <2>3. Holders(c)' = Holders(c) \ {r}
      BY <2>1, <2>2, HoldersAfter
    <2>4. CASE c \in HasLoaded(r) /\ kind[r] # "verify_signup"
      <3>1. uses'[c] = uses[c] + 1 /\ c \in consumed'
        BY <1>6, <2>4 DEF Consume
      <3>2. r \in Holders(c)
        BY <2>4 DEF Holders
      <3>3. Cardinality(Holders(c)') = Cardinality(Holders(c)) - 1
        <4>1. IsFiniteSet(Holders(c))
          BY Flight
        <4>2. Cardinality(Holders(c) \ {r}) = Cardinality(Holders(c)) - 1
          BY <3>2, <4>1, FS_RemoveElement
        <4> QED BY <2>3, <4>2
      <3> QED BY <1>a, <3>1, <3>3, Flight DEF Uses
    <2>5. CASE ~(c \in HasLoaded(r) /\ kind[r] # "verify_signup")
      <3>1. uses'[c] = uses[c]
        BY <1>6, <2>5
      <3>2. c \notin consumed' => c \notin consumed
        BY <1>6 DEF Consume
      <3>3. Cardinality(Holders(c)') <= Cardinality(Holders(c))
        BY <2>3, <1>l
      <3> QED BY <1>a, <1>h, <3>1, <3>2, <3>3, Flight DEF Uses
    <2> QED BY <2>4, <2>5
  <1>7. ASSUME NEW r \in Requests, RequestStep(r)
        PROVE  Uses'
    <2>1. CASE Find(r)
      <3>1. CASE Found(r)
        BY <1>4, <3>1
      <3>2. CASE ~Found(r)
        BY <1>5, <1>7, <2>1, <3>2 DEF Find, otpVars
      <3> QED BY <3>1, <3>2
    <2>2. CASE WrongCode(r)
      BY <1>5, <1>7, <2>2 DEF WrongCode, Found
    <2>3. CASE RightCodes(r)
      BY <1>5, <1>7, <2>3 DEF RightCodes, otpVars, Found
    <2>4. CASE Commit(r)
      <3>1. CASE CommitsNothing(r)
        BY <1>5, <1>7, <2>4, <3>1 DEF CommitsNothing, Commit, Found
      <3>2. CASE CommitsAll(r)
        BY <1>6, <2>4, <3>2 DEF CommitsAll
      <3> QED BY <2>4, <3>1, <3>2, CommitCases
    <2> QED BY <1>7, <2>1, <2>2, <2>3, <2>4 DEF RequestStep
  <1> QED BY <1>2, <1>3, <1>7, Steps

-----------------------------------------------------------------------------
(* The attempts counted. *)

LEMMA StepAlone ==
  ASSUME Typed, Alone, [Next]_vars
  PROVE  Alone'
  <1>1. ASSUME UNCHANGED <<attempts, wrong, raced>>,
               \A c \in Challenges : Holders(c)' \subseteq Holders(c),
               \A c \in Challenges : \A q \in Holders(c)' : loaded'[q] = loaded[q]
        PROVE  Alone'
    BY <1>1 DEF Alone
  <1>2. CASE Quiet
    <2>1. \A c \in Challenges : Holders(c)' = Holders(c)
      BY <1>2 DEF Quiet, requestVars, Holders, HasLoaded
    <2> QED BY <1>1, <1>2, <2>1 DEF Quiet, otpVars, requestVars
  <1>3. ASSUME NEW r \in Requests, NEW k \in Kinds, NEW n \in Names, NEW R \in SUBSET Challenges,
               Arrive(r, k, n, R)
        PROVE  Alone'
    <2>1. \A c \in Challenges : Holders(c)' = Holders(c)
      BY <1>3 DEF Arrive, Holders, HasLoaded
    <2> QED BY <1>1, <1>3, <2>1 DEF Arrive, otpVars
  <1>4. ASSUME NEW r \in Requests, Found(r)
        PROVE  Alone'
    <2>1. UNCHANGED <<attempts, wrong>> /\ RequestStep(r)
      BY <1>4 DEF Found, Find, otpVars, RequestStep
    <2>2. /\ loaded'[r][Sought(r)] = Row(Sought(r))
          /\ \A d \in HasLoaded(r) : loaded'[r][d] = loaded[r][d]
          /\ raced' = IF \E q \in InFlight \ {r} : Sought(r) \in HasLoaded(q)
                        THEN raced \cup {Sought(r)} ELSE raced
      BY <1>4, FindRowTyped DEF Found
    <2>3. Sought(r) \notin HasLoaded(r)
      BY <1>4, SoughtIsNamed DEF Found
    <2>4. \A q \in Requests \ {r} : loaded'[q] = loaded[q]
      BY <2>1, OthersKept
    <2> SUFFICES ASSUME NEW c \in Challenges \ raced'
                 PROVE  /\ wrong[c] <= attempts[c]
                        /\ \A q \in Holders(c)' : loaded'[q][c].attempts = attempts[c] /\ Holders(c)' = {q}
      BY <2>1 DEF Alone
    <2>5. c \notin raced
      BY <2>2
    <2>6. wrong[c] <= attempts[c]
      BY <2>5 DEF Alone
    <2>7. CASE c = Sought(r)
      <3>1. \A q \in InFlight \ {r} : c \notin HasLoaded(q)
        BY <2>2, <2>7
      <3>2. Holders(c) \subseteq {r}
        BY <3>1, HoldersRun DEF Holders
      <3>3. Holders(c)' = {r}
        BY <1>4, <2>1, <2>7, <3>2, HoldersAfter
      <3>4. loaded'[r][c].attempts = attempts[c]
        BY <2>2, <2>7 DEF Row
      <3> QED BY <2>6, <3>3, <3>4
    <2>8. CASE c # Sought(r)
      <3>1. Holders(c)' = Holders(c)
        BY <1>4, <2>1, <2>8, HoldersAfter
      <3>2. \A q \in Holders(c) : loaded'[q][c] = loaded[q][c]
        BY <2>2, <2>4 DEF Holders
      <3> QED BY <2>5, <2>6, <3>1, <3>2 DEF Alone
    <2> QED BY <2>7, <2>8
  <1>5. ASSUME NEW r \in Requests, RequestStep(r), ~Found(r), UNCHANGED <<attempts, wrong>>
        PROVE  Alone'
    <2>1. CASE Ended(r)
      <3>1. \A c \in Challenges : Holders(c)' = Holders(c) \ {r}
        BY <1>5, <2>1, HoldersAfter
      <3>2. \A c \in Challenges : \A q \in Holders(c)' : loaded'[q] = loaded[q]
        BY <1>5, <3>1, OthersKept DEF Holders
      <3> QED BY <1>1, <1>5, <2>1, <3>1, <3>2 DEF Ended
    <2>2. CASE UNCHANGED <<loaded, raced>>
      <3>1. \A c \in Challenges : Holders(c)' = Holders(c)
        BY <2>2 DEF Holders, HasLoaded
      <3> QED BY <1>1, <1>5, <2>2, <3>1
    <2> QED BY <1>5, <2>1, <2>2, HoldSteps
  <1>6. ASSUME NEW r \in Requests, WrongCode(r)
        PROVE  Alone'
    <2>1. RequestStep(r) /\ ~Found(r) /\ ~RightCodes(r)
      <3>1. pc[r] = "verify" /\ Failing(r) # {}
        BY <1>6 DEF WrongCode
      <3> QED BY <1>6, <3>1 DEF RequestStep, Found, RightCodes
    <2>2. Ended(r)
      BY <2>1, HoldSteps
    <2>3. UNCHANGED raced
      BY <2>2 DEF Ended
    <2>4. PICK c \in Failing(r) :
             \/ /\ attempts' = [attempts EXCEPT ![c] = loaded[r][c].attempts + 1]
                /\ wrong' = [wrong EXCEPT ![c] = @ + 1] \/ UNCHANGED wrong
             \/ UNCHANGED <<attempts, wrong>>
      BY <1>6, WrongCodeCounts
    <2>5. c \in HasLoaded(r) /\ c \in Challenges /\ r \in Holders(c)
      BY <2>4 DEF Failing, Holders, Typed, TypeOK
    <2> SUFFICES ASSUME NEW d \in Challenges \ raced
                 PROVE  /\ wrong'[d] <= attempts'[d]
                        /\ \A q \in Holders(d)' : loaded'[q][d].attempts = attempts'[d] /\ Holders(d)' = {q}
      BY <2>3 DEF Alone
    <2>6. Holders(d)' = Holders(d) \ {r}
      BY <2>1, <2>2, HoldersAfter
    <2>7. CASE d = c
      <3>1. wrong[d] <= attempts[d] /\ loaded[r][d].attempts = attempts[d] /\ Holders(d) = {r}
        BY <2>5, <2>7 DEF Alone
      <3>2. attempts[d] \in Nat /\ wrong[d] \in Nat
        BY Bounds DEF Typed, TypeOK
      <3>3. \/ attempts'[d] = attempts[d] + 1 /\ wrong'[d] \in {wrong[d], wrong[d] + 1}
            \/ attempts'[d] = attempts[d] /\ wrong'[d] = wrong[d]
        BY <2>4, <2>5, <2>7, <3>1 DEF Typed, TypeOK
      <3>4. wrong'[d] <= attempts'[d]
        BY <3>1, <3>2, <3>3
      <3> QED BY <2>6, <3>1, <3>4
    <2>8. CASE d # c
      <3>1. attempts'[d] = attempts[d] /\ wrong'[d] = wrong[d]
        BY <2>4, <2>8 DEF Typed, TypeOK
      <3>2. \A q \in Holders(d)' : loaded'[q] = loaded[q]
        BY <2>1, <2>6, OthersKept DEF Holders
      <3> QED BY <2>6, <3>1, <3>2 DEF Alone
    <2> QED BY <2>7, <2>8
  <1>7. ASSUME NEW r \in Requests, RequestStep(r)
        PROVE  Alone'
    <2>1. CASE Found(r)
      BY <1>4, <2>1
    <2>2. CASE WrongCode(r)
      BY <1>6, <2>2
    <2>3. CASE ~Found(r) /\ ~WrongCode(r)
      <3>1. UNCHANGED <<attempts, wrong>>
        BY <1>7, <2>3 DEF RequestStep, Find, RightCodes, Commit, otpVars
      <3> QED BY <1>5, <1>7, <2>3, <3>1
    <2> QED BY <2>1, <2>2, <2>3
  <1> QED BY <1>2, <1>3, <1>7, Steps

-----------------------------------------------------------------------------
(* Registrations. *)

LEMMA StepRegistration ==
  ASSUME Typed, Registration, [Next]_vars
  PROVE  Registration'
  <1>1. ASSUME Registered' \subseteq Registered, account => account'
        PROVE  Registration'
    BY <1>1 DEF Registration
  <1>2. CASE Quiet
    BY <1>1, <1>2 DEF Quiet, requestVars, Registered
  <1>3. ASSUME NEW r \in Requests, NEW k \in Kinds, NEW n \in Names, NEW R \in SUBSET Challenges,
               Arrive(r, k, n, R)
        PROVE  Registration'
    <2>1. \A q \in Requests \ {r} : kind'[q] = kind[q]
      BY <1>3, OthersKept
    <2>2. outcome[r] \notin CarriedOut /\ UNCHANGED <<outcome, account>>
      BY <1>3 DEF Arrive, Typed, Stage
    <2> QED BY <1>1, <2>1, <2>2 DEF Registered
  <1>4. ASSUME NEW r \in Requests, RequestStep(r)
        PROVE  Registration'
    <2>1. \A q \in Requests \ {r} : kind'[q] = kind[q] /\ outcome'[q] = outcome[q]
      BY <1>4, OthersKept
    <2>2. outcome[r] \notin CarriedOut
      BY <1>4, WhereItWas DEF Typed, Stage, Running
    <2>3. outcome'[r] \in CarriedOut => kind'[r] = kind[r]
      BY <1>4, <2>2 DEF RequestStep, Find, WrongCode, RightCodes, Commit, End, Typed, TypeOK
    <2>4. CASE outcome'[r] \notin CarriedOut /\ UNCHANGED account
      BY <1>1, <2>1, <2>4 DEF Registered
    <2>5. CASE CommitsAll(r)
      <3>1. account' = (account \/ kind[r] = "register")
        BY <2>5 DEF CommitsAll
      <3>2. CASE kind[r] = "register"
        <4>1. Registered = {}
          BY <2>5, <3>2 DEF CommitsAll, Registration
        <4>2. Registered' \subseteq {r}
          BY <2>1, <4>1 DEF Registered
        <4> QED BY <3>1, <3>2, <4>2 DEF Registration
      <3>3. CASE kind[r] # "register"
        <4>1. Registered' \subseteq Registered
          BY <2>1, <2>3, <3>3 DEF Registered
        <4> QED BY <1>1, <3>1, <4>1
      <3> QED BY <3>2, <3>3
    <2>6. \/ outcome'[r] \notin CarriedOut /\ UNCHANGED account
          \/ CommitsAll(r)
      <3>1. CASE Commit(r)
        BY <3>1, CommitCases DEF CommitsNothing, End, Typed, TypeOK
      <3>2. CASE ~Commit(r)
        BY <1>4, <2>2, <3>2 DEF RequestStep, Find, WrongCode, RightCodes, End, Typed, TypeOK
      <3> QED BY <3>1, <3>2
    <2> QED BY <2>4, <2>5, <2>6
  <1> QED BY <1>2, <1>3, <1>4, Steps

-----------------------------------------------------------------------------
(* Codes brought. *)

LEMMA PassedPasses ==
  ASSUME Typed, NEW r \in Requests, pc[r] = "verify"
  PROVE  /\ Passed(r) \subseteq {c \in HasLoaded(r) : Passes(r, c)}
         /\ Failing(r) = {} => \A c \in HasLoaded(r) : Passes(r, c)
  <1>1. HasLoaded(r) = Range(needs[r]) /\ needs[r] \in Names
    BY DEF Typed, Stage, Running
  <1> DEFINE n == needs[r]
  <1>2. /\ n \in Names
        /\ HasLoaded(r) = Range(n)
        /\ Passed(r) = {c \in HasLoaded(r) : \A i \in DOMAIN n :
                          (\E j \in DOMAIN n : i <= j /\ n[j] = c) => Passes(r, n[i])}
        /\ Failing(r) = {c \in HasLoaded(r) \ Passed(r) : \A i \in DOMAIN n :
                          (\E j \in DOMAIN n : i < j /\ n[j] = c) => Passes(r, n[i])}
    BY <1>1 DEF Passed, Failing
  <1> HIDE DEF n
  <1>3. \/ /\ DOMAIN n = {1} /\ HasLoaded(r) = {n[1]}
        \/ /\ DOMAIN n = {1, 2} /\ n[1] # n[2] /\ HasLoaded(r) = {n[1], n[2]}
    BY <1>2, NamesShape
  <1>4. ASSUME NEW c \in Passed(r) PROVE c \in HasLoaded(r) /\ Passes(r, c)
    <2>1. c \in HasLoaded(r) /\ \A i \in DOMAIN n : (\E j \in DOMAIN n : i <= j /\ n[j] = c) => Passes(r, n[i])
      BY <1>2, <1>4
    <2>2. PICK i \in DOMAIN n : n[i] = c /\ i <= i
      BY <1>3, <2>1
    <2> QED BY <2>1, <2>2
  <1>5. CASE DOMAIN n = {1} /\ HasLoaded(r) = {n[1]}
    <2>1. ~Passes(r, n[1]) => n[1] \in Failing(r)
      BY <1>2, <1>4, <1>5
    <2> QED BY <1>4, <1>5, <2>1
  <1>6. CASE DOMAIN n = {1, 2} /\ n[1] # n[2] /\ HasLoaded(r) = {n[1], n[2]}
    <2>1. ~Passes(r, n[1]) => n[1] \in Failing(r)
      BY <1>2, <1>4, <1>6
    <2>2. Passes(r, n[1]) /\ ~Passes(r, n[2]) => n[2] \in Failing(r)
      BY <1>2, <1>4, <1>6
    <2> QED BY <1>4, <1>6, <2>1, <2>2
  <1> QED BY <1>3, <1>5, <1>6

LEMMA StepProven ==
  ASSUME Typed, Proven, [Next]_vars
  PROVE  Proven'
  <1>a. ASSUME NEW q \in Requests
        PROVE  /\ \A c \in HasLoaded(q) : loaded[q][c].verified => c \in shown
               /\ pc[q] = "commit" => HasLoaded(q) \subseteq shown
               /\ outcome[q] \in CarriedOut => Range(needs[q]) \subseteq shown
    BY DEF Proven
  <1>1. CASE Quiet
    BY <1>1 DEF Quiet, requestVars, otpVars, Proven, HasLoaded
  <1>2. ASSUME NEW r \in Requests, NEW k \in Kinds, NEW n \in Names, NEW R \in SUBSET Challenges,
               Arrive(r, k, n, R)
        PROVE  Proven'
    <2>1. \A q \in Requests \ {r} : pc'[q] = pc[q] /\ needs'[q] = needs[q]
      BY <1>2, OthersKept
    <2>2. outcome[r] \notin CarriedOut /\ pc'[r] = "find"
      BY <1>2 DEF Arrive, Typed, TypeOK, Stage
    <2>3. UNCHANGED <<loaded, outcome, verified, shown>>
      BY <1>2 DEF Arrive, otpVars
    <2> QED BY <2>1, <2>2, <2>3 DEF Proven, HasLoaded
  <1>3. ASSUME NEW r \in Requests, RequestStep(r)
        PROVE  Proven'
    <2>1. \A q \in Requests \ {r} : /\ pc'[q] = pc[q] /\ needs'[q] = needs[q]
                                    /\ loaded'[q] = loaded[q] /\ outcome'[q] = outcome[q]
      BY <1>3, OthersKept
    <2>2. shown \subseteq shown'
      BY <1>3 DEF RequestStep, Find, WrongCode, RightCodes, Commit
    <2>3. ASSUME verified' \subseteq shown',
                 \A c \in DOMAIN loaded'[r] : loaded'[r][c].verified => c \in shown',
                 pc'[r] = "commit" => DOMAIN loaded'[r] \subseteq shown',
                 outcome'[r] \in CarriedOut => Range(needs'[r]) \subseteq shown'
          PROVE  Proven'
      <3> SUFFICES ASSUME NEW q \in Requests
                   PROVE  (/\ \A c \in HasLoaded(q) : loaded[q][c].verified => c \in shown
                           /\ pc[q] = "commit" => HasLoaded(q) \subseteq shown
                           /\ outcome[q] \in CarriedOut => Range(needs[q]) \subseteq shown)'
        BY <2>3 DEF Proven
      <3>1. CASE q = r
        BY <2>3, <3>1 DEF HasLoaded
      <3>2. CASE q # r
        BY <1>a, <2>1, <2>2, <3>2 DEF HasLoaded
      <3> QED BY <3>1, <3>2
    <2>4. outcome[r] \notin CarriedOut
      BY <1>3, WhereItWas DEF Typed, Stage, Running
    <2>5. CASE Found(r)
      <3>1. /\ DOMAIN loaded'[r] = HasLoaded(r) \cup {Sought(r)}
            /\ loaded'[r][Sought(r)] = Row(Sought(r))
            /\ \A d \in HasLoaded(r) : loaded'[r][d] = loaded[r][d]
            /\ UNCHANGED outcome
        BY <2>5, FindRowTyped DEF Found
      <3>2. pc'[r] # "commit"
        BY <2>5, FindRowTyped DEF Found, Typed, TypeOK
      <3>3. UNCHANGED <<verified, shown>>
        BY <2>5 DEF Found, Find, otpVars
      <3>4. Row(Sought(r)).verified => Sought(r) \in shown
        BY DEF Row, Proven
      <3>5. \A c \in DOMAIN loaded'[r] : loaded'[r][c].verified => c \in shown
        BY <1>a, <3>1, <3>4
      <3>6. verified \subseteq shown
        BY DEF Proven
      <3> QED BY <2>3, <2>4, <3>1, <3>2, <3>3, <3>5, <3>6
    <2>6. CASE Find(r) /\ ~Found(r)
      <3>1. Ended(r)
        <4>1. ~RightCodes(r)
          BY <2>6 DEF Find, RightCodes
        <4> QED BY <1>3, <2>6, <4>1, HoldSteps
      <3>2. outcome'[r] = "failed"
        BY <2>6 DEF Find, Found, Sought, End, Typed, TypeOK
      <3>3. UNCHANGED <<verified, shown>>
        BY <2>6 DEF Find, otpVars
      <3>4. verified \subseteq shown
        BY DEF Proven
      <3> QED BY <2>3, <3>1, <3>2, <3>3, <3>4 DEF Ended
    <2>7. CASE WrongCode(r)
      <3>1. Ended(r)
        <4>1. ~RightCodes(r) /\ ~Found(r)
          BY <2>7 DEF WrongCode, RightCodes, Found
        <4> QED BY <1>3, <4>1, HoldSteps
      <3>2. outcome'[r] = "failed"
        BY <2>7 DEF WrongCode, End, Typed, TypeOK
      <3>3. pc[r] = "verify"
        BY <2>7 DEF WrongCode
      <3>4. Passed(r) \subseteq shown \cup (Passed(r) \cap right[r])
        BY <1>a, <3>3, PassedPasses DEF Passes
      <3>5. /\ verified' = verified \cup Passed(r) \/ verified' = verified
            /\ shown' = shown \cup (Passed(r) \cap right[r])
        BY <2>7 DEF WrongCode
      <3>6. verified' \subseteq shown'
        BY <3>4, <3>5 DEF Proven
      <3> QED BY <2>3, <3>1, <3>2, <3>6 DEF Ended
    <2>8. CASE RightCodes(r)
      <3>1. /\ pc[r] = "verify" /\ Failing(r) = {} /\ UNCHANGED verified
            /\ shown' = shown \cup (HasLoaded(r) \cap right[r])
        BY <2>8 DEF RightCodes, otpVars
      <3>2. HasLoaded(r) \subseteq shown'
        BY <1>a, <3>1, PassedPasses DEF Passes
      <3>3. verified' \subseteq shown'
        BY <2>2, <3>1 DEF Proven
      <3>4. outcome'[r] \notin CarriedOut
        BY <2>4, <2>8 DEF RightCodes, End, Typed, TypeOK
      <3>5. CASE Ended(r)
        BY <2>3, <3>3, <3>4, <3>5 DEF Ended
      <3>6. CASE UNCHANGED loaded
        BY <2>3, <3>2, <3>3, <3>4, <3>6 DEF HasLoaded
      <3> QED BY <1>3, <3>1, <3>5, <3>6, HoldSteps DEF Found
    <2>9. CASE Commit(r)
      <3>1. pc[r] = "commit" /\ UNCHANGED shown
        BY <2>9 DEF Commit
      <3>2. HasLoaded(r) = Range(needs[r]) /\ HasLoaded(r) \subseteq shown
        BY <1>a, <3>1 DEF Typed, Stage
      <3>3. Ended(r)
        BY <1>3, <3>1, HoldSteps DEF Found, RightCodes
      <3>4. verified' \subseteq shown'
        <4>1. verified' \subseteq verified \cup HasLoaded(r)
          BY <2>9, CommitCases DEF CommitsNothing, CommitsAll, Consume
        <4>2. verified \subseteq shown
          BY DEF Proven
        <4> QED BY <3>1, <3>2, <4>1, <4>2
      <3>5. outcome'[r] \in CarriedOut => needs'[r] = needs[r]
        BY <2>9 DEF Commit, End, Typed, TypeOK
      <3> QED BY <2>3, <3>1, <3>2, <3>3, <3>4, <3>5 DEF Ended
    <2> QED BY <1>3, <2>5, <2>6, <2>7, <2>8, <2>9 DEF RequestStep
  <1> QED BY <1>1, <1>2, <1>3, Steps

-----------------------------------------------------------------------------
(* Theorems. *)

OtpInvariant == Typed /\ ThreadsBound /\ Uses /\ Alone /\ Registration /\ Proven

LEMMA InitInvariant == Init => OtpInvariant
  <1> SUFFICES ASSUME Init PROVE OtpInvariant
    OBVIOUS
  <1> USE Bounds
  <1>1. \A r \in Requests : HasLoaded(r) = {} /\ outcome[r] = "none" /\ pc[r] = "idle"
    BY NothingLoaded DEF Init, HasLoaded
  <1>2. \A c \in Challenges : Holders(c) = {}
    BY <1>1 DEF Holders
  <1>3. Uses
    <2>1. Cardinality({}) = 0
      BY FS_EmptySet
    <2>2. \A c \in Challenges : uses[c] = 0
      BY DEF Init
    <2> QED BY <1>2, <2>1, <2>2 DEF Uses
  <1>4. Alone
    BY <1>2 DEF Init, Alone
  <1>5. Registered = {}
    BY <1>1 DEF Registered
  <1>6. Proven
    BY <1>1 DEF Init, Proven
  <1> QED BY <1>3, <1>4, <1>5, <1>6, InitTyped DEF OtpInvariant, Registration

LEMMA StepInvariant == OtpInvariant /\ [Next]_vars => OtpInvariant'
  BY StepTyped, StepBound, StepUses, StepAlone, StepRegistration, StepProven DEF OtpInvariant

LEMMA AlwaysInvariant == Spec => []OtpInvariant
  BY InitInvariant, StepInvariant, PTL DEF Spec

(* Every variable keeps its type: attempts never go past otp_max_attempts,    *)
(* and nothing is consumed that is not verified.                              *)
THEOREM OtpTypeCorrect == Spec => []TypeOK
  <1>1. OtpInvariant => TypeOK
    BY DEF OtpInvariant, Typed
  <1> QED BY <1>1, AlwaysInvariant, PTL

(* A challenge is used at most once for each thread: those that use it after  *)
(* the first had all loaded it before (_consume_otp_record).                  *)
THEOREM OtpUsedAtOnce == Spec => []UsedAtOnce
  <1>1. OtpInvariant => UsedAtOnce
    <2> SUFFICES ASSUME Typed, Uses, NEW c \in Challenges PROVE uses[c] <= Threads
      BY DEF OtpInvariant, UsedAtOnce
    <2>1. uses[c] \in Nat /\ Cardinality(Holders(c)) \in Nat
      BY Flight DEF Typed, TypeOK
    <2> QED BY <2>1, Bounds DEF Uses
  <1> QED BY <1>1, AlwaysInvariant, PTL

(* Whoever is told that a code is wrong has used up an attempt, whatever      *)
(* commits fail, for a challenge that no two requests had loaded at once      *)
(* (_verify_otp_code).                                                        *)
THEOREM OtpGuessesCounted == Spec => []GuessesCounted
  <1>1. OtpInvariant => GuessesCounted
    BY DEF OtpInvariant, Alone, GuessesCounted
  <1> QED BY <1>1, AlwaysInvariant, PTL

(* One registration of an email is carried out, be its client told so or not  *)
(* (the unique index on users.email).                                         *)
THEOREM OtpOneRegistration == Spec => []OneRegistration
  <1>1. OtpInvariant => OneRegistration
    <2> SUFFICES ASSUME Registration PROVE Cardinality(Registered) <= 1
      BY DEF OtpInvariant, OneRegistration, Registered
    <2>1. CASE Registered = {}
      <3>1. Cardinality({}) = 0
        BY FS_EmptySet
      <3> QED BY <2>1, <3>1
    <2>2. CASE Registered # {}
      <3>1. PICK r \in Registered : TRUE
        BY <2>2
      <3>2. Registered = {r}
        BY <3>1 DEF Registration
      <3>3. Cardinality({r}) = 1
        BY FS_Singleton
      <3> QED BY <3>2, <3>3
    <2> QED BY <2>1, <2>2
  <1> QED BY <1>1, AlwaysInvariant, PTL

(* Whatever succeeds, the right code of each of its challenges was brought,   *)
(* by this request or by one before.                                          *)
THEOREM OtpProvenBeforeUse == Spec => []ProvenBeforeUse
  <1>1. OtpInvariant => ProvenBeforeUse
    BY DEF OtpInvariant, Proven, ProvenBeforeUse
  <1> QED BY <1>1, AlwaysInvariant, PTL
=============================================================================
