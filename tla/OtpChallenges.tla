---------------------------- MODULE OtpChallenges ----------------------------
(***************************************************************************)
(* One-time-password challenges of one person (app/services/               *)
(* auth_service.py).  A send stores a challenge for a login, or a pair of   *)
(* them, one for mail and one for phone, for a sign-up or a password reset; *)
(* the person may ask again, and the challenges sent before stay as they    *)
(* are.  Requests load the rows of auth_otps, compare codes, and write back *)
(* at a commit only the columns they changed, computed from what they       *)
(* loaded.  A commit may fail, or go through while its answer is lost.      *)
(***************************************************************************)
EXTENDS Naturals, Sequences, FiniteSets, Functions

CONSTANTS
    Requests,     \* HTTP requests that bring codes
    Sends,        \* HTTP requests that ask for challenges
    Workloads,    \* what each of those may ask for
    Threads,      \* requests with codes that run at one time
    MaxAttempts,  \* otp_max_attempts
    Failures,     \* bound on the commits that fail or whose answer is lost
    Timed         \* purposes whose challenges can run out of time

Purposes == {"login", "signup", "forgot_password"}
Challenges == Sends \X {"email", "phone"}

ASSUME RequestsAssumption == IsFiniteSet(Requests)
ASSUME BoundsAssumption == {Threads, MaxAttempts} \subseteq Nat \ {0}
ASSUME FailuresAssumption == Failures \in Nat
ASSUME WorkloadsAssumption == Workloads \subseteq [Sends -> Purposes]
ASSUME TimedAssumption == Timed \subseteq Purposes

(* The operations, and the purpose of the challenges each of them takes.    *)
Kinds == {"verify_login", "verify_signup", "register", "reset"}
PurposeOf ==
    [verify_login |-> "login", verify_signup |-> "signup",
     register |-> "signup", reset |-> "forgot_password"]

VARIABLES
    purpose,   \* what each send asks for
    sending,   \* where it is
    pc,        \* where each request is
    kind,      \* which operation it is
    needs,     \* the challenges it names, in the order of their lookup
    right,     \* those for which it brings the right code
    loaded,    \* those it has loaded, with the columns it saw
    outcome,   \* how it ended; "unheard": carried out, but its client is told of an error
    attempts,  \* auth_otps.attempts
    verified,  \* challenges with a verified_at
    consumed,  \* challenges with a consumed_at
    expired,   \* challenges whose expires_at has passed
    account,   \* the users row of the person's email exists
    usable,    \* the account is active; its deletion is left out
    wrong,     \* history: codes of a challenge a client was told are wrong
    shown,     \* history: challenges whose right code was brought
    uses,      \* history: requests carried out with a challenge
    raced,     \* history: challenges that two requests had loaded at once
    failures   \* commits that failed or were not heard of

sendVars == <<purpose, sending>>
requestVars == <<pc, kind, needs, right, loaded, outcome>>
otpVars == <<attempts, verified, consumed>>
vars == <<sendVars, requestVars, otpVars, expired, account, usable, wrong, shown, uses, raced, failures>>

PCs == {"idle", "find", "verify", "commit", "done"}
SendSteps == {"idle", "deliver", "sent", "refused", "failed"}
Outcomes == {"none", "ok", "unheard", "failed"}
CarriedOut == {"ok", "unheard"}

Running(r) == pc[r] \notin {"idle", "done"}
InFlight == {r \in Requests : Running(r)}
HasLoaded(r) == DOMAIN loaded[r]

Init ==
    /\ purpose \in Workloads
    /\ sending = [s \in Sends |-> "idle"]
    /\ pc = [r \in Requests |-> "idle"]
    /\ kind = [r \in Requests |-> "verify_login"]
    /\ needs = [r \in Requests |-> <<>>]
    /\ right = [r \in Requests |-> {}]
    /\ loaded = [r \in Requests |-> <<>>]
    /\ outcome = [r \in Requests |-> "none"]
    /\ attempts = [c \in Challenges |-> 0]
    /\ verified = {}
    /\ consumed = {}
    /\ expired = {}
    /\ account \in BOOLEAN
    /\ usable = TRUE
    /\ wrong = [c \in Challenges |-> 0]
    /\ shown = {}
    /\ uses = [c \in Challenges |-> 0]
    /\ raced = {}
    /\ failures = 0

Goto(r, label) == pc' = [pc EXCEPT ![r] = label]

(* Of a request that was not carried out only its end is kept. *)
End(r, o) ==
    /\ Goto(r, "done")
    /\ outcome' = [outcome EXCEPT ![r] = o]
    /\ needs' = [needs EXCEPT ![r] = IF o \in CarriedOut THEN @ ELSE <<>>]
    /\ kind' = [kind EXCEPT ![r] = IF o \in CarriedOut THEN @ ELSE "verify_login"]

(* A request that has ended keeps nothing of its session. *)
Forget(r) ==
    /\ loaded' = [loaded EXCEPT ![r] = <<>>]
    /\ right' = [right EXCEPT ![r] = {}]

(* A commit fails, or its answer is lost. *)
Fault == failures < Failures /\ failures' = failures + 1

-----------------------------------------------------------------------------
(* Sending. *)

Step(s, step) ==
    /\ sending' = [sending EXCEPT ![s] = step]
    /\ UNCHANGED <<purpose, requestVars, otpVars, expired, account, usable, wrong, shown, uses, raced, failures>>

Asks(s, p, step) == purpose[s] = p /\ sending[s] = "idle" /\ Step(s, step)

(* Refused when the email or the phone has an account. *)
SendSignup(s) == Asks(s, "signup", IF account THEN "refused" ELSE "deliver")

(* With the right password. *)
SendLogin(s) == Asks(s, "login", IF account /\ usable THEN "deliver" ELSE "refused")

(* Without an account the answer is the same, but for challenges that there *)
(* are none.                                                               *)
SendReset(s) == Asks(s, "forgot_password", IF account THEN "deliver" ELSE "refused")

(* The codes are handed to the providers and then the rows are committed;   *)
(* when one of the two cannot be delivered (in production) or the commit    *)
(* fails, there is neither row.                                            *)
Deliver(s) == sending[s] = "deliver" /\ \E step \in {"sent", "failed"} : Step(s, step)

Sent(p) == {s \in Sends : purpose[s] = p /\ sending[s] = "sent"}

(* What a client can name: the challenge of a login, or the two halves of a *)
(* pair, which fit whenever they are for one email and phone.  The two may  *)
(* be of different sends.                                                  *)
Nameable(p) ==
    IF p = "login"
      THEN {<<<<s, "email">>>> : s \in Sent(p)}
      ELSE {<<<<s, "email">>, <<t, "phone">>>> : s \in Sent(p), t \in Sent(p)}

-----------------------------------------------------------------------------
(* Request r names challenges n, with the right codes for R.                *)
Arrive(r, k, n, R) ==
    /\ pc[r] = "idle"
    /\ Cardinality(InFlight) < Threads
    /\ kind' = [kind EXCEPT ![r] = k]
    /\ needs' = [needs EXCEPT ![r] = n]
    /\ right' = [right EXCEPT ![r] = R]
    /\ Goto(r, "find")
    /\ UNCHANGED <<sendVars, loaded, outcome, otpVars, expired, account, usable, wrong, shown, uses, raced, failures>>

(* Faulty variant: an attempt too many. *)
FindableOnceMore(r, c) ==
    /\ c \notin consumed
    /\ kind[r] = "verify_login" => c \notin verified
    /\ c \notin expired
    /\ attempts[c] <= MaxAttempts

(* _find_active_otp: verify_login_otp asks for a code not verified before.  *)
Findable(r, c) ==
    /\ c \notin consumed
    /\ kind[r] = "verify_login" => c \notin verified
    /\ c \notin expired
    /\ attempts[c] < MaxAttempts

Row(c) == [attempts |-> attempts[c], verified |-> c \in verified]

(* One challenge after the other is loaded and checked. *)
Find(r) ==
    /\ pc[r] = "find"
    /\ LET c == needs[r][Cardinality(HasLoaded(r)) + 1]
           all == Range(needs[r]) = HasLoaded(r) \cup {c}
       IN IF Findable(r, c)
            THEN /\ loaded' = [loaded EXCEPT ![r] = [d \in HasLoaded(r) \cup {c} |->
                                   IF d = c THEN Row(c) ELSE loaded[r][d]]]
                 /\ raced' = IF \E q \in InFlight \ {r} : c \in HasLoaded(q)
                               THEN raced \cup {c} ELSE raced
                 /\ Goto(r, IF all THEN "verify" ELSE "find")
                 /\ UNCHANGED <<kind, needs, right, outcome>>
            ELSE /\ Forget(r)
                 /\ End(r, "failed")
                 /\ UNCHANGED raced
    /\ UNCHANGED <<sendVars, otpVars, expired, account, usable, wrong, shown, uses, failures>>

-----------------------------------------------------------------------------
(* Faulty variant: any code will do for the phone. *)
PassesMail(r, c) == loaded[r][c].verified \/ c \in right[r] \/ c[2] = "phone"

(* _verify_otp_code: a challenge that was verified needs no code again.     *)
Passes(r, c) == loaded[r][c].verified \/ c \in right[r]

(* Those before the first one that does not pass. *)
Passed(r) == {c \in HasLoaded(r) : \A i \in DOMAIN needs[r] :
                 (\E j \in DOMAIN needs[r] : i <= j /\ needs[r][j] = c) => Passes(r, needs[r][i])}

(* The first that does not pass. *)
Failing(r) == {c \in HasLoaded(r) \ Passed(r) : \A i \in DOMAIN needs[r] :
                  (\E j \in DOMAIN needs[r] : i < j /\ needs[r][j] = c) => Passes(r, needs[r][i])}

(* Faulty variant: the attempt is not written. *)
RefuseUncounted(r) ==
    /\ pc[r] = "verify"
    /\ \E c \in Failing(r) : wrong' = [wrong EXCEPT ![c] = @ + 1]
    /\ Forget(r)
    /\ End(r, "failed")
    /\ UNCHANGED <<sendVars, otpVars, expired, account, usable, shown, uses, raced, failures>>

(* A wrong code is counted, from the number loaded, and committed, together  *)
(* with the verification of the codes compared before it; only then is the  *)
(* client told that it is wrong.  When the commit fails nothing is written,  *)
(* and of that, or of an answer that was lost, the client hears an error.   *)
WrongCode(r) ==
    /\ pc[r] = "verify"
    /\ \E c \in Failing(r) :
         \/ /\ attempts' = [attempts EXCEPT ![c] = loaded[r][c].attempts + 1]
            /\ verified' = verified \cup Passed(r)
            /\ \/ wrong' = [wrong EXCEPT ![c] = @ + 1] /\ UNCHANGED failures
               \/ Fault /\ UNCHANGED wrong
         \/ Fault /\ UNCHANGED <<attempts, verified, wrong>>
    /\ shown' = shown \cup (Passed(r) \cap right[r])
    /\ Forget(r)
    /\ End(r, "failed")
    /\ UNCHANGED <<sendVars, consumed, expired, account, usable, uses, raced>>

(* All codes right: on to what they were for.  A registration is refused     *)
(* when the email is taken, a login when the account is not usable, a reset  *)
(* when its password was used recently; then nothing is written.            *)
RightCodes(r) ==
    /\ pc[r] = "verify"
    /\ Failing(r) = {}
    /\ shown' = shown \cup (HasLoaded(r) \cap right[r])
    /\ \/ /\ kind[r] = "register" => ~account
          /\ kind[r] = "verify_login" => usable
          /\ Goto(r, "commit")
          /\ UNCHANGED <<kind, outcome, loaded, right, needs>>
       \/ /\ \/ kind[r] = "register" /\ account
             \/ kind[r] = "verify_login" /\ ~usable
             \/ kind[r] = "reset"
          /\ Forget(r)
          /\ End(r, "failed")
    /\ UNCHANGED <<sendVars, otpVars, expired, account, usable, wrong, uses, raced, failures>>

-----------------------------------------------------------------------------
(* Faulty variant: the challenges are marked verified and stay usable. *)
VerifyOnly(r) ==
    /\ verified' = verified \cup (IF kind[r] = "verify_signup" THEN HasLoaded(r) ELSE {})
    /\ UNCHANGED consumed

(* _consume_otp_record; verify_signup_otp only marks its pair as verified.  *)
Consume(r) ==
    /\ verified' = verified \cup HasLoaded(r)
    /\ consumed' = IF kind[r] = "verify_signup" THEN consumed ELSE consumed \cup HasLoaded(r)

(* Faulty variant: without the unique index on users.email. *)
CommitAnyway(r) ==
    /\ pc[r] = "commit"
    /\ Consume(r)
    /\ uses' = [c \in Challenges |->
                  IF c \in HasLoaded(r) /\ kind[r] # "verify_signup" THEN uses[c] + 1 ELSE uses[c]]
    /\ account' = (account \/ kind[r] = "register")
    /\ Forget(r)
    /\ End(r, "ok")
    /\ UNCHANGED <<sendVars, attempts, expired, usable, wrong, shown, raced, failures>>

(* The email of an account is unique: of two registrations the second to     *)
(* insert its user fails and leaves nothing, like any commit that fails.    *)
Commit(r) ==
    /\ pc[r] = "commit"
    /\ \/ /\ End(r, "failed") /\ UNCHANGED <<verified, consumed, uses, account>>
          /\ \/ kind[r] = "register" /\ account /\ UNCHANGED failures
             \/ Fault
       \/ /\ kind[r] = "register" => ~account
          /\ Consume(r)
          /\ uses' = [c \in Challenges |->
                        IF c \in HasLoaded(r) /\ kind[r] # "verify_signup"
                          THEN uses[c] + 1 ELSE uses[c]]
          /\ account' = (account \/ kind[r] = "register")
          /\ \/ End(r, "ok") /\ UNCHANGED failures
             \/ End(r, "unheard") /\ Fault
    /\ Forget(r)
    /\ UNCHANGED <<sendVars, attempts, expired, usable, wrong, shown, raced>>

-----------------------------------------------------------------------------
(* The time of a challenge runs from its send. *)
Expire(c) ==
    /\ sending[c[1]] = "sent" /\ purpose[c[1]] \in Timed
    /\ expired' = expired \cup {c}
    /\ UNCHANGED <<sendVars, requestVars, otpVars, account, usable, wrong, shown, uses, raced, failures>>

(* An administrator bans or unbans the account. *)
SetActive ==
    /\ account
    /\ usable' = ~usable
    /\ UNCHANGED <<sendVars, requestVars, otpVars, expired, account, wrong, shown, uses, raced, failures>>

Next ==
    \/ \E s \in Sends : SendSignup(s) \/ SendLogin(s) \/ SendReset(s) \/ Deliver(s)
    \/ \E r \in Requests :
         \/ \E k \in Kinds : \E n \in Nameable(PurposeOf[k]) : \E R \in SUBSET Range(n) : Arrive(r, k, n, R)
         \/ Find(r) \/ WrongCode(r) \/ RightCodes(r) \/ Commit(r)
    \/ \E c \in Challenges : Expire(c)
    \/ SetActive

Spec == Init /\ [][Next]_vars

-----------------------------------------------------------------------------
LoadedRow == [attempts: 0..MaxAttempts, verified: BOOLEAN]

TypeOK ==
    /\ purpose \in [Sends -> Purposes]
    /\ sending \in [Sends -> SendSteps]
    /\ pc \in [Requests -> PCs]
    /\ kind \in [Requests -> Kinds]
    /\ needs \in [Requests -> Seq(Challenges)]
    /\ right \in [Requests -> SUBSET Challenges]
    /\ \A r \in Requests : loaded[r] \in [HasLoaded(r) -> LoadedRow] /\ HasLoaded(r) \subseteq Challenges
    /\ outcome \in [Requests -> Outcomes]
    /\ attempts \in [Challenges -> 0..MaxAttempts]
    /\ verified \subseteq Challenges
    /\ consumed \subseteq verified
    /\ expired \subseteq Challenges
    /\ account \in BOOLEAN
    /\ usable \in BOOLEAN
    /\ wrong \in [Challenges -> Nat]
    /\ shown \subseteq Challenges
    /\ uses \in [Challenges -> Nat]
    /\ raced \subseteq Challenges
    /\ failures \in 0..Failures

(* Nobody is told more often that a code is wrong than attempts are counted, *)
(* unless requests had loaded the challenge at the same time: attempts += 1  *)
(* writes back the number loaded (_verify_otp_code).  With TypeOK, that      *)
(* limits the guesses.  A code compared when the commit fails is not counted, *)
(* but then the client is told of an error and not whether it was wrong.     *)
GuessesCounted == \A c \in Challenges \ raced : wrong[c] <= attempts[c]

(* With a challenge one request is carried out, or as many as had loaded it  *)
(* before the first of them committed: at most one per thread              *)
(* (_consume_otp_record).                                                  *)
UsedAtOnce == \A c \in Challenges : uses[c] <= Threads

(* Of the registrations of one email one is carried out, whichever           *)
(* challenges they bring and whatever is answered: an account may appear    *)
(* while challenges are sent or codes compared.                             *)
OneRegistration ==
    Cardinality({r \in Requests : kind[r] = "register" /\ outcome[r] \in CarriedOut}) <= 1

(* Nothing is registered or reset, and nobody logged in, unless the right    *)
(* code was brought for each challenge: perhaps by different requests, since *)
(* a verified challenge is not asked for its code again.                    *)
ProvenBeforeUse ==
    \A r \in Requests :
        outcome[r] \in CarriedOut => Range(needs[r]) \subseteq shown

=============================================================================
