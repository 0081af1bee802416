-------------------------- MODULE DeltaCircuit_proofs --------------------------
(* Theorems about DeltaCircuit, for any callers, processes and settings.      *)
EXTENDS DeltaCircuit, FiniteSetTheorems, TLAPS

(* Redis never counts failures from before the last success that reached it,  *)
(* and a caller about to open the circuit has seen enough of them.            *)
CountsStreak ==
    /\ failures <= streak
    /\ OpensOnStreak

(* The attempts that calls under way may still send, of those callers that    *)
(* could ask Redis.                                                          *)
Ahead == {m \in Callers \X (1..Attempts) :
             /\ m[1] \notin blind
             /\ \/ pc[m[1]] = "send" /\ attempt[m[1]] <= m[2]
                \/ pc[m[1]] = "await" /\ attempt[m[1]] < m[2]}

(* While the circuit is open, each attempt sent was ahead when it opened.     *)
SendsAccounted ==
    /\ open => sends + Cardinality(Ahead) <= SendBound
    /\ ~open => sends = 0

USE DEF Goto, End

-----------------------------------------------------------------------------
(* Operators. *)

LEMMA UpToType ==
  ASSUME NEW limit \in Nat, NEW n \in 0..limit
  PROVE  UpTo(n, limit) \in 0..limit /\ UpTo(n, limit) >= n
  BY DEF UpTo

LEMMA Bound == SendBound \in Nat
  <1>1. Cardinality(Callers) \in Nat \ {0}
    BY CallersAssumption, FS_CardinalityType, FS_EmptySet
  <1>2. Cardinality(Callers) - 1 \in Nat
    BY <1>1
  <1>3. ASSUME NEW k \in Nat PROVE k * Attempts \in Nat
    BY AttemptsAssumption
  <1> QED BY <1>2, <1>3 DEF SendBound

LEMMA AttemptsAreFinite ==
  ASSUME NEW C \in SUBSET Callers
  PROVE  /\ IsFiniteSet(C \X (1..Attempts))
         /\ Cardinality(C \X (1..Attempts)) = Cardinality(C) * Attempts
  <1>1. IsFiniteSet(C)
    BY CallersAssumption, FS_Subset
  <1>2. IsFiniteSet(1..Attempts) /\ Cardinality(1..Attempts) = Attempts
    BY FS_Interval, AttemptsAssumption
  <1> QED BY <1>1, <1>2, FS_Product

LEMMA AheadIsFinite == IsFiniteSet(Ahead) /\ Cardinality(Ahead) \in Nat
  <1>1. Ahead \in SUBSET (Callers \X (1..Attempts))
    BY DEF Ahead
  <1>2. IsFiniteSet(Ahead)
    BY <1>1, AttemptsAreFinite, FS_Subset
  <1> QED BY <1>2, FS_CardinalityType

(* What is ahead only shrinks, but for a caller that begins. *)
LEMMA AheadShrinks ==
  ASSUME Ahead' \subseteq Ahead
  PROVE  Cardinality(Ahead') \in Nat /\ Cardinality(Ahead') <= Cardinality(Ahead)
  <1>1. Ahead' \in SUBSET Ahead
    OBVIOUS
  <1>2. IsFiniteSet(Ahead') /\ Cardinality(Ahead') <= Cardinality(Ahead)
    BY <1>1, AheadIsFinite, FS_Subset
  <1> QED BY <1>2, FS_CardinalityType

-----------------------------------------------------------------------------
(* Types. *)

LEMMA InitTyped == Init => TypeOK
  <1> SUFFICES ASSUME Init PROVE TypeOK
    OBVIOUS
  <1>1. 0 \in 0..Threshold /\ 0 \in 0..(SendBound + 1) /\ 1 \in 1..Attempts
    BY Bound, AttemptsAssumption, ThresholdAssumption
  <1>2. localOpen \in [Procs -> BOOLEAN] /\ open \in BOOLEAN
    BY Zenon DEF Init
  <1> QED BY <1>1, <1>2 DEF Init, TypeOK, PCs

LEMMA StepTyped == TypeOK /\ [Next]_vars => TypeOK'
  <1> SUFFICES ASSUME TypeOK, [Next]_vars PROVE TypeOK'
    OBVIOUS
  <1> USE ThresholdAssumption, AttemptsAssumption, ProcOfAssumption, Bound
  <1>u. \A n \in 0..Threshold : UpTo(n, Threshold) \in 0..Threshold
    BY UpToType
  <1>v. UpTo(sends, SendBound + 1) \in 0..(SendBound + 1)
    BY UpToType DEF TypeOK
  <1>1. ASSUME NEW c \in Callers, Begin(c) PROVE TypeOK'
    BY <1>1 DEF TypeOK, Begin, LooksClosed, breakerVars, PCs
  <1>2. ASSUME NEW c \in Callers, Send(c) PROVE TypeOK'
    BY <1>2, <1>v DEF TypeOK, Send, breakerVars, PCs
  <1>3. ASSUME NEW c \in Callers, Answered(c) \/ Refused(c) PROVE TypeOK'
    BY <1>3 DEF TypeOK, Answered, Refused, breakerVars, historyVars, PCs
  <1>4. ASSUME NEW c \in Callers, TransientFailure(c) PROVE TypeOK'
    BY <1>4 DEF TypeOK, TransientFailure, breakerVars, historyVars, PCs
  <1>5. ASSUME NEW c \in Callers, RecordSuccess(c) PROVE TypeOK'
    <2>1. open' \in BOOLEAN
      BY <1>5, Zenon DEF TypeOK, RecordSuccess, DeleteKeys
    <2>2. localOpen' \in [Procs -> BOOLEAN]
      BY <1>5, Zenon DEF TypeOK, RecordSuccess
    <2>3. localFailures' \in [Procs -> 0..Threshold] /\ pc' \in [Callers -> PCs]
      BY <1>5 DEF TypeOK, RecordSuccess, PCs
    <2>4. failures' \in 0..Threshold /\ streak' \in 0..Threshold /\ sends' \in 0..(SendBound + 1)
      BY <1>5 DEF TypeOK, RecordSuccess, DeleteKeys
    <2> QED BY <1>5, <2>1, <2>2, <2>3, <2>4 DEF TypeOK, RecordSuccess
  <1>6. ASSUME NEW c \in Callers, CountLocally(c)
        PROVE  localFailures' \in [Procs -> 0..Threshold] /\ localOpen' \in [Procs -> BOOLEAN]
    <2>1. localFailures' \in [Procs -> 0..Threshold]
      BY <1>6, <1>u DEF TypeOK, CountLocally
    <2>2. localOpen' \in [Procs -> BOOLEAN]
      BY <1>6, Zenon DEF TypeOK, CountLocally
    <2> QED BY <2>1, <2>2
  <1>7. ASSUME NEW c \in Callers, CountFailure(c) PROVE TypeOK'
    <2>1. pc' \in [Callers -> PCs]
      BY <1>7 DEF TypeOK, CountFailure, PCs
    <2>2. failures' \in 0..Threshold /\ streak' \in 0..Threshold /\ evidence' \in [Callers -> 0..Threshold]
      BY <1>7, <1>u DEF TypeOK, CountFailure
    <2>3. localFailures' \in [Procs -> 0..Threshold] /\ localOpen' \in [Procs -> BOOLEAN]
      BY <1>7, <1>6 DEF TypeOK, CountFailure
    <2> QED BY <1>7, <2>1, <2>2, <2>3 DEF TypeOK, CountFailure
  <1>8. ASSUME NEW c \in Callers, OpenCircuit(c) PROVE TypeOK'
    <2>1. pc' \in [Callers -> PCs]
      BY <1>8 DEF TypeOK, OpenCircuit, PCs
    <2>2. localFailures' \in [Procs -> 0..Threshold] /\ localOpen' \in [Procs -> BOOLEAN]
      BY <1>8, <1>6 DEF TypeOK, OpenCircuit
    <2>3. sends' \in 0..(SendBound + 1)
      BY <1>8 DEF TypeOK, OpenCircuit
    <2>4. open' \in BOOLEAN
      BY <1>8, Zenon DEF TypeOK, OpenCircuit
    <2> QED BY <1>8, <2>1, <2>2, <2>3, <2>4 DEF TypeOK, OpenCircuit
  <1>9. CASE ForgetFailures \/ Recover
    <2>1. open' \in BOOLEAN
      BY <1>9, Zenon DEF TypeOK, ForgetFailures, Recover
    <2> QED BY <1>9, <2>1 DEF TypeOK, ForgetFailures, Recover, historyVars
  <1>10. ASSUME NEW p \in Procs, RecoverLocally(p) PROVE TypeOK'
    BY <1>10 DEF TypeOK, RecoverLocally, historyVars
  <1>11. CASE UNCHANGED vars
    BY <1>11 DEF TypeOK, vars, breakerVars, historyVars
  <1> QED BY <1>1, <1>2, <1>3, <1>4, <1>5, <1>7, <1>8, <1>9, <1>10, <1>11 DEF Next, Continue

(* Every variable of the circuit breaker and of the calls keeps its type.     *)
THEOREM CircuitTypeCorrect == Spec => []TypeOK
  BY InitTyped, StepTyped, PTL DEF Spec

-----------------------------------------------------------------------------
(* Opening. *)

LEMMA StepCounts == TypeOK /\ CountsStreak /\ [Next]_vars => CountsStreak'
  <1> SUFFICES ASSUME TypeOK, CountsStreak, [Next]_vars PROVE CountsStreak'
    OBVIOUS
  <1> USE ThresholdAssumption DEF CountsStreak, OpensOnStreak, TypeOK
  <1>1. ASSUME NEW c \in Callers, Begin(c) \/ Send(c) PROVE CountsStreak'
    BY <1>1 DEF Begin, Send, breakerVars
  <1>2. ASSUME NEW c \in Callers, Answered(c) \/ Refused(c) \/ TransientFailure(c) PROVE CountsStreak'
    BY <1>2 DEF Answered, Refused, TransientFailure, breakerVars, historyVars
  <1>3. ASSUME NEW c \in Callers, RecordSuccess(c) PROVE CountsStreak'
    BY <1>3 DEF RecordSuccess, DeleteKeys
  <1>4. ASSUME NEW c \in Callers, CountFailure(c) PROVE CountsStreak'
    <2>1. failures' <= streak'
      BY <1>4 DEF CountFailure, UpTo
    <2>2. pc'[c] = "open" => streak' >= Threshold
      BY <1>4, <2>1 DEF CountFailure, UpTo
    <2>3. evidence'[c] = streak' /\ \A d \in Callers \ {c} : evidence'[d] = evidence[d] /\ pc'[d] = pc[d]
      BY <1>4 DEF CountFailure
    <2> QED BY <2>1, <2>2, <2>3
  <1>5. ASSUME NEW c \in Callers, OpenCircuit(c) PROVE CountsStreak'
    BY <1>5 DEF OpenCircuit
  <1>6. CASE ForgetFailures \/ Recover
    BY <1>6 DEF ForgetFailures, Recover, historyVars
  <1>7. ASSUME NEW p \in Procs, RecoverLocally(p) PROVE CountsStreak'
    BY <1>7 DEF RecoverLocally, historyVars
  <1>8. CASE UNCHANGED vars
    BY <1>8 DEF vars, breakerVars, historyVars
  <1> QED BY <1>1, <1>2, <1>3, <1>4, <1>5, <1>6, <1>7, <1>8 DEF Next, Continue

(* A caller that opens the breaker has seen Threshold failed calls without a  *)
(* success that reached Redis between them, however INCR, SET and the deletes *)
(* of a success interleave.                                                  *)
THEOREM OpensOnlyOnStreak == Spec => []OpensOnStreak
  <1>1. Init => CountsStreak
    BY ThresholdAssumption DEF Init, CountsStreak, OpensOnStreak
  <1>2. CountsStreak => OpensOnStreak
    BY DEF CountsStreak
  <1> QED BY <1>1, <1>2, StepCounts, CircuitTypeCorrect, PTL DEF Spec

-----------------------------------------------------------------------------
(* Pausing. *)

(* A step that keeps the circuit as it is and lets nobody send more.          *)
LEMMA NothingSent ==
  ASSUME TypeOK, SendsAccounted, Ahead' \subseteq Ahead, UNCHANGED <<open, sends>>
  PROVE  SendsAccounted'
  BY AheadShrinks, AheadIsFinite, Bound DEF SendsAccounted, TypeOK

(* A step after which the circuit is closed. *)
LEMMA Closed ==
  ASSUME ~open', sends' = 0
  PROVE  SendsAccounted'
  BY DEF SendsAccounted

(* What others have under way when c opens the circuit. *)
LEMMA OthersAhead ==
  ASSUME TypeOK', NEW c \in Callers, pc'[c] = "idle"
  PROVE  Cardinality(Ahead') <= SendBound /\ Cardinality(Ahead') \in Nat
  <1>1. Ahead' \in SUBSET ((Callers \ {c}) \X (1..Attempts))
    BY DEF Ahead
  <1>2. IsFiniteSet(Callers \ {c}) /\ Cardinality(Callers \ {c}) = Cardinality(Callers) - 1
    BY CallersAssumption, FS_RemoveElement
  <1>3. /\ IsFiniteSet((Callers \ {c}) \X (1..Attempts))
        /\ Cardinality((Callers \ {c}) \X (1..Attempts)) = SendBound
    BY <1>2, AttemptsAreFinite DEF SendBound
  <1>4. IsFiniteSet(Ahead') /\ Cardinality(Ahead') <= SendBound
    BY <1>1, <1>3, FS_Subset
  <1> QED BY <1>4, FS_CardinalityType

LEMMA StepAccounted == TypeOK /\ TypeOK' /\ SendsAccounted /\ [Next]_vars => SendsAccounted'
  <1> SUFFICES ASSUME TypeOK, TypeOK', SendsAccounted, [Next]_vars PROVE SendsAccounted'
    OBVIOUS
  <1>1. ASSUME NEW c \in Callers, Begin(c) PROVE SendsAccounted'
    <2>1. UNCHANGED <<open, sends>>
      BY <1>1 DEF Begin, breakerVars
    <2>2. CASE ~open
      BY <2>1, <2>2 DEF SendsAccounted
    <2>3. CASE open
      <3>1. blind' = blind \cup {c}
        BY <1>1, <2>3 DEF Begin, LooksClosed
      <3>2. \A d \in Callers \ {c} : pc'[d] = pc[d] /\ attempt'[d] = attempt[d]
        BY <1>1 DEF Begin, TypeOK
      <3>3. Ahead' \subseteq Ahead
        BY <3>1, <3>2 DEF Ahead
      <3> QED BY <2>1, <3>3, NothingSent
    <2> QED BY <2>2, <2>3
  <1>2. ASSUME NEW c \in Callers, Send(c) PROVE SendsAccounted'
    <2>1. /\ pc[c] = "send" /\ pc'[c] = "await" /\ UNCHANGED <<attempt, open, blind>>
          /\ \A d \in Callers \ {c} : pc'[d] = pc[d]
      BY <1>2 DEF Send, breakerVars, TypeOK
    <2>2. Ahead' \subseteq Ahead
      BY <2>1 DEF Ahead, TypeOK
    <2>3. CASE ~open \/ c \in blind
      BY <1>2, <2>1, <2>2, <2>3, NothingSent DEF Send
    <2>4. CASE open /\ c \notin blind
      <3> DEFINE this == <<c, attempt[c]>>
      <3>1. this \in Ahead /\ this \notin Ahead'
        BY <2>1, <2>4, AttemptsAssumption DEF Ahead, TypeOK
      <3>2. IsFiniteSet(Ahead \ {this}) /\ Cardinality(Ahead \ {this}) = Cardinality(Ahead) - 1
        BY <3>1, AheadIsFinite, FS_RemoveElement
      <3>3. Ahead' \in SUBSET (Ahead \ {this})
        BY <2>2, <3>1
      <3>4. IsFiniteSet(Ahead') /\ Cardinality(Ahead') <= Cardinality(Ahead) - 1
        BY <3>2, <3>3, FS_Subset
      <3>5. Cardinality(Ahead') \in Nat
        BY <3>4, FS_CardinalityType
      <3>6. sends' <= sends + 1
        BY <1>2, Bound DEF Send, UpTo, TypeOK
      <3> QED BY <2>1, <2>4, <3>4, <3>5, <3>6, AheadIsFinite, Bound DEF SendsAccounted, TypeOK
    <2> QED BY <2>3, <2>4
  <1>3. ASSUME NEW c \in Callers, Answered(c) \/ Refused(c) PROVE SendsAccounted'
    <2>1. Ahead' \subseteq Ahead
      BY <1>3 DEF Answered, Refused, historyVars, Ahead, TypeOK
    <2> QED BY <1>3, <2>1, NothingSent DEF Answered, Refused, breakerVars, historyVars
  <1>4. ASSUME NEW c \in Callers, TransientFailure(c) PROVE SendsAccounted'
    <2>1. /\ pc[c] = "await" /\ UNCHANGED blind
          /\ \A d \in Callers \ {c} : pc'[d] = pc[d] /\ attempt'[d] = attempt[d]
      BY <1>4 DEF TransientFailure, historyVars, TypeOK
    <2>2. \/ pc'[c] = "send" /\ attempt'[c] = attempt[c] + 1
          \/ pc'[c] = "failure"
      BY <1>4 DEF TransientFailure, TypeOK
    <2>3. Ahead' \subseteq Ahead
      BY <2>1, <2>2 DEF Ahead, TypeOK
    <2> QED BY <1>4, <2>3, NothingSent DEF TransientFailure, breakerVars, historyVars
  <1>5. ASSUME NEW c \in Callers, RecordSuccess(c) PROVE SendsAccounted'
    <2>1. Ahead' \subseteq Ahead
      BY <1>5 DEF RecordSuccess, Ahead, TypeOK
    <2>2. DeleteKeys \/ UNCHANGED <<open, sends>>
      BY <1>5 DEF RecordSuccess
    <2> QED BY <2>1, <2>2, NothingSent, Closed DEF DeleteKeys
  <1>6. ASSUME NEW c \in Callers, CountFailure(c) PROVE SendsAccounted'
    <2>1. Ahead' \subseteq Ahead
      BY <1>6 DEF CountFailure, Ahead, TypeOK
    <2> QED BY <1>6, <2>1, NothingSent DEF CountFailure
  <1>7. ASSUME NEW c \in Callers, OpenCircuit(c) PROVE SendsAccounted'
    <2>1. pc'[c] = "idle" /\ Ahead' \subseteq Ahead
      BY <1>7 DEF OpenCircuit, Ahead, TypeOK
    <2>2. UNCHANGED <<open, sends>> \/ (~open /\ open' /\ sends' = 0)
      BY <1>7 DEF OpenCircuit, TypeOK
    <2>3. CASE UNCHANGED <<open, sends>>
      BY <2>1, <2>3, NothingSent
    <2>4. CASE ~open /\ open' /\ sends' = 0
      BY <2>1, <2>4, OthersAhead, Bound DEF SendsAccounted
    <2> QED BY <2>2, <2>3, <2>4
  <1>8. CASE ForgetFailures
    <2>1. Ahead' \subseteq Ahead
      BY <1>8 DEF ForgetFailures, historyVars, Ahead
    <2> QED BY <1>8, <2>1, NothingSent DEF ForgetFailures, historyVars
  <1>9. CASE Recover
    BY <1>9, Closed DEF Recover
  <1>10. ASSUME NEW p \in Procs, RecoverLocally(p) PROVE SendsAccounted'
    <2>1. Ahead' \subseteq Ahead
      BY <1>10 DEF RecoverLocally, historyVars, Ahead
    <2> QED BY <1>10, <2>1, NothingSent DEF RecoverLocally, historyVars
  <1>11. CASE UNCHANGED vars
    <2>1. Ahead' \subseteq Ahead
      BY <1>11 DEF vars, historyVars, Ahead
    <2> QED BY <1>11, <2>1, NothingSent DEF vars, breakerVars, historyVars
  <1> QED BY <1>1, <1>2, <1>3, <1>4, <1>5, <1>6, <1>7, <1>8, <1>9, <1>10, <1>11 DEF Next, Continue

(* However many callers there are, while the circuit is open the exchange     *)
(* sees at most what the others had under way when it opened, blind calls     *)
(* aside.                                                                    *)
THEOREM CallsArePaused == Spec => []PausesCalls
  <1>1. Init => SendsAccounted
    BY DEF Init, SendsAccounted
  <1>2. TypeOK /\ SendsAccounted => PausesCalls
    BY AheadIsFinite, Bound DEF SendsAccounted, PausesCalls, TypeOK
  <1> QED BY <1>1, <1>2, StepAccounted, CircuitTypeCorrect, PTL DEF Spec
=============================================================================
