--------------------------- MODULE SubmitterProofs ---------------------------
(***************************************************************************)
(* The submitter's promises for any log, any number of failures and        *)
(* restarts, and any messages.                                             *)
(***************************************************************************)
EXTENDS Submitter, TLAPS

\* Zenon is tried first, and SMT on what Zenon does not prove.
USE ZenonT(3), SMTT(20)

\* The name of the object for the i-th message.
NameOf(i) == CRNameFromRequestID(log[i].id)

Created(name) == \E n \in 1..Len(creations) : creations[n] = name

\* Each object was created, has a name of its own, and as long as nobody deletes
\* one, what was created is there.
Objects ==
  /\ \A c, d \in crs : c[1] = d[1] => c = d
  /\ \A c \in crs : Created(c[1])
  /\ deletes = 0 => \A n \in 1..Len(creations) : creations[n] \in Names
  /\ CreatedOnce

\* The message in hand is beyond the committed offset.  As long as no call fails, a
\* message that was fetched is in hand, handled or refused.
SubmitterInv ==
  /\ TypeOK
  /\ current # 0 => committed < current
  /\ Objects
  /\ failures = 0 =>
       \A i \in 1..position : (i = current /\ ~processed) \/ Handled(i) \/ Refused(i)
  /\ failures \in Nat /\ deletes \in Nat

\* An object carries the name of its request.
LEMMA NameOfObject == \A i : ToGPUWorkload(log[i])[1] = NameOf(i)
BY DEF ToGPUWorkload, NameOf

\* What the sequence of creations is after another one.
LEMMA AfterCreation ==
  ASSUME NEW S, NEW s \in Seq(S), NEW x \in S
  PROVE  /\ Append(s, x) \in Seq(S)
         /\ Len(Append(s, x)) = Len(s) + 1
         /\ Len(s) \in Nat
         /\ \A n \in 1..Len(s) : Append(s, x)[n] = s[n]
         /\ Append(s, x)[Len(s) + 1] = x
OBVIOUS

\* Handled messages stay handled while creations and the dead-letter topic grow.
LEMMA HandledGrows ==
  ASSUME NEW i, log' = log, dlq \subseteq dlq',
         Len(creations) \in Nat, Len(creations') \in Nat, Len(creations) <= Len(creations'),
         \A n \in 1..Len(creations) : creations'[n] = creations[n]
  PROVE  /\ Handled(i) => Handled(i)'
         /\ Refused(i) => Refused(i)'
BY DEF Handled, Refused

\* The empty consumer satisfies the invariant.
LEMMA SubmitterInvInit == Init => SubmitterInv
<1> SUFFICES ASSUME Init PROVE SubmitterInv
  OBVIOUS
<1>1. position = 0 /\ committed = 0 /\ current = 0 /\ crs = {} /\ creations = <<>>
  BY DEF Init
<1>2. TypeOK
  <2>1. LogLength \in Nat
    BY SubmitterAssumption
  <2>2. position \in 0..LogLength /\ committed \in 0..position
    BY <1>1, <2>1
  <2>3. processed \in BOOLEAN /\ dlq = {} /\ log \in [1..LogLength -> Messages]
    BY DEF Init
  <2>4. creations \in Seq({CRNameFromRequestID(log[i].id) : i \in 1..LogLength})
    BY <1>1
  <2> QED BY <1>1, <2>2, <2>3, <2>4 DEF TypeOK
<1>3. Len(creations) = 0 /\ 1..Len(creations) = {} /\ 1..position = {}
  BY <1>1
<1>4. failures \in Nat /\ deletes \in Nat
  BY DEF Init
<1> QED BY <1>1, <1>2, <1>3, <1>4 DEF SubmitterInv, Objects, CreatedOnce

\* Steps that only move the reader.
LEMMA ReaderSteps ==
  ASSUME SubmitterInv,
         FetchMessage \/ CreateRejected \/ CommitMessages \/ CommitFails \/ Restart
  PROVE  SubmitterInv'
<1> USE SubmitterAssumption
<1>1. UNCHANGED <<log, crs, creations, dlq, deletes>>
  BY DEF FetchMessage, CreateRejected, CommitMessages, CommitFails, Restart, bounds
<1>2. /\ position \in 0..LogLength /\ committed \in 0..position /\ current \in {0, position}
      /\ processed \in BOOLEAN /\ failures \in Nat
      /\ current # 0 => committed < current
  BY DEF SubmitterInv, TypeOK
<1>3. /\ position' \in 0..LogLength /\ committed' \in 0..position' /\ current' \in {0, position'}
      /\ processed' \in BOOLEAN /\ failures' \in Nat
      /\ current' # 0 => committed' < current'
  <2>1. processed' \in BOOLEAN
    BY <1>2, Zenon
       DEF FetchMessage, CreateRejected, CommitMessages, CommitFails, Restart
  <2>2. failures' \in Nat
    BY <1>2
       DEF FetchMessage, CreateRejected, CommitMessages, CommitFails, Restart, bounds
  <2>3. CASE FetchMessage
    BY <1>2, <2>1, <2>2, <2>3 DEF FetchMessage
  <2>4. CASE CreateRejected \/ CommitFails
    BY <1>2, <2>1, <2>2, <2>4 DEF CreateRejected, CommitFails
  <2>5. CASE CommitMessages
    BY <1>2, <2>1, <2>2, <2>5 DEF CommitMessages
  <2>6. CASE Restart
    BY <1>2, <2>1, <2>2, <2>6 DEF Restart
  <2> QED BY <2>3, <2>4, <2>5, <2>6
<1>4. TypeOK'
  BY <1>1, <1>3 DEF SubmitterInv, TypeOK
<1>5. \A i : (Handled(i)' <=> Handled(i)) /\ (Refused(i)' <=> Refused(i))
  BY <1>1 DEF Handled, Refused
<1>6. ASSUME failures' = 0, NEW i \in 1..position'
      PROVE  (i = current' /\ ~processed') \/ Handled(i) \/ Refused(i)
  <2>1. failures = 0
    BY <1>2, <1>6
       DEF FetchMessage, CreateRejected, CommitMessages, CommitFails, Restart, bounds
  <2>2. \A j \in 1..position : (j = current /\ ~processed) \/ Handled(j) \/ Refused(j)
    BY <2>1 DEF SubmitterInv
  <2>3. CASE FetchMessage
    BY <1>2, <1>6, <2>2, <2>3 DEF FetchMessage
  <2>4. CASE CreateRejected
    BY <1>6, <2>2, <2>4 DEF CreateRejected, InHand, Usable, Refused
  <2>6. CASE CommitMessages \/ CommitFails
    BY <1>6, <2>2, <2>6 DEF CommitMessages, CommitFails
  <2>7. CASE Restart
    <3>1. position' = committed /\ i \in 1..position /\ (current # 0 => i # current)
      BY <1>2, <1>6, <2>7 DEF Restart
    <3>2. i # current
      BY <1>2, <1>6, <3>1
    <3> QED BY <2>2, <3>1, <3>2
  <2> QED BY <2>3, <2>4, <2>6, <2>7
<1>7. Objects'
  BY <1>1 DEF SubmitterInv, Objects, CreatedOnce, Created, Names
<1> QED BY <1>1, <1>3, <1>4, <1>5, <1>6, <1>7 DEF SubmitterInv

\* The object of the message in hand is created, or found to exist; either way the
\* message is handled.
LEMMA StoreNewKeeps ==
  ASSUME SubmitterInv, NEW k \in 1..LogLength, k = current, StoreNew, UNCHANGED <<log, deletes>>
  PROVE  /\ crs' \subseteq {ToGPUWorkload(log[i]) : i \in 1..LogLength}
         /\ creations' \in Seq({CRNameFromRequestID(log[i].id) : i \in 1..LogLength})
         /\ dlq' = dlq
         /\ Objects'
         /\ \A i : (Handled(i) => Handled(i)') /\ (Refused(i) => Refused(i)')
         /\ Handled(k)'
<1> DEFINE name == NameOf(k)
           cr == ToGPUWorkload(log[k])
           S == {CRNameFromRequestID(log[i].id) : i \in 1..LogLength}
<1>1. crs \subseteq {ToGPUWorkload(log[i]) : i \in 1..LogLength} /\ creations \in Seq(S)
  BY DEF SubmitterInv, TypeOK
<1>2. dlq' = dlq
  BY DEF StoreNew
<1>3. cr[1] = name
  BY NameOfObject
<1>4. CASE name \in Names
  <2>1. UNCHANGED <<crs, creations>>
    BY <1>3, <1>4 DEF StoreNew
  <2>2. Created(name)
    BY <1>4 DEF SubmitterInv, Objects, Names
  <2>3. Handled(k)
    BY <2>2 DEF Created, Handled, NameOf
  <2>4. \A i : (Handled(i)' <=> Handled(i)) /\ (Refused(i)' <=> Refused(i))
    BY <1>2, <2>1 DEF Handled, Refused
  <2>5. Objects'
    BY <2>1 DEF SubmitterInv, Objects, CreatedOnce, Created, Names
  <2> QED BY <1>1, <1>2, <2>1, <2>3, <2>4, <2>5
<1>5. CASE name \notin Names
  <2>1. crs' = crs \cup {cr} /\ creations' = Append(creations, name)
    BY <1>3, <1>5 DEF StoreNew
  <2>2. name \in S
    BY DEF NameOf
  <2>3. /\ creations' \in Seq(S)
        /\ Len(creations') = Len(creations) + 1
        /\ Len(creations) \in Nat
        /\ \A n \in 1..Len(creations) : creations'[n] = creations[n]
        /\ creations'[Len(creations) + 1] = name
    <3> HIDE DEF name, S
    <3> QED BY <1>1, <2>1, <2>2, AfterCreation
  <2>4. Names' = Names \cup {name}
    BY <1>3, <2>1 DEF Names
  <2>5. \A i : (Handled(i) => Handled(i)') /\ (Refused(i) => Refused(i)')
    BY <1>2, <2>3, HandledGrows
  <2>6. Handled(k)'
    BY <2>3 DEF Handled, NameOf
  <2>9. \A c, d \in crs' : c[1] = d[1] => c = d
    BY <1>3, <1>5, <2>1 DEF SubmitterInv, Objects, Names
  <2>10. \A c \in crs' : Created(c[1])'
    <3>1. \E n \in 1..Len(creations') : creations'[n] = name
      BY <2>3
    <3>2. \A c \in crs : Created(c[1])'
      BY <2>3 DEF SubmitterInv, Objects, Created
    <3> HIDE DEF name, cr
    <3> QED BY <1>3, <2>1, <3>1, <3>2 DEF Created
  <2>11. deletes' = 0 => \A n \in 1..Len(creations') : creations'[n] \in Names'
    BY <2>3, <2>4 DEF SubmitterInv, Objects
  <2>12. CreatedOnce'
    <3> SUFFICES ASSUME deletes = 0, NEW m \in 1..Len(creations'), NEW n \in 1..Len(creations'),
                        creations'[m] = creations'[n]
                 PROVE  m = n
      BY DEF CreatedOnce
    <3>1. \A i \in 1..Len(creations) : creations[i] # name
      BY <1>5 DEF SubmitterInv, Objects
    <3>2. CreatedOnce
      BY DEF SubmitterInv, Objects
    <3>3. \A i, j \in 1..Len(creations) : creations[i] = creations[j] => i = j
      BY <3>2 DEF CreatedOnce
    <3> HIDE DEF name
    <3>4. CASE m = Len(creations) + 1
      BY <2>3, <3>1, <3>4
    <3>5. CASE n = Len(creations) + 1
      BY <2>3, <3>1, <3>5
    <3>6. CASE m \in 1..Len(creations) /\ n \in 1..Len(creations)
      BY <2>3, <3>3, <3>6
    <3> QED BY <2>3, <3>4, <3>5, <3>6
  <2>13. Objects'
    BY <2>9, <2>10, <2>11, <2>12 DEF Objects
  <2> QED BY <1>1, <1>2, <2>1, <2>3, <2>5, <2>6, <2>13
<1> QED BY <1>4, <1>5

\* The message in hand is written to the dead-letter topic.
LEMMA WriteMessagesKeeps ==
  ASSUME SubmitterInv, NEW k \in 1..LogLength, k = current, WriteMessages,
         UNCHANGED <<log, deletes>>
  PROVE  /\ UNCHANGED <<crs, creations>> /\ dlq' = dlq \cup {k}
         /\ Objects'
         /\ \A i : (Handled(i) => Handled(i)') /\ (Refused(i) => Refused(i)')
         /\ Handled(k)'
<1>1. UNCHANGED <<crs, creations>> /\ dlq' = dlq \cup {k}
  BY DEF WriteMessages
<1>2. \A i : (Handled(i) => Handled(i)') /\ (Refused(i) => Refused(i)')
  BY <1>1 DEF Handled, Refused
<1>3. Handled(k)'
  BY <1>1 DEF Handled
<1>4. Objects'
  BY <1>1 DEF SubmitterInv, Objects, CreatedOnce, Created, Names
<1> QED BY <1>1, <1>2, <1>3, <1>4

\* The message in hand is answered and waits for its commit.
LEMMA AnswerKeeps == ASSUME SubmitterInv, Create \/ sendToDLQ PROVE SubmitterInv'
<1>1. /\ position \in 0..LogLength /\ committed \in 0..position /\ current = position
      /\ committed < current
  BY DEF SubmitterInv, TypeOK, Create, sendToDLQ, InHand
<1>2. /\ UNCHANGED <<log, position, committed, current, failures, deletes>>
      /\ processed' = TRUE
  BY DEF Create, sendToDLQ, bounds
<1>3. PICK k \in 1..LogLength : k = current
  BY <1>1, SubmitterAssumption DEF Create, sendToDLQ, InHand
<1>4. /\ crs' \subseteq {ToGPUWorkload(log[i]) : i \in 1..LogLength}
      /\ creations' \in Seq({CRNameFromRequestID(log[i].id) : i \in 1..LogLength})
      /\ dlq' \subseteq 1..LogLength
      /\ Objects'
      /\ \A i : (Handled(i) => Handled(i)') /\ (Refused(i) => Refused(i)')
      /\ Handled(k)'
  <2>1. dlq \subseteq 1..LogLength /\ crs \subseteq {ToGPUWorkload(log[i]) : i \in 1..LogLength}
        /\ creations \in Seq({CRNameFromRequestID(log[i].id) : i \in 1..LogLength})
    BY DEF SubmitterInv, TypeOK
  <2>2. CASE Create
    BY <1>2, <1>3, <2>1, <2>2, StoreNewKeeps DEF Create
  <2>3. CASE sendToDLQ
    BY <1>2, <1>3, <2>1, <2>3, WriteMessagesKeeps DEF sendToDLQ
  <2> QED BY <2>2, <2>3
<1>5. failures' = 0 => \A i \in 1..position' : Handled(i)' \/ Refused(i)'
  BY <1>2, <1>3, <1>4 DEF SubmitterInv
<1>6. TypeOK'
  BY <1>1, <1>2, <1>4 DEF SubmitterInv, TypeOK
<1> QED BY <1>1, <1>2, <1>4, <1>5, <1>6 DEF SubmitterInv

\* A call fails, or takes effect without an answer.
LEMMA FailureKeeps == ASSUME SubmitterInv, ProcessFails PROVE SubmitterInv'
<1>1. /\ position \in 0..LogLength /\ committed \in 0..position /\ current = position
      /\ failures \in Nat /\ deletes \in Nat
  BY DEF SubmitterInv, TypeOK, ProcessFails, InHand
<1>2. /\ UNCHANGED <<log, position, committed, processed, deletes>>
      /\ current' = 0 /\ failures' = failures + 1
  BY DEF ProcessFails
<1>3. PICK k \in 1..LogLength : k = current
  BY <1>1, SubmitterAssumption DEF ProcessFails, InHand
<1>4. /\ crs' \subseteq {ToGPUWorkload(log[i]) : i \in 1..LogLength}
      /\ creations' \in Seq({CRNameFromRequestID(log[i].id) : i \in 1..LogLength})
      /\ dlq' \subseteq 1..LogLength
      /\ Objects'
  <2>1. dlq \subseteq 1..LogLength /\ crs \subseteq {ToGPUWorkload(log[i]) : i \in 1..LogLength}
        /\ creations \in Seq({CRNameFromRequestID(log[i].id) : i \in 1..LogLength})
    BY DEF SubmitterInv, TypeOK
  <2>2. CASE StoreNew
    BY <1>2, <1>3, <2>1, <2>2, StoreNewKeeps
  <2>3. CASE WriteMessages
    BY <1>2, <1>3, <2>1, <2>3, WriteMessagesKeeps
  <2>4. CASE UNCHANGED <<crs, creations, dlq>>
    BY <1>2, <2>1, <2>4 DEF SubmitterInv, Objects, CreatedOnce, Created, Names
  <2> QED BY <2>2, <2>3, <2>4 DEF ProcessFails
<1>5. failures' # 0 /\ failures' \in Nat
  BY <1>1, <1>2
<1>6. TypeOK'
  BY <1>1, <1>2, <1>4 DEF SubmitterInv, TypeOK
<1> QED BY <1>1, <1>2, <1>4, <1>5, <1>6 DEF SubmitterInv

\* A workload somebody deletes.
LEMMA DeleteKeeps == ASSUME SubmitterInv, DeleteCR PROVE SubmitterInv'
<1>1. /\ UNCHANGED <<log, position, committed, current, processed, creations, dlq, failures>>
      /\ deletes \in Nat /\ deletes' = deletes + 1
      /\ crs' \subseteq crs
  BY DEF DeleteCR, SubmitterInv
<1>2. deletes' # 0 /\ deletes' \in Nat
  BY <1>1
<1>3. \A i : (Handled(i)' <=> Handled(i)) /\ (Refused(i)' <=> Refused(i))
  BY <1>1 DEF Handled, Refused
<1>4. TypeOK'
  BY <1>1 DEF SubmitterInv, TypeOK
<1>5. Objects'
  BY <1>1, <1>2 DEF SubmitterInv, Objects, CreatedOnce, Created
<1> QED BY <1>1, <1>2, <1>3, <1>4, <1>5 DEF SubmitterInv

\* Every step keeps the invariant.
LEMMA SubmitterInvNext == SubmitterInv /\ [Next]_vars => SubmitterInv'
<1> SUFFICES ASSUME SubmitterInv, [Next]_vars PROVE SubmitterInv'
  OBVIOUS
<1>1. CASE UNCHANGED vars
  <2>1. UNCHANGED <<log, position, committed, current, processed, crs, creations, dlq,
                    failures, deletes>>
    BY <1>1 DEF vars, bounds
  <2>2. \A i : (Handled(i)' <=> Handled(i)) /\ (Refused(i)' <=> Refused(i))
    BY <2>1 DEF Handled, Refused
  <2>3. TypeOK' /\ Objects'
    BY <2>1 DEF SubmitterInv, TypeOK, Objects, CreatedOnce, Created, Names
  <2> QED BY <2>1, <2>2, <2>3 DEF SubmitterInv
<1>2. CASE Next
  BY <1>2, ReaderSteps, AnswerKeeps, FailureKeeps, DeleteKeeps DEF Next, Run
<1> QED BY <1>1, <1>2

\* The invariant holds throughout.
LEMMA SubmitterInvHolds == Spec => []SubmitterInv
BY SubmitterInvInit, SubmitterInvNext, PTL DEF Spec

\* As long as no call fails, every message below the committed offset has been
\* handled or is one the API server refuses, for any log and any number of
\* failed commits, restarts and deletions (consumer.go:63-77).
THEOREM CommitsFollowHandling == Spec => []CommittedIsHandled
<1>1. SubmitterInv => CommittedIsHandled
  <2> SUFFICES ASSUME SubmitterInv, failures = 0, NEW i \in 1..committed
               PROVE  Handled(i) \/ Refused(i)
    BY DEF CommittedIsHandled
  <2>1. position \in 0..LogLength /\ committed \in 0..position /\ LogLength \in Nat
    BY SubmitterAssumption DEF SubmitterInv, TypeOK
  <2>2. i \in 1..position /\ i # current
    BY <2>1 DEF SubmitterInv, TypeOK
  <2> QED BY <2>2 DEF SubmitterInv
<1> QED BY <1>1, SubmitterInvHolds, PTL

\* Redelivery makes no second workload of a name unless one was deleted
\* (consumer.go:86-100).
THEOREM CreatesOnce == Spec => []CreatedOnce
<1>1. SubmitterInv => CreatedOnce
  BY DEF SubmitterInv, Objects
<1> QED BY <1>1, SubmitterInvHolds, PTL

\* A workload keeps the request it was created from for as long as it exists
\* (consumer.go:90-95).
THEOREM KeepsItsRequest == Spec => CRKeepsItsRequest
<1>1. SubmitterInv /\ [Next]_vars => [\A cr \in crs : cr \in crs' \/ cr[1] \notin Names']_vars
  <2> SUFFICES ASSUME SubmitterInv, Next, NEW cr \in crs, cr \notin crs'
               PROVE  cr[1] \notin Names'
    OBVIOUS
  <2>1. DeleteCR
    BY DEF Next, Run, FetchMessage, sendToDLQ, Create, CreateRejected, CommitMessages,
           ProcessFails, CommitFails, Restart, StoreNew, WriteMessages
  <2>2. crs' \subseteq crs
    BY <2>1 DEF DeleteCR
  <2> QED BY <2>2 DEF SubmitterInv, Objects, Names
<1> QED BY <1>1, SubmitterInvHolds, PTL DEF Spec, CRKeepsItsRequest
==============================================================================
