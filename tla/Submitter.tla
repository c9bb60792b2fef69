------------------------------ MODULE Submitter ------------------------------
(***************************************************************************)
(* The submitter (internal/submitter): a Kafka consumer that turns the     *)
(* messages of gpu.workloads.submit into GPUWorkload objects, for one      *)
(* partition.  A message that cannot be used goes to the dead-letter       *)
(* topic; the offset is committed when a message has been processed.       *)
(*                                                                         *)
(* The reader keeps its position in memory: after a failure the next       *)
(* FetchMessage returns the next message, and only a new reader starts     *)
(* again from the committed offset.                                        *)
(***************************************************************************)
EXTENDS WorkloadRequest, Sequences

CONSTANTS Messages,    \* the messages producers may write
          LogLength,   \* bound: messages in the partition
          MaxFailures, \* bound: calls to the API server or the DLQ that fail
          MaxCommitFailures, MaxRestarts, MaxDeletes   \* bounds likewise

ASSUME SubmitterAssumption ==
  {LogLength, MaxFailures, MaxCommitFailures, MaxRestarts, MaxDeletes} \subseteq Nat

VARIABLES log,       \* the partition
          position,  \* offset of the reader: messages fetched so far
          committed, \* committed offset of the consumer group
          current,   \* offset of the message in hand, 0 for none
          processed, \* processMessage returned nil for it
          crs,       \* the GPUWorkload objects: pairs of a name and a request
          creations, \* names of the objects created so far, in order
          dlq,       \* offsets whose message is in the dead-letter topic
          failures, commitFailures, restarts, deletes

bounds == <<failures, commitFailures, restarts, deletes>>
vars == <<log, position, committed, current, processed, crs, creations, dlq, bounds>>

Init ==
  /\ log \in [1..LogLength -> Messages]
  /\ position = 0 /\ committed = 0 /\ current = 0 /\ processed = FALSE
  /\ crs = {} /\ creations = <<>> /\ dlq = {}
  /\ failures = 0 /\ commitFailures = 0 /\ restarts = 0 /\ deletes = 0

-----------------------------------------------------------------------------
\* A request id is a word and the way it is spelled: case, punctuation, outer
\* space and what lies beyond 253 characters.  The name keeps the word only; an
\* id without a word gets a hash, taken to be its own.
CRNameFromRequestID(id) ==
  IF id.word # "" THEN <<"word", id.word>> ELSE <<"hash", id>>

\* ToGPUWorkload copies every field, the kind as it is spelled.
ToGPUWorkload(req) == <<CRNameFromRequestID(req.id), req>>

Names == {cr[1] : cr \in crs}

-----------------------------------------------------------------------------
\* Mutant of FetchMessage: a message is only fetched when the one before it is
\* committed.
FetchAfterCommit ==
  /\ current = 0 /\ position < LogLength /\ position = committed
  /\ position' = position + 1 /\ current' = position + 1 /\ processed' = FALSE
  /\ UNCHANGED <<log, committed, crs, creations, dlq, bounds>>

FetchMessage ==
  /\ current = 0 /\ position < LogLength
  /\ position' = position + 1 /\ current' = position + 1 /\ processed' = FALSE
  /\ UNCHANGED <<log, committed, crs, creations, dlq, bounds>>

\* processMessage has a message in hand; its request can be used, or not.
InHand == current # 0 /\ ~processed
Usable == log[current].json /\ ValidateRequest(log[current])

WriteMessages == dlq' = dlq \cup {current} /\ UNCHANGED <<crs, creations>>

sendToDLQ ==
  /\ InHand /\ ~Usable
  /\ WriteMessages
  /\ processed' = TRUE
  /\ UNCHANGED <<log, position, committed, current, bounds>>

\* Mutant of Create: the object is written whether or not it exists.
CreateOrReplace ==
  /\ InHand /\ Usable /\ SchemaAccepts(log[current])
  /\ LET cr == ToGPUWorkload(log[current]) IN
       /\ crs' = {c \in crs : c[1] # cr[1]} \cup {cr}
       /\ creations' = Append(creations, cr[1])
  /\ processed' = TRUE
  /\ UNCHANGED <<log, position, committed, current, dlq, bounds>>

\* The API server creates the object unless there is one of its name.
StoreNew ==
  /\ LET cr == ToGPUWorkload(log[current]) IN
       IF cr[1] \in Names
       THEN UNCHANGED <<crs, creations>>
       ELSE crs' = crs \cup {cr} /\ creations' = Append(creations, cr[1])
  /\ UNCHANGED dlq

\* Client.Create.  AlreadyExists is taken for success.
Create ==
  /\ InHand /\ Usable /\ SchemaAccepts(log[current])
  /\ StoreNew
  /\ processed' = TRUE
  /\ UNCHANGED <<log, position, committed, current, bounds>>

\* The API server refuses the object: an error like any other to the loop,
\* which goes on with the next message.
CreateRejected ==
  /\ InHand /\ Usable /\ ~SchemaAccepts(log[current])
  /\ current' = 0
  /\ UNCHANGED <<log, position, committed, processed, crs, creations, dlq, bounds>>

\* Create or WriteMessages fails, or its answer is lost after it has taken effect:
\* no commit, and the loop goes on.
ProcessFails ==
  /\ InHand /\ failures < MaxFailures
  /\ \/ UNCHANGED <<crs, creations, dlq>>
     \/ ~Usable /\ WriteMessages
     \/ Usable /\ SchemaAccepts(log[current]) /\ StoreNew
  /\ failures' = failures + 1
  /\ current' = 0
  /\ UNCHANGED <<log, position, committed, processed, commitFailures, restarts, deletes>>

\* Mutant of CommitMessages: the offset is committed once the message is read.
CommitFirst ==
  /\ current # 0 /\ committed < current
  /\ committed' = current
  /\ UNCHANGED <<log, position, current, processed, crs, creations, dlq, bounds>>

CommitMessages ==
  /\ current # 0 /\ processed
  /\ committed' = current /\ current' = 0
  /\ UNCHANGED <<log, position, processed, crs, creations, dlq, bounds>>

CommitFails ==
  /\ current # 0 /\ processed /\ commitFailures < MaxCommitFailures
  /\ commitFailures' = commitFailures + 1
  /\ current' = 0
  /\ UNCHANGED <<log, position, committed, processed, crs, creations, dlq,
                 failures, restarts, deletes>>

\* The process dies or the partition moves: a new reader starts from the
\* committed offset.
Restart ==
  /\ restarts < MaxRestarts
  /\ restarts' = restarts + 1
  /\ position' = committed /\ current' = 0
  /\ UNCHANGED <<log, committed, processed, crs, creations, dlq,
                 failures, commitFailures, deletes>>

\* A user deletes a workload, finished or not.
DeleteCR ==
  /\ deletes < MaxDeletes
  /\ deletes' = deletes + 1
  /\ \E cr \in crs : crs' = crs \ {cr}
  /\ UNCHANGED <<log, position, committed, current, processed, creations, dlq,
                 failures, commitFailures, restarts>>

\* Run.
Run ==
  \/ FetchMessage \/ sendToDLQ \/ Create \/ CreateRejected \/ CommitMessages

Next == Run \/ ProcessFails \/ CommitFails \/ Restart \/ DeleteCR

Spec == Init /\ [][Next]_vars

\* The consumer's loop keeps running.
FairSpec == Spec /\ WF_vars(Run)

-----------------------------------------------------------------------------
(* Properties. *)

\* The reader is never behind the committed offset, and the message in hand is
\* the one it fetched last.
TypeOK ==
  /\ log \in [1..LogLength -> Messages]
  /\ position \in 0..LogLength /\ committed \in 0..position
  /\ current \in {0, position} /\ processed \in BOOLEAN
  /\ crs \subseteq {ToGPUWorkload(log[i]) : i \in 1..LogLength}
  /\ creations \in Seq({CRNameFromRequestID(log[i].id) : i \in 1..LogLength})
  /\ dlq \subseteq 1..LogLength

\* A message that was answered: its workload was created, or it has a place in
\* the dead-letter topic.
Handled(i) ==
  \/ i \in dlq
  \/ \E n \in 1..Len(creations) : creations[n] = CRNameFromRequestID(log[i].id)

Refused(i) == log[i].json /\ ValidateRequest(log[i]) /\ ~SchemaAccepts(log[i])

\* As long as no call fails, commits that fail and restarts lose nothing: every
\* message below the committed offset is handled, unless the API server refuses
\* its object (consumer.go:63-77).
CommittedIsHandled ==
  failures = 0 => \A i \in 1..committed : Handled(i) \/ Refused(i)

\* consumer.go:15, "creates GPUWorkload CRs idempotently": redelivery after a
\* restart or after a failed commit, or a producer that sends twice, makes no
\* second workload unless somebody deletes the first.
CreatedOnce ==
  deletes = 0 => \A m, n \in 1..Len(creations) : creations[m] = creations[n] => m = n

\* A workload that exists keeps the request it was created from, whatever is
\* delivered under its name later (consumer.go:90-95).
CRKeepsItsRequest == [][\A cr \in crs : cr \in crs' \/ cr[1] \notin Names']_vars

\* If no call fails, every message whose object the schema accepts is answered
\* in the end: there is a workload of its name, or it is in the dead-letter
\* topic.
EveryMessageAnswered ==
  \A i \in 1..LogLength :
    <>(failures > 0 \/ Refused(i) \/ i \in dlq \/ CRNameFromRequestID(log[i].id) \in Names)

\* consumer.go:15, "Offsets are committed only after success": every message
\* below the committed offset is handled, failures or not.
CommitsOnlyHandled == \A i \in 1..committed : Handled(i)
=============================================================================
