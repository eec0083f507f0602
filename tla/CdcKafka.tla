------------------------------ MODULE CdcKafka -------------------------------
(* Change capture to Elasticsearch through Kafka: a run of the job publishes  *)
(* the outbox to a topic and advances a producer offset; a consumer group per *)
(* job applies the topic to the index.  Ordering matters per row, so one row  *)
(* is enough: change n gives it its n-th value (a delete is a value as well). *)
EXTENDS Integers, Sequences, FiniteSetsExt, SequencesExt

CONSTANTS KafkaJobs,    \* the CDC jobs of one source table with an index each
          SendBatch,    \* changes of one send (FABRIC_CDC_KAFKA_BATCH)
          MaxCaptured,  \* bound: changes of the row
          MaxTopic      \* bound: messages in the topic

VARIABLES captured,   \* changes committed and captured so far
          pruned,     \* the outbox keeps the changes above this one
          offset,     \* cdc_kafka_offset of the source table
          topic,      \* messages, in order (one partition holds the row)
          snapshot,   \* per job: does it have a saved snapshot position
          run,        \* per job: the run in progress
          committed,  \* per job: the consumer group's committed offset
          consumed,   \* per job: messages the live consumer has applied
          doc         \* per job: the value in the index

vars == <<captured, pruned, offset, topic, snapshot, run, committed, consumed, doc>>

NoRun == [pc |-> "idle", seq |-> 0, batch |-> << >>, published |-> FALSE]

\* The run of j goes on at pc.
Goto(j, pc) == run' = [run EXCEPT ![j] = [pc |-> pc, seq |-> @.seq, batch |-> @.batch, published |-> @.published]]

Init == /\ captured = 1 /\ pruned = 0 /\ offset = 0 /\ topic = << >>
        /\ snapshot = [j \in KafkaJobs |-> FALSE] /\ run = [j \in KafkaJobs |-> NoRun]
        /\ committed = [j \in KafkaJobs |-> 0] /\ consumed = [j \in KafkaJobs |-> 0]
        /\ doc = [j \in KafkaJobs |-> 0]

\* The source commits a change; the trigger writes it to the outbox.
Change == /\ captured < MaxCaptured /\ captured' = captured + 1
          /\ UNCHANGED <<pruned, offset, topic, snapshot, run, committed, consumed, doc>>

----------------------------------------------------------------------------
(* A run of the job                                                          *)

\* cdcRun without a saved position: the position is taken, then the index is
\* rebuilt, then position and producer offset are saved one after the other.
StartSnapshot(j) ==
    /\ run[j] = NoRun /\ ~snapshot[j]
    /\ run' = [run EXCEPT ![j] = [pc |-> "snapshot", seq |-> captured, batch |-> << >>, published |-> FALSE]]
    /\ UNCHANGED <<captured, pruned, offset, topic, snapshot, committed, consumed, doc>>

ReadSnapshot(j) ==
    /\ run[j].pc = "snapshot" /\ doc' = [doc EXCEPT ![j] = captured]
    /\ Goto(j, "position")
    /\ UNCHANGED <<captured, pruned, offset, topic, snapshot, committed, consumed>>

SaveSnapshotPosition(j) ==
    /\ run[j].pc = "position" /\ snapshot' = [snapshot EXCEPT ![j] = TRUE]
    /\ Goto(j, "baseline")
    /\ UNCHANGED <<captured, pruned, offset, topic, committed, consumed, doc>>

Baseline(j) ==
    /\ run[j].pc = "baseline" /\ offset' = run[j].seq
    /\ run' = [run EXCEPT ![j] = NoRun]
    /\ UNCHANGED <<captured, pruned, topic, snapshot, committed, consumed, doc>>

\* produce: read above the offset, send, then advance the offset, until a
\* short batch; prune what was sent.
StartProduce(j) ==
    /\ run[j] = NoRun /\ snapshot[j]
    /\ run' = [run EXCEPT ![j] = [pc |-> "read", seq |-> offset, batch |-> << >>, published |-> FALSE]]
    /\ UNCHANGED <<captured, pruned, offset, topic, snapshot, committed, consumed, doc>>

Unread(seq) ==
    LET first == Max({seq, pruned}) + 1
        last == Min({captured, first + SendBatch - 1})
    IN  [i \in 1 .. last - first + 1 |-> first + i - 1]

ReadOutbox(j) ==
    /\ run[j].pc = "read"
    /\ LET batch == Unread(run[j].seq)
       IN  run' = [run EXCEPT ![j] = [pc |-> IF batch = << >> THEN "prune" ELSE "send",
                                      seq |-> @.seq, batch |-> batch, published |-> @.published]]
    /\ UNCHANGED <<captured, pruned, offset, topic, snapshot, committed, consumed, doc>>

Sent(j) == run' = [run EXCEPT ![j] = [pc |-> "offset", seq |-> Last(@.batch), batch |-> @.batch, published |-> TRUE]]

\* The offset is advanced before the broker has the batch.
SendAfterOffset(j) ==
    /\ run[j].pc = "send" /\ offset' = Last(run[j].batch)
    /\ Sent(j)
    /\ UNCHANGED <<captured, pruned, topic, snapshot, committed, consumed, doc>>

Send(j) ==
    /\ run[j].pc = "send" /\ Len(topic) + Len(run[j].batch) <= MaxTopic
    /\ topic' = topic \o run[j].batch
    /\ Sent(j)
    /\ UNCHANGED <<captured, pruned, offset, snapshot, committed, consumed, doc>>

AdvanceOffset(j) ==
    /\ run[j].pc = "offset" /\ offset' = run[j].seq
    /\ run' = [run EXCEPT ![j] = [pc |-> IF Len(@.batch) < SendBatch THEN "prune" ELSE "read",
                                   seq |-> @.seq, batch |-> << >>, published |-> @.published]]
    /\ UNCHANGED <<captured, pruned, topic, snapshot, committed, consumed, doc>>

PruneOutbox(j) ==
    /\ run[j].pc = "prune"
    /\ pruned' = IF run[j].published THEN Max({pruned, run[j].seq}) ELSE pruned
    /\ run' = [run EXCEPT ![j] = NoRun]
    /\ UNCHANGED <<captured, offset, topic, snapshot, committed, consumed, doc>>

\* The process dies, or a statement or the send fails.
RunDies(j) ==
    /\ run[j] # NoRun /\ run' = [run EXCEPT ![j] = NoRun]
    /\ UNCHANGED <<captured, pruned, offset, topic, snapshot, committed, consumed, doc>>

----------------------------------------------------------------------------
(* The consumer (started with the process, from the beginning of the topic)  *)

Apply(j) ==
    /\ consumed[j] < Len(topic)
    /\ doc' = [doc EXCEPT ![j] = topic[consumed[j] + 1]]
    /\ consumed' = [consumed EXCEPT ![j] = @ + 1]
    /\ UNCHANGED <<captured, pruned, offset, topic, snapshot, run, committed>>

CommitOffsets(j) ==
    /\ committed[j] # consumed[j] /\ committed' = [committed EXCEPT ![j] = consumed[j]]
    /\ UNCHANGED <<captured, pruned, offset, topic, snapshot, run, consumed, doc>>

\* A restarted consumer applies again what it had not committed.
ConsumerDies(j) ==
    /\ consumed[j] # committed[j] /\ consumed' = [consumed EXCEPT ![j] = committed[j]]
    /\ UNCHANGED <<captured, pruned, offset, topic, snapshot, run, committed, doc>>

RunStep(j) ==
    \/ StartSnapshot(j) \/ ReadSnapshot(j) \/ SaveSnapshotPosition(j) \/ Baseline(j)
    \/ StartProduce(j) \/ ReadOutbox(j) \/ Send(j) \/ AdvanceOffset(j) \/ PruneOutbox(j) \/ RunDies(j)

Next == Change \/ \E j \in KafkaJobs : RunStep(j) \/ Apply(j) \/ CommitOffsets(j) \/ ConsumerDies(j)

Spec == Init /\ [][Next]_vars

----------------------------------------------------------------------------
(* Properties                                                                *)

\* Everything captured was sent and acknowledged, and everything sent was
\* applied.
Drained(j) ==
    /\ snapshot[j] /\ run[j] = NoRun /\ offset >= captured
    /\ consumed[j] = Len(topic)

\* The table's other jobs have not got as far as their own snapshot: they would move
\* the producer offset that all of them share.
Sole(j) == \A i \in KafkaJobs \ {j} : ~snapshot[i]

\* Publishing at least once and applying at least once still ends with the
\* current value in the index, whatever died and was repeated in between.
DrainedIsCurrent == \A j \in KafkaJobs : Drained(j) /\ Sole(j) => doc[j] = captured
=============================================================================
