------------------------------ MODULE Pipeline ------------------------------
(***************************************************************************)
(* The asynchronous processing pipeline: one task initializes the stages,  *)
(* takes items from a bounded channel, puts each through the stages with a *)
(* timeout and retries, sends what comes out to another bounded channel,   *)
(* and cleans up. A producer and a consumer are at the ends of the         *)
(* channels, and may let go of them at any time.                           *)
(***************************************************************************)
EXTENDS Integers, Sequences, FiniteSets, SequencesExt

CONSTANTS
  Stages,         \* the stages, in the order of the pipeline
  ItemTypes,
  Makes,          \* for each stage and type of item, the types it may turn it
                  \* into; none when the stage cannot process the type
  RetryAttempts,  \* retry_attempts of the configuration
  BufferSize,     \* the capacity of the channels
  MaxItems        \* bound on the items of the model

ASSUME PipelineAssumption ==
  /\ Stages \in Seq(Range(Stages))
  /\ Makes \in [Range(Stages) \X ItemTypes -> SUBSET ItemTypes]
  /\ RetryAttempts \in Nat
  /\ BufferSize \in Nat \ {0}
  /\ MaxItems \in Nat

VARIABLES
  input,      \* the channel into the pipeline, and whether it has a sender
  output,     \* the channel out of it, and whether it has a receiver
  phase,      \* what process_stream is doing
  turn,       \* the index of the stage whose turn it is
  item,       \* the item that is being processed
  ready,      \* the stages that were initialized and not cleaned up
  counted,    \* items_processed of the statistics
  produced,   \* the number of items the producer has sent
  delivered,  \* history: the numbers of the items sent on, in order
  failed      \* history: the numbers of the items that the pipeline gave up

channels == <<input, output>>
pipelineVars ==
  <<input, output, phase, turn, item, ready, counted, produced, delivered, failed>>

NoItem == [number |-> 0]

PipelineInit ==
  /\ input = [items |-> <<>>, open |-> TRUE]
  /\ output = [items |-> <<>>, open |-> TRUE]
  /\ phase = "initialize"
  /\ turn = 1
  /\ item = NoItem
  /\ ready = {}
  /\ counted = 0
  /\ produced = 0
  /\ delivered = <<>>
  /\ failed = {}

Running == phase \notin {"ok", "error"}
-----------------------------------------------------------------------------
(* The ends of the channels                                                *)

Produce ==
  /\ input.open
  /\ Running
  /\ produced < MaxItems
  /\ Len(input.items) < BufferSize
  /\ \E type \in ItemTypes :
       input' = [input EXCEPT !.items = Append(@, [number |-> produced + 1, type |-> type,
                                                   retries |-> 0])]
  /\ produced' = produced + 1
  /\ UNCHANGED <<output, phase, turn, item, ready, counted, delivered, failed>>

CloseInput ==
  /\ input.open
  /\ input' = [input EXCEPT !.open = FALSE]
  /\ UNCHANGED <<output, phase, turn, item, ready, counted, produced, delivered, failed>>

Consume ==
  /\ output.open
  /\ output.items # <<>>
  /\ output' = [output EXCEPT !.items = Tail(@)]
  /\ UNCHANGED <<input, phase, turn, item, ready, counted, produced, delivered, failed>>

CloseOutput ==
  /\ output.open
  /\ output' = [items |-> <<>>, open |-> FALSE]
  /\ UNCHANGED <<input, phase, turn, item, ready, counted, produced, delivered, failed>>
-----------------------------------------------------------------------------
(* process_stream                                                          *)

Enter(p) == phase' = p /\ turn' = 1

(* A stage that does not initialize ends the call: the stages before it    *)
(* are not cleaned up.                                                     *)
Initialize ==
  /\ phase = "initialize"
  /\ \/ /\ turn > Len(Stages)
        /\ Enter("receive")
        /\ UNCHANGED ready
     \/ /\ turn <= Len(Stages)
        /\ ready' = ready \cup {turn}
        /\ turn' = turn + 1
        /\ UNCHANGED phase
     \/ /\ turn <= Len(Stages)
        /\ phase' = "error"
        /\ UNCHANGED <<turn, ready>>
  /\ UNCHANGED <<channels, item, counted, produced, delivered, failed>>

Receive ==
  /\ phase = "receive"
  /\ \/ /\ input.items # <<>>
        /\ item' = Head(input.items)
        /\ input' = [input EXCEPT !.items = Tail(@)]
        /\ Enter("process")
     \/ /\ input.items = <<>>
        /\ ~input.open
        /\ Enter("cleanup")
        /\ UNCHANGED <<item, input>>
  /\ UNCHANGED <<output, ready, counted, produced, delivered, failed>>

(* An item that is sent on is counted, and so is one that failed, but not  *)
(* the one that finds the output closed.                                   *)
Send ==
  /\ phase = "send"
  /\ \/ /\ output.open
        /\ Len(output.items) < BufferSize
        /\ output' = [output EXCEPT !.items = Append(@, item)]
        /\ delivered' = Append(delivered, item.number)
        /\ counted' = counted + 1
        /\ Enter("receive")
     \/ /\ ~output.open
        /\ Enter("cleanup")
        /\ UNCHANGED <<output, delivered, counted>>
  /\ item' = NoItem
  /\ UNCHANGED <<input, ready, produced, failed>>

Cleanup ==
  /\ phase = "cleanup"
  /\ \/ /\ turn > Len(Stages)
        /\ phase' = "ok"
        /\ UNCHANGED <<turn, ready>>
     \/ /\ turn <= Len(Stages)
        /\ ready' = ready \ {turn}
        /\ turn' = turn + 1
        /\ UNCHANGED phase
     \/ /\ turn <= Len(Stages)
        /\ phase' = "error"
        /\ UNCHANGED <<turn, ready>>
  /\ UNCHANGED <<channels, item, counted, produced, delivered, failed>>
-----------------------------------------------------------------------------
(* process_item                                                            *)

Possible == Makes[Stages[turn], item.type]

GiveUpUncounted ==
  /\ failed' = failed \cup {item.number}
  /\ item' = NoItem
  /\ UNCHANGED counted
  /\ Enter("receive")

GiveUp ==
  /\ failed' = failed \cup {item.number}
  /\ item' = NoItem
  /\ counted' = counted + 1
  /\ Enter("receive")

RetryUncounted ==
  /\ turn' = 1
  /\ UNCHANGED <<item, phase, counted, failed>>

(* From the first stage on, with the item as the stages before this one    *)
(* left it                                                                 *)
Retry ==
  /\ item' = [item EXCEPT !.retries = @ + 1]
  /\ turn' = 1
  /\ UNCHANGED <<phase, counted, failed>>

Process ==
  /\ phase = "process"
  /\ \/ /\ turn > Len(Stages)
        /\ Enter("send")
        /\ UNCHANGED <<item, counted, failed>>
     \/ /\ turn <= Len(Stages)
        /\ \/ /\ Possible = {}
              /\ UNCHANGED item
           \/ \E type \in Possible : item' = [item EXCEPT !.type = type]
        /\ turn' = turn + 1
        /\ UNCHANGED <<phase, counted, failed>>
     \/ /\ turn <= Len(Stages)   \* the stage returns an error
        /\ Possible # {}
        /\ IF item.retries < RetryAttempts THEN Retry ELSE GiveUp
     \/ /\ turn <= Len(Stages)   \* the stage takes too long
        /\ Possible # {}
        /\ GiveUp
  /\ UNCHANGED <<channels, ready, produced, delivered>>
-----------------------------------------------------------------------------
ProcessStream == Initialize \/ Receive \/ Process \/ Send \/ Cleanup
PipelineNext == Produce \/ CloseInput \/ Consume \/ CloseOutput \/ ProcessStream

(* A stage answers or is timed out, and the consumer takes what it is sent *)
(* as long as it stays. Nothing makes it go away, and nothing makes the    *)
(* producer send or stop.                                                  *)
PipelineSpec ==
  /\ PipelineInit
  /\ [][PipelineNext]_pipelineVars
  /\ WF_pipelineVars(ProcessStream)
  /\ WF_pipelineVars(Consume)
-----------------------------------------------------------------------------
(* Properties                                                              *)

(* Nothing overtakes anything, and no item both fails and is sent on, with *)
(* whatever retries. When a call returns without an error from a stage's   *)
(* start or end, every stage was cleaned up and every item that the call   *)
(* answered for is counted; and if there was somebody to send to all the   *)
(* time, every item was sent on or failed.                                 *)
Settled ==
  /\ \A i, j \in DOMAIN delivered : i < j => delivered[i] < delivered[j]
  /\ Range(delivered) \cap failed = {}
  /\ phase = "ok" =>
       /\ ready = {}
       /\ counted = Len(delivered) + Cardinality(failed)
       /\ output.open => Range(delivered) \cup failed = 1..produced

(* Once the producer has let go of its end, process_stream returns,        *)
(* however stages fail, time out and are retried: with a consumer that     *)
(* stays to the end, however often the output is full, and with one that   *)
(* goes away, whenever it does.                                            *)
StreamReturns == ~input.open ~> ~Running
=============================================================================
