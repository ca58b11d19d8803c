------------------------------- MODULE LFQueue -------------------------------
(***************************************************************************)
(* The lock-free queue in shared memory.  Node ids circulate through two   *)
(* rings, one of free nodes and one of filled nodes; a node is its owner's *)
(* alone while its id is in neither.  A ring's slot holds the sequence     *)
(* number it is for and an id; head_seq and tail_seq follow, moved on by   *)
(* whoever put or took an id, or by anybody who finds them behind.         *)
(*                                                                         *)
(* Each step is one atomic access.  Sequence numbers do not wrap: a slot's *)
(* 32 bits take four thousand million operations during one.               *)
(***************************************************************************)
EXTENDS Integers, Sequences, FiniteSets

CONSTANTS
  Producers, Consumers,   \* processes that push and that pop
  Count,                  \* node_count
  Overwrite,              \* header->overwrite
  MaxPushes,              \* bound of the pushes of a producer
  MaxCrashes,             \* bound of the crashes
  MaxPauses,              \* bound of the pauses
  NoItem

LFQueueAssumption ==
  /\ Count \in Nat \ {0} /\ Overwrite \in BOOLEAN
  /\ MaxPushes \in Nat /\ MaxCrashes \in Nat /\ MaxPauses \in Nat
  /\ Producers \cap Consumers = {}

VARIABLES
  ring,      \* the rings "resc" and "node": head_seq, tail_seq and nodes
  data,      \* what each node holds
  process,   \* the local variables of each process
  pushes,    \* pushes each producer has begun
  pause,     \* header->pause
  saved,     \* the file of LFQueue_dump
  taken,     \* history: the item taken off the ring last
  crashes, pauses

vars == <<ring, data, process, pushes, pause, saved, taken, crashes, pauses>>

Processes == Producers \cup Consumers
Names == {"resc", "node"}
Items == Producers \X (1 .. MaxPushes)
Ids == 0 .. Count - 1
Invalid == -1
MaxBusyLoop == 2

Slot(seq) == seq % Count
Node(seq, id) == [seq |-> seq, id |-> id]

(* LFRing_init: the first ids in order, the other slots empty.             *)
RingOf(filled) ==
  [head |-> filled, tail |-> 0,
   nodes |-> [i \in Ids |-> Node(i, IF i < filled THEN i ELSE Invalid)]]

Fresh == [r \in Names |-> RingOf(IF r = "resc" THEN Count ELSE 0)]

Idle == [at |-> "idle", ring |-> "node", seq |-> 0, node |-> Node(0, 0),
         expired |-> Node(0, 0), busy |-> 0, id |-> Invalid, item |-> NoItem,
         out |-> 0, true |-> 0]

Init ==
  /\ ring = Fresh
  /\ data = [i \in Ids |-> NoItem]
  /\ process = [p \in Processes |-> Idle]
  /\ pushes = [p \in Producers |-> 0]
  /\ pause = FALSE /\ saved = <<>> /\ taken = NoItem
  /\ crashes = 0 /\ pauses = 0

-----------------------------------------------------------------------------
Become(p, record) == process' = [process EXCEPT ![p] = record]

(* LFRing_pop on ring r, and LFRing_push on it, from their first line.     *)
Popping(local, r) ==
  [local EXCEPT !.at = "tail", !.ring = r, !.expired = Node(0, 0), !.busy = 0]
Pushing(local, r) ==
  [local EXCEPT !.at = "head", !.ring = r, !.expired = Node(0, 0), !.busy = 0]

Mine(p) == ring[process[p].ring]
Loaded(p) == process[p].node
Own(p) == process[p].seq

Calls == UNCHANGED <<ring, data, pause, saved, taken, crashes, pauses>>
Loads == UNCHANGED <<ring, data, pushes, pause, saved, taken, crashes, pauses>>
Others == UNCHANGED <<data, pushes, pause, saved, crashes, pauses>>

-----------------------------------------------------------------------------
(* Calls and returns                                                       *)

Push(p) ==
  /\ process[p].at = "idle" /\ pushes[p] < MaxPushes
  /\ pushes' = [pushes EXCEPT ![p] = @ + 1]
  /\ Become(p, IF pause THEN Idle ELSE [Popping(Idle, "resc") EXCEPT !.item = <<p, pushes'[p]>>])
  /\ Calls

Pop(p) ==
  /\ process[p].at \in {"idle", "again"}
  /\ Become(p, IF pause THEN Idle ELSE Popping(Idle, "node"))
  /\ UNCHANGED pushes /\ Calls

(* Where an empty ring leads: a producer to the oldest filled node, or to  *)
(* an error; a consumer to its loop.                                       *)
Empty(p) ==
  IF p \in Consumers THEN [Idle EXCEPT !.at = "again"]
  ELSE IF Overwrite /\ process[p].ring = "resc" THEN Popping(process[p], "node")
  ELSE Idle

(* LFQueue_get_push_ptr has a node: the caller fills it.                   *)
Fill(p) ==
  /\ p \in Producers /\ process[p].at = "owns"
  /\ data' = [data EXCEPT ![process[p].id] = process[p].item]
  /\ Become(p, Pushing(process[p], "node"))
  /\ UNCHANGED <<ring, pushes, pause, saved, taken, crashes, pauses>>

(* LFQueue_get_pop_ptr has a node: the caller reads it and gives it back.  *)
Consume(p) ==
  /\ p \in Consumers /\ process[p].at = "owns"
  /\ Become(p, [Pushing(process[p], "resc") EXCEPT !.item = data[process[p].id]])
  /\ Loads

-----------------------------------------------------------------------------
(* LFRing_pop                                                              *)

LoadTail(p) ==
  /\ process[p].at = "tail"
  /\ Become(p, [process[p] EXCEPT !.at = "compare", !.seq = Mine(p).tail])
  /\ Loads

LoadHead(p) ==
  /\ process[p].at = "compare"
  /\ Become(p, IF Own(p) = Mine(p).head THEN Empty(p)
               ELSE [process[p] EXCEPT !.at = IF Own(p) > Mine(p).head THEN "tail" ELSE "filled"])
  /\ Loads

(* A slot whose content did not change over MaxBusyLoop looks is behind    *)
(* its index.  Fault: the index is never moved for another.                *)
LookAgainForever(p, node, from, fix) ==
  [process[p] EXCEPT !.at = from, !.expired = node, !.busy = 0]

LookAgain(p, node, from, fix) ==
  IF process[p].expired # node
  THEN [process[p] EXCEPT !.at = from, !.expired = node, !.busy = 0]
  ELSE IF process[p].busy + 1 < MaxBusyLoop
  THEN [process[p] EXCEPT !.at = from, !.busy = @ + 1]
  ELSE [process[p] EXCEPT !.at = fix, !.expired = Node(0, 0), !.busy = 0]

Filled(node, seq) == node.seq = seq /\ node.id # Invalid

LoadFilled(p) ==
  /\ process[p].at = "filled"
  /\ LET node == Mine(p).nodes[Slot(Own(p))]
     IN  Become(p, IF Filled(node, Own(p))
                   THEN [process[p] EXCEPT !.at = "take", !.node = node]
                   ELSE LookAgain(p, node, "tail", "fixTail"))
  /\ Loads

Freed(seq) == Node(seq + Count, Invalid)

(* Fault: the slot is stored to, not compared first.                       *)
StillThereStored(p) == TRUE
StillThere(p) == Mine(p).nodes[Slot(Own(p))] = Loaded(p)

(* The compare-and-swap of the slot; lost, the loop starts again.          *)
Take(p) ==
  /\ process[p].at = "take"
  /\ LET s == Slot(Own(p)) r == process[p].ring
     IN  IF StillThere(p)
         THEN /\ ring' = [ring EXCEPT ![r].nodes[s] = Freed(Own(p))]
              /\ Become(p, [process[p] EXCEPT !.at = "tailEnd", !.id = Loaded(p).id,
                                              !.node = Node(0, 0), !.true = Own(p)])
              /\ taken' = IF r = "node" THEN data[Loaded(p).id] ELSE taken
         ELSE /\ Become(p, [Popping(process[p], r) EXCEPT !.node = Node(0, 0)])
              /\ UNCHANGED <<ring, taken>>
  /\ Others

Advance(r, index, seq) ==
  ring' = IF ring[r][index] = seq THEN [ring EXCEPT ![r][index] = seq + 1] ELSE ring

(* The compare-and-swap loads the index into its operand when it fails.    *)
Operand(p, index) == Mine(p)[index]

FixTail(p) ==
  /\ process[p].at = "fixTail"
  /\ Advance(process[p].ring, "tail", Own(p))
  /\ Become(p, [process[p] EXCEPT !.at = "tail"])
  /\ UNCHANGED taken /\ Others

EndPop(p) ==
  /\ process[p].at = "tailEnd"
  /\ Advance(process[p].ring, "tail", Own(p))
  /\ Become(p, [process[p] EXCEPT !.at = "owns", !.out = Operand(p, "tail"),
                                  !.seq = 0, !.expired = Node(0, 0), !.busy = 0])
  /\ UNCHANGED taken /\ Others

-----------------------------------------------------------------------------
(* LFRing_push                                                             *)

LoadFree(p) ==
  /\ process[p].at = "head"
  /\ Become(p, [process[p] EXCEPT !.at = "free", !.seq = Mine(p).head])
  /\ Loads

LoadSlot(p) ==
  /\ process[p].at = "free"
  /\ LET node == Mine(p).nodes[Slot(Own(p))]
     IN  Become(p, IF node = Node(Own(p), Invalid)
                   THEN [process[p] EXCEPT !.at = "give"]
                   ELSE LookAgain(p, node, "head", "fixHead"))
  /\ Loads

Give(p) ==
  /\ process[p].at = "give"
  /\ LET s == Slot(Own(p)) r == process[p].ring
     IN  IF Mine(p).nodes[s] = Node(Own(p), Invalid)
         THEN /\ ring' = [ring EXCEPT ![r].nodes[s] = Node(Own(p), process[p].id)]
              /\ Become(p, [process[p] EXCEPT !.at = "headEnd", !.id = Invalid,
                              !.true = IF r = "node" THEN Own(p) ELSE @])
         ELSE Become(p, Pushing(process[p], r)) /\ UNCHANGED ring
  /\ UNCHANGED taken /\ Others

FixHead(p) ==
  /\ process[p].at = "fixHead"
  /\ Advance(process[p].ring, "head", Own(p))
  /\ Become(p, [process[p] EXCEPT !.at = "head"])
  /\ UNCHANGED taken /\ Others

EndPush(p) ==
  /\ process[p].at = "headEnd"
  /\ Advance(process[p].ring, "head", Own(p))
  /\ Become(p, [Idle EXCEPT !.true = process[p].true,
                  !.out = IF p \in Producers THEN Operand(p, "head") ELSE process[p].out])
  /\ UNCHANGED taken /\ Others

-----------------------------------------------------------------------------
(* The operator: pauses, waits for the calls under way, and may then reset *)
(* the queue, save it, or load what was saved.                             *)

Quiet == pause /\ \A p \in Processes : process[p].at \in {"idle", "crashed"}

Pause ==
  /\ ~ pause /\ pauses < MaxPauses
  /\ pause' = TRUE /\ pauses' = pauses + 1
  /\ UNCHANGED <<ring, data, process, pushes, saved, taken, crashes>>

Resume ==
  /\ pause
  /\ pause' = FALSE
  /\ UNCHANGED <<ring, data, process, pushes, saved, taken, crashes, pauses>>

Reset ==
  /\ Quiet
  /\ ring' = Fresh /\ data' = [i \in Ids |-> NoItem]
  /\ UNCHANGED <<process, pushes, pause, saved, taken, crashes, pauses>>

Dump ==
  /\ Quiet
  /\ saved' = <<[ring |-> ring, data |-> data]>>
  /\ UNCHANGED <<ring, data, process, pushes, pause, taken, crashes, pauses>>

Load ==
  /\ Quiet /\ saved # <<>>
  /\ ring' = saved[1].ring /\ data' = saved[1].data
  /\ UNCHANGED <<process, pushes, pause, saved, taken, crashes, pauses>>

(* A process ends anywhere; the shared memory stays.                       *)
Crash(p) ==
  /\ process[p].at # "crashed" /\ crashes < MaxCrashes
  /\ Become(p, [Idle EXCEPT !.at = "crashed"])
  /\ crashes' = crashes + 1
  /\ UNCHANGED <<ring, data, pushes, pause, saved, taken, pauses>>

RingStep(p) ==
  \/ LoadTail(p) \/ LoadHead(p) \/ LoadFilled(p) \/ Take(p) \/ FixTail(p) \/ EndPop(p)
  \/ LoadFree(p) \/ LoadSlot(p) \/ Give(p) \/ FixHead(p) \/ EndPush(p)

Step(p) ==
  \/ RingStep(p)
  \/ Fill(p) \/ Consume(p)
  \/ p \in Consumers /\ Pop(p)

Administrator == Pause \/ Resume \/ Reset \/ Dump \/ Load

Next ==
  \/ \E p \in Processes : Step(p) \/ Crash(p)
  \/ \E p \in Producers : Push(p)
  \/ Administrator

Spec == Init /\ [][Next]_vars

(* Every process runs on; nobody has to push.                              *)
FairSpec == Spec /\ \A p \in Processes : WF_vars(Step(p))

-----------------------------------------------------------------------------
Phases ==
  {"idle", "again", "owns", "crashed", "tail", "compare", "filled", "take", "fixTail", "tailEnd",
   "head", "free", "give", "fixHead", "headEnd"}
SomeId == Ids \cup {Invalid}
SomeItem == Items \cup {NoItem}
NodeType == [seq : Nat, id : SomeId]
RingType == [head : Nat, tail : Nat, nodes : [Ids -> NodeType]]
Local ==
  [at : Phases, ring : Names, seq : Nat, node : NodeType, expired : NodeType,
   busy : 0 .. MaxBusyLoop - 1, id : SomeId, item : SomeItem, out : Nat, true : Nat]
File == [ring : [Names -> RingType], data : [Ids -> SomeItem]]

TypeOK ==
  /\ ring \in [Names -> RingType] /\ data \in [Ids -> SomeItem]
  /\ process \in [Processes -> Local]
  /\ pushes \in [Producers -> 0 .. MaxPushes]
  /\ pause \in BOOLEAN /\ taken \in SomeItem
  /\ saved # <<>> => saved[1] \in File
  /\ crashes \in 0 .. MaxCrashes /\ pauses \in 0 .. MaxPauses

Places(id) ==
  {s \in Names \X Ids : ring[s[1]].nodes[s[2]].id = id}
  \cup {<<p, 0>> : p \in {q \in Processes : process[q].id = id}}

(* A node is in one ring or with one process: nobody else reads or writes  *)
(* it then.                                                                *)
NoSharedNode == \A id \in Ids : Cardinality(Places(id)) <= 1

(* Without a crash no node is lost.                                        *)
NoNodeLost == crashes = 0 => \A id \in Ids : Places(id) # {}

(* A reset gives back what crashes lost.                                   *)
ResetRepairs ==
  ring' # ring /\ Quiet /\ saved = <<>> => \A id \in Ids : Cardinality(Places(id)') = 1

(* The indices enclose the filled slots: none is before the tail, at most  *)
(* one after the head, whatever helpers and crashes did to them.           *)
IndicesEnclose ==
  \A r \in DOMAIN ring :
    /\ ring[r].tail <= ring[r].head
    /\ \A i \in Ids : LET node == ring[r].nodes[i]
                      IN  node.id # Invalid => node.seq \in ring[r].tail .. ring[r].head

(* The sequence numbers that are taken from a ring and given to it next:   *)
(* an index is one behind while its slot has changed already.              *)
NextTaken(r) == IF r.nodes[Slot(r.tail)].seq = r.tail THEN r.tail ELSE r.tail + 1

NextGiven(r) ==
  LET node == r.nodes[Slot(r.head)]
  IN  IF node.seq < r.head \/ node = Node(r.head, Invalid) THEN r.head ELSE r.head + 1

(* The filled ring's items, by their sequence numbers.                     *)
Queued ==
  LET r     == ring["node"]
      first == NextTaken(r)
  IN  [k \in 1 .. NextGiven(r) - first |-> data[r.nodes[Slot(first + k - 1)].id]]

Queue == INSTANCE Fifo WITH queue <- Queued, taken <- taken,
           Capacity <- Count

(* The queue is a bounded queue: any number of producers and consumers,    *)
(* and a crash loses at most the item of the crashed process.              *)
QueueImplementsFifo == Queue!Spec

(* A push returns, whoever crashed in the middle of what.                  *)
PushReturns ==
  \A p \in Producers : process[p].at # "idle" ~> process[p].at \in {"idle", "crashed"}

(* What was pushed is popped.                                              *)
QueueDrains == <>[](NextTaken(ring["node"]) = NextGiven(ring["node"]))

(* A pop of an empty queue returns.                                        *)
PopReturns ==
  \A p \in Consumers : process[p].at # "idle" ~> process[p].at \in {"idle", "crashed"}

(* The sequence number a call returns is that of its item.                 *)
SeqIsItems == \A p \in Processes : process[p].at = "idle" => process[p].out = process[p].true

=============================================================================
