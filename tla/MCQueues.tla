----------------------------- MODULE MCQueues ------------------------------
(***************************************************************************)
(* The queues, the journals and the connections for TLC: RingBuffer,       *)
(* LFQueue, Journal, PageEngine and Networking, on several instances each. *)
(* They share no state in the code, so a behaviour is of one instance, the *)
(* subject, and the other modules stay in their first state.               *)
(***************************************************************************)
EXTENDS Integers, Sequences, FiniteSets, TLC

CONSTANTS
  Subjects, x, y, z, none

VARIABLES
  subject,  \* the instance this behaviour is of
  head, tail, buffer, seenTail, seenHead, producer, consumer,
  rings, data, process, pushes, pause, saved, taken, crashes, pauses,
  pages, clock, writer, reader, written, got, nanos, restarts,
  client, exits, registered, slot, maxIdx, files, addrs, writers, readers,
  comm, tasks, removed, state, asked,
  posted, async, loop, conn, backlog, wire, shut, rcv, events, sent, received,
  accepted

ringVars == <<head, tail, buffer, seenTail, seenHead, producer, consumer>>
queueVars == <<rings, data, process, pushes, pause, saved, taken, crashes,
               pauses>>
journalVars == <<pages, clock, writer, reader, written, got, nanos, restarts>>
pagesVars == <<client, exits, registered, slot, maxIdx, files, addrs, writers,
               readers, comm, tasks, removed, state, asked>>
netVars == <<posted, async, loop, conn, backlog, wire, shut, rcv, events,
             sent, received, accepted>>
vars == <<subject, ringVars, queueVars, journalVars, pagesVars, netVars>>

Ring == INSTANCE RingBuffer WITH
  Items <- {x, y}, NoItem <- none, Capacity <- 4, Modulus <- 8
ShortRing == INSTANCE RingBuffer WITH
  Items <- {x, y}, NoItem <- none, Capacity <- 2, Modulus <- 4
Full == INSTANCE LFQueue WITH
  ring <- rings, Consumers <- {z}, NoItem <- none, Producers <- {x, y},
  Count <- 2, Overwrite <- FALSE, MaxPushes <- 2, MaxCrashes <- 0,
  MaxPauses <- 0
Overwriting == INSTANCE LFQueue WITH
  ring <- rings, Consumers <- {z}, NoItem <- none, Producers <- {x, y},
  Count <- 1, Overwrite <- TRUE, MaxPushes <- 2, MaxCrashes <- 0,
  MaxPauses <- 0
Paused == INSTANCE LFQueue WITH
  ring <- rings, Consumers <- {z}, NoItem <- none, Producers <- {x}, Count <- 2,
  Overwrite <- TRUE, MaxPushes <- 2, MaxCrashes <- 1, MaxPauses <- 1
Drained == INSTANCE LFQueue WITH
  ring <- rings, Consumers <- {z}, NoItem <- none, Producers <- {x, y},
  Count <- 1, Overwrite <- FALSE, MaxPushes <- 1, MaxCrashes <- 0,
  MaxPauses <- 0
Crashing == INSTANCE LFQueue WITH
  ring <- rings, Consumers <- {z}, NoItem <- none, Producers <- {x, y},
  Count <- 2, Overwrite <- FALSE, MaxPushes <- 1, MaxCrashes <- 1,
  MaxPauses <- 0
Appending == INSTANCE Journal WITH
  crashes <- restarts, Room <- 2, Journals <- <<"trade">>, Writers <- {"w"},
  JournalOf <- "w" :> "trade", Lengths <- {1, 2}, Starts <- {"first", "last"},
  MaxPages <- 3, MaxFrames <- 3, MaxCrashes <- 1
Merge == INSTANCE Journal WITH
  crashes <- restarts, Room <- 2, Journals <- <<"rsp", "md">>,
  Writers <- {"v", "w"}, JournalOf <- "v" :> "rsp" @@ "w" :> "md",
  Lengths <- {1}, Starts <- {"first", "now"}, MaxPages <- 2, MaxFrames <- 2,
  MaxCrashes <- 0
Reading == INSTANCE Journal WITH
  crashes <- restarts, Room <- 2, Journals <- <<"trade">>, Writers <- {"w"},
  JournalOf <- "w" :> "trade", Lengths <- {1}, Starts <- {"first", "now"},
  MaxPages <- 3, MaxFrames <- 3, MaxCrashes <- 0
Sharing == INSTANCE PageEngine WITH
  Clients <- {"w", "r"}, Writers <- {"w"}, Slots <- 2,
  Requests <- ("w" :> {1, 2} @@ "r" :> {1}), Existing <- {1}, Lives <- 2,
  MaxRequests <- 2, DiesAsking <- FALSE, Removes <- FALSE, Stops <- FALSE
Asking == INSTANCE PageEngine WITH
  Clients <- {"w", "r"}, Writers <- {"w"}, Slots <- 2,
  Requests <- ("w" :> {1} @@ "r" :> {1}), Existing <- {}, Lives <- 1,
  MaxRequests <- 3, DiesAsking <- FALSE, Removes <- FALSE, Stops <- FALSE
Stopping == INSTANCE PageEngine WITH
  Clients <- {"w"}, Writers <- {"w"}, Slots <- 2, Requests <- ("w" :> {1}),
  Existing <- {}, Lives <- 1, MaxRequests <- 2, DiesAsking <- TRUE,
  Removes <- TRUE, Stops <- TRUE
Stream == INSTANCE Networking WITH
  tasks <- posted, got <- received, asked <- accepted, Eager <- FALSE,
  Links <- 1, Cap <- 5, Sends <- ("client" :> <<1, 2>> @@ "server" :> <<>>),
  Closing <- TRUE
TwoLinks == INSTANCE Networking WITH
  tasks <- posted, got <- received, asked <- accepted, Eager <- FALSE,
  Links <- 2, Cap <- 3, Sends <- ("client" :> <<1>> @@ "server" :> <<>>),
  Closing <- TRUE
Delivery == INSTANCE Networking WITH
  tasks <- posted, got <- received, asked <- accepted, Eager <- FALSE,
  Links <- 2, Cap <- 4, Sends <- ("client" :> <<1, 2>> @@ "server" :> <<>>),
  Closing <- FALSE

(* What the modules assume of their constants. *)
ASSUME InstancesAssumption ==
  /\ Ring!RingAssumption
  /\ ShortRing!RingAssumption
  /\ Full!LFQueueAssumption
  /\ Overwriting!LFQueueAssumption
  /\ Paused!LFQueueAssumption
  /\ Drained!LFQueueAssumption
  /\ Crashing!LFQueueAssumption
  /\ Appending!JournalAssumption
  /\ Merge!JournalAssumption
  /\ Reading!JournalAssumption
  /\ Sharing!PageEngineAssumption
  /\ Asking!PageEngineAssumption
  /\ Stopping!PageEngineAssumption
  /\ Stream!NetworkingAssumption
  /\ TwoLinks!NetworkingAssumption
  /\ Delivery!NetworkingAssumption

RingInit ==
  \/ subject = "ring" /\ Ring!Init
  \/ subject = "short ring" /\ ShortRing!Init
  \/ subject \notin {"ring", "short ring"} /\ ShortRing!Init
RingNext ==
  \/ subject = "ring" /\ Ring!Next
  \/ subject = "short ring" /\ ShortRing!Next

QueueInit ==
  \/ subject = "full" /\ Full!Init
  \/ subject = "overwriting" /\ Overwriting!Init
  \/ subject = "paused" /\ Paused!Init
  \/ subject = "drained" /\ Drained!Init
  \/ subject = "crashing" /\ Crashing!Init
  \/ subject \notin {"full", "overwriting", "paused", "drained", "crashing"} /\ Crashing!Init
QueueNext ==
  \/ subject = "full" /\ Full!Next
  \/ subject = "overwriting" /\ Overwriting!Next
  \/ subject = "paused" /\ Paused!Next
  \/ subject = "drained" /\ Drained!Next
  \/ subject = "crashing" /\ Crashing!Next

JournalInit ==
  \/ subject = "append" /\ Appending!Init
  \/ subject = "merge" /\ Merge!Init
  \/ subject = "read" /\ Reading!Init
  \/ subject \notin {"append", "merge", "read"} /\ Reading!Init
JournalNext ==
  \/ subject = "append" /\ Appending!Next
  \/ subject = "merge" /\ Merge!Next
  \/ subject = "read" /\ Reading!Next

PagesInit ==
  \/ subject = "pages" /\ Sharing!Init
  \/ subject = "answers" /\ Asking!Init
  \/ subject = "stop" /\ Stopping!Init
  \/ subject \notin {"pages", "answers", "stop"} /\ Asking!Init
PagesNext ==
  \/ subject = "pages" /\ Sharing!Next
  \/ subject = "answers" /\ Asking!Next
  \/ subject = "stop" /\ Stopping!Next

NetInit ==
  \/ subject = "stream" /\ Stream!Init
  \/ subject = "links" /\ TwoLinks!Init
  \/ subject = "delivery" /\ Delivery!Init
  \/ subject \notin {"stream", "links", "delivery"} /\ Delivery!Init
NetNext ==
  \/ subject = "stream" /\ Stream!Next
  \/ subject = "links" /\ TwoLinks!Next
  \/ subject = "delivery" /\ Delivery!Next

Init ==
  /\ subject \in Subjects
  /\ RingInit
  /\ QueueInit
  /\ JournalInit
  /\ PagesInit
  /\ NetInit

Next ==
  /\ UNCHANGED subject
  /\ \/ RingNext /\ UNCHANGED <<queueVars, journalVars, pagesVars, netVars>>
     \/ QueueNext /\ UNCHANGED <<ringVars, journalVars, pagesVars, netVars>>
     \/ JournalNext /\ UNCHANGED <<ringVars, queueVars, pagesVars, netVars>>
     \/ PagesNext /\ UNCHANGED <<ringVars, queueVars, journalVars, netVars>>
     \/ NetNext /\ UNCHANGED <<ringVars, queueVars, journalVars, pagesVars>>

Spec == Init /\ [][Next]_vars

(* Fair scheduling of the threads that the modules assume it of: those of  *)
(* the ring (and the visibility of their stores), the processes at the     *)
(* lock-free queue, the journal's reader and a writer inside a call, the   *)
(* service's threads, and the two nodes' loops.                            *)
FairRing ==
  /\ WF_ringVars(subject = "short ring" /\ ShortRing!Producer)
  /\ WF_ringVars(subject = "short ring" /\ ShortRing!Consumer)
  /\ WF_ringVars(subject = "short ring" /\ ShortRing!TailSeen)
  /\ WF_ringVars(subject = "short ring" /\ ShortRing!HeadSeen)

FairQueue ==
  \A p \in {x, y, z} :
    /\ WF_queueVars(subject = "drained" /\ Drained!Step(p))
    /\ WF_queueVars(subject = "crashing" /\ Crashing!Step(p))

FairJournal ==
  /\ WF_journalVars(subject = "read" /\ Reading!ReaderStep)
  /\ WF_journalVars(subject = "read" /\ Reading!InCall("w") /\ Reading!WriterStep("w"))

FairPages ==
  /\ WF_pagesVars(subject = "answers" /\ Asking!Comm)
  /\ WF_pagesVars(subject = "stop" /\ Stopping!Comm)
  /\ WF_pagesVars(subject = "stop" /\ Stopping!PidCheck)
  /\ WF_pagesVars(subject = "stop" /\ Stopping!TempPage)
  /\ WF_pagesVars(subject = "stop" /\ Stopping!StopAll)

FairNet ==
  /\ WF_netVars(subject = "delivery" /\ Delivery!Client)
  /\ WF_netVars(subject = "delivery" /\ Delivery!Server)

FairSpec == Spec /\ FairRing /\ FairQueue /\ FairJournal /\ FairPages /\ FairNet

(* Two threads never work at one place of a queue at the same time: the    *)
(* ring's producer and consumer, each deciding on an old value of the      *)
(* other's index (RingBuffer::Put, Get), never at one slot; a node of the  *)
(* lock-free queue is in one ring or one process's hands, however          *)
(* processes crash between the compare-and-swaps of ring.h, and without a  *)
(* crash no node is lost.                                                  *)
NoSharedSlot ==
  /\ subject = "ring" => Ring!TypeOK /\ Ring!NoSlotRace
  /\ subject = "full" => Full!TypeOK /\ Full!NoSharedNode /\ Full!NoNodeLost /\ Full!IndicesEnclose
  /\ subject = "overwriting" => Overwriting!NoSharedNode /\ Overwriting!IndicesEnclose
  /\ subject = "crashing" => Crashing!NoSharedNode /\ Crashing!IndicesEnclose
  /\ subject = "paused" => Paused!NoSharedNode

(* Both queues implement the bounded queue of Fifo: what is taken is what  *)
(* was put first, over any number of turns of the indices, with several    *)
(* producers, and when old items are overwritten (ring_buffer.h, queue.c); *)
(* and a reset of a paused queue gives back the nodes that crashes lost.   *)
QueuesAreFifo ==
  /\ subject = "ring" => Ring!Queue!Init
  /\ subject = "full" => Full!Queue!Init
  /\ subject = "overwriting" => Overwriting!Queue!Init
  /\ [][/\ subject = "ring" => [Ring!Queue!Next]_<<Ring!Queued, consumer.data>>
        /\ subject = "full" => [Full!Queue!Next]_<<Full!Queued, taken>>
        /\ subject = "overwriting" =>
             [Overwriting!Queue!Next]_<<Overwriting!Queued, taken>>
        /\ subject = "paused" => Paused!ResetRepairs]_vars

(* A reader gets what was written, in the order it was written: the frames *)
(* of a journal, none twice, torn or left out, over page ends and a crash  *)
(* of the writer (Journal.cpp), and the messages of a connection, whole    *)
(* however the kernel cuts the stream, between one report of its beginning *)
(* and one of its end (networking.cpp).                                    *)
ReadsWhatWasWritten ==
  /\ subject = "append" =>
       Appending!TypeOK /\ Appending!HoldsWhatWasWritten /\ Appending!ReadsWhatWasWritten
  /\ subject = "merge" => Merge!ReadsWhatWasWritten
  /\ subject = "stream" => Stream!TypeOK /\ Stream!MessagesInOrder
  /\ subject = "links" => TwoLinks!ReportedOnce

(* The page service maps a page while a client uses it and no longer, and  *)
(* a message of its table is one registered client's, whatever the order   *)
(* of requests, releases and the checks for dead processes                 *)
(* (PageEngine::initiate_page, release_page, exit_client).                 *)
PagesAreCounted ==
  subject = "pages" =>
    Sharing!TypeOK /\ Sharing!CountsAreUsers /\ Sharing!MappedWhileUsed /\ Sharing!SlotsAreOwned

(* What was put into a queue is taken, a frame written is read, and a      *)
(* message that SendMsg took is received, unless its connection ends.      *)
EverythingArrives ==
  /\ subject = "short ring" => ShortRing!RingDrains
  /\ subject = "drained" => Drained!QueueDrains
  /\ subject = "read" => Reading!EveryFrameIsRead
  /\ subject = "delivery" => Delivery!Received

(* A producer of the ring gets in, a push returns whoever crashed in the   *)
(* middle of what, a page that is asked for is answered, and a stopped     *)
(* page service's threads end (PageEngine::stop_all joins them).           *)
CallsReturn ==
  /\ subject = "short ring" => ShortRing!PutReturns
  /\ subject = "crashing" => Crashing!PushReturns
  /\ subject = "answers" => Asking!Answered
  /\ subject = "stop" => Stopping!StopEnds
=============================================================================
