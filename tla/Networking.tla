----------------------------- MODULE Networking -----------------------------
(***************************************************************************)
(* Two nodes of the networking layer, a server and a client, over TCP.     *)
(* Any thread asks a node to connect, disconnect and send by a queue of    *)
(* tasks and an async handle that wakes its loop; the loop does the tasks, *)
(* writes without blocking but until all is written, accepts, reads and    *)
(* cuts the stream into messages.                                          *)
(*                                                                         *)
(* Every link has a connection id at either node, and ids are not used     *)
(* again: links stand for them.  A message m is a header of two units and  *)
(* a body of m units.                                                      *)
(***************************************************************************)
EXTENDS Integers, Sequences, FiniteSets, SequencesExt

CONSTANTS
  Links,     \* 1 .. n, the links the client may ask for
  Cap,       \* units the kernel holds for a reader
  Sends,     \* the messages each node may send, by node
  Eager,     \* may a message be sent before its connection is reported
  Closing    \* may connections be closed, and fail

NetworkingAssumption == Links \in Nat /\ Cap \in Nat \ {0} /\ Eager \in BOOLEAN
                                 /\ Closing \in BOOLEAN

VARIABLES
  tasks,  \* task_queue_ of either node
  async,  \* is async_task_req_ signalled
  loop,   \* what the node's loop does: "idle", "tasks", or writes the rest of a message
  conn,   \* connections_: "none", "connecting" or "open", by node and link
  backlog, \* links the server has not yet accepted
  wire,   \* units on their way to a node, by link
  shut,   \* has a node closed its end
  rcv,    \* rcv_buf
  events, \* history: OnConnected and OnDisconnected
  sent,   \* history: the messages a node began to write
  got,    \* history: OnRecvMsg
  asked   \* history: the messages SendMsg has put, by node and link

vars == <<tasks, async, loop, conn, backlog, wire, shut, rcv, events, sent, got, asked>>

Nodes == {"server", "client"}
Peer(n) == IF n = "server" THEN "client" ELSE "server"
All == 1 .. Links
Each(x) == [n \in Nodes |-> [l \in All |-> x]]
Idle == [at |-> "idle", link |-> 0, rest |-> <<>>]

Init ==
  /\ tasks = [n \in Nodes |-> <<>>] /\ async = [n \in Nodes |-> FALSE]
  /\ loop = [n \in Nodes |-> Idle] /\ conn = Each("none") /\ backlog = {}
  /\ wire = Each(<<>>) /\ shut = Each(FALSE) /\ rcv = Each(<<>>)
  /\ events = Each(<<>>) /\ sent = Each(<<>>) /\ got = Each(<<>>) /\ asked = Each(<<>>)

-----------------------------------------------------------------------------
(* The node's users. *)

PutTask(n, task) ==
  /\ tasks' = [tasks EXCEPT ![n] = Append(@, task)] /\ async' = [async EXCEPT ![n] = TRUE]
  /\ UNCHANGED <<loop, conn, backlog, wire, shut, rcv, events, sent, got>>

Task(type, l, m) == [type |-> type, link |-> l, msg |-> m]

\* Was the link asked for before.
Wanted(n, l) == events[n][l] # <<>> \/ conn[n][l] # "none"
                  \/ \E i \in 1 .. Len(tasks[n]) : tasks[n][i].link = l

Connect(l) ==
  /\ ~Wanted("client", l) /\ \A k \in All : k < l => Wanted("client", k)
  /\ PutTask("client", Task("connect", l, 0)) /\ UNCHANGED asked

Disconnect(n, l) ==
  /\ Closing /\ events[n][l] = <<"connected">>
  /\ \A i \in 1 .. Len(tasks[n]) : tasks[n][i].type # "disconnect"
  /\ PutTask(n, Task("disconnect", l, 0)) /\ UNCHANGED asked

SendMsg(n, l) ==
  /\ Len(asked[n][l]) < Len(Sends[n])
  /\ IF Eager THEN Wanted(n, l) ELSE events[n][l] = <<"connected">>
  /\ LET m == Sends[n][Len(asked[n][l]) + 1]
     IN PutTask(n, Task("send", l, m)) /\ asked' = [asked EXCEPT ![n][l] = Append(@, m)]

-----------------------------------------------------------------------------
(* The node's loop. *)

Stream(m) == [i \in 1 .. m + 2 |-> [kind |-> IF i <= 2 THEN "head" ELSE "body", msg |-> m]]

\* OnUvAsyncTask is woken, for one signal or many.
Wake(n) ==
  /\ loop[n].at = "idle" /\ async[n]
  /\ async' = [async EXCEPT ![n] = FALSE] /\ loop' = [loop EXCEPT ![n].at = "tasks"]
  /\ UNCHANGED <<tasks, conn, backlog, wire, shut, rcv, events, sent, got, asked>>

(* Fault: one task is done for a wakeup. *)
AfterTaskIdle(n) == [loop EXCEPT ![n] = Idle]

AfterTask(n) == [loop EXCEPT ![n] = [Idle EXCEPT !.at = "tasks"]]

NoTask(n) ==
  /\ loop[n].at = "tasks" /\ tasks[n] = <<>> /\ loop' = [loop EXCEPT ![n] = Idle]
  /\ UNCHANGED <<tasks, async, conn, backlog, wire, shut, rcv, events, sent, got, asked>>

Report(n, l, e) == events' = [events EXCEPT ![n][l] = Append(@, e)]

\* uv_close, erase, OnDisconnected.  A link that the server has not accepted
\* may still be accepted: the server then reads what was written and its end.
Close(n, l) ==
  /\ conn' = [conn EXCEPT ![n][l] = "none"]
  /\ shut' = [shut EXCEPT ![n][l] = TRUE] /\ backlog' \in {backlog, backlog \ {l}}
  /\ Report(n, l, "disconnected")

DoConnect(n, l) ==
  /\ IF conn[n][l] # "none" THEN UNCHANGED <<conn, shut, backlog, events>>
     ELSE \/ /\ conn' = [conn EXCEPT ![n][l] = "connecting"]
             /\ backlog' = backlog \cup {l} /\ UNCHANGED <<shut, events>>
          \/ Closing /\ Report(n, l, "disconnected") /\ UNCHANGED <<conn, shut, backlog>>
  /\ loop' = AfterTask(n) /\ UNCHANGED sent

DoDisconnect(n, l) ==
  /\ IF conn[n][l] = "none" THEN UNCHANGED <<conn, shut, backlog, events>> ELSE Close(n, l)
  /\ loop' = AfterTask(n) /\ UNCHANGED sent

DoSendMsg(n, l, m) ==
  /\ IF conn[n][l] = "none" THEN loop' = AfterTask(n) /\ UNCHANGED sent
     ELSE /\ loop' = [loop EXCEPT ![n] = [at |-> "write", link |-> l, rest |-> Stream(m)]]
          /\ sent' = [sent EXCEPT ![n][l] = Append(@, m)]
  /\ UNCHANGED <<conn, shut, backlog, events>>

GetTask(n) ==
  LET task == Head(tasks[n])
  IN /\ loop[n].at = "tasks" /\ tasks[n] # <<>>
     /\ tasks' = [tasks EXCEPT ![n] = Tail(@)]
     /\ task.type = "connect" => DoConnect(n, task.link)
     /\ task.type = "disconnect" => DoDisconnect(n, task.link)
     /\ task.type = "send" => DoSendMsg(n, task.link, task.msg)
     /\ UNCHANGED <<async, wire, rcv, got, asked>>

\* uv_try_write: what the kernel takes; while it takes nothing, or the
\* connection is not made, the loop tries again.
Room(n, l) == IF conn[n][l] = "open" THEN Cap - Len(wire[Peer(n)][l]) ELSE 0

Write(n) ==
  LET l == loop[n].link
      rest == loop[n].rest
  IN /\ loop[n].at = "write"
     /\ \E k \in 1 .. Room(n, l) :
          /\ k <= Len(rest)
          /\ wire' = [wire EXCEPT ![Peer(n)][l] = @ \o SubSeq(rest, 1, k)]
          /\ loop' = IF k = Len(rest) THEN AfterTask(n)
                     ELSE [loop EXCEPT ![n].rest = SubSeq(rest, k + 1, Len(rest))]
     /\ UNCHANGED <<tasks, async, conn, backlog, shut, rcv, events, sent, got, asked>>

\* The peer has closed: the write fails.
WriteFails(n) ==
  /\ loop[n].at = "write" /\ conn[n][loop[n].link] = "open" /\ shut[Peer(n)][loop[n].link]
  /\ Close(n, loop[n].link) /\ loop' = AfterTask(n)
  /\ UNCHANGED <<tasks, async, wire, rcv, sent, got, asked>>

OnUvConnect(l) ==
  /\ loop["client"].at = "idle" /\ conn["client"][l] = "connecting"
  /\ \/ /\ conn' = [conn EXCEPT !["client"][l] = "open"] /\ Report("client", l, "connected")
        /\ UNCHANGED <<shut, backlog>>
     \/ Closing /\ Close("client", l)
  /\ UNCHANGED <<tasks, async, loop, wire, rcv, sent, got, asked>>

OnUvConnection(l) ==
  /\ loop["server"].at = "idle" /\ l \in backlog /\ backlog' = backlog \ {l}
  /\ \/ /\ conn' = [conn EXCEPT !["server"][l] = "open"] /\ Report("server", l, "connected")
        /\ UNCHANGED shut
     \/ /\ Closing /\ Report("server", l, "disconnected")
        /\ shut' = [shut EXCEPT !["server"][l] = TRUE] /\ UNCHANGED conn
  /\ UNCHANGED <<tasks, async, loop, wire, rcv, sent, got, asked>>

\* The whole messages of a buffer, and where they end.
Whole(buf) ==
  LET cut[pos \in 0 .. Len(buf)] ==
        IF pos + 2 <= Len(buf) /\ pos + 2 + buf[pos + 1].msg <= Len(buf)
        THEN [msgs |-> <<buf[pos + 1].msg>> \o cut[pos + 2 + buf[pos + 1].msg].msgs,
              end |-> cut[pos + 2 + buf[pos + 1].msg].end]
        ELSE [msgs |-> <<>>, end |-> pos]
  IN cut[0]

(* Fault: the buffer is not cut. *)
LeftAll(buf, end) == buf

Left(buf, end) == SubSeq(buf, end + 1, Len(buf))

OnUvRead(n, l) ==
  /\ loop[n].at = "idle" /\ conn[n][l] = "open"
  /\ \/ \E k \in 1 .. Len(wire[n][l]) :
          LET buf == rcv[n][l] \o SubSeq(wire[n][l], 1, k)
          IN /\ wire' = [wire EXCEPT ![n][l] = SubSeq(@, k + 1, Len(@))]
             /\ rcv' = [rcv EXCEPT ![n][l] = Left(buf, Whole(buf).end)]
             /\ got' = [got EXCEPT ![n][l] = @ \o Whole(buf).msgs]
             /\ UNCHANGED <<conn, shut, backlog, events>>
     \/ /\ wire[n][l] = <<>> /\ shut[Peer(n)][l]
        /\ Close(n, l) /\ UNCHANGED <<wire, rcv, got>>
  /\ UNCHANGED <<tasks, async, loop, sent, asked>>

Loop(n) ==
  \/ Wake(n) \/ NoTask(n) \/ GetTask(n) \/ Write(n) \/ WriteFails(n)
  \/ \E l \in All : OnUvRead(n, l)

Client == Loop("client") \/ \E l \in All : OnUvConnect(l)
Server == Loop("server") \/ \E l \in All : OnUvConnection(l)

User == \E l \in All : Connect(l) \/ \E n \in Nodes : Disconnect(n, l) \/ SendMsg(n, l)

Next == User \/ Client \/ Server

Spec == Init /\ [][Next]_vars /\ WF_vars(Client) /\ WF_vars(Server)

-----------------------------------------------------------------------------
TypeOK ==
  /\ backlog \subseteq All
  /\ \A n \in Nodes, l \in All :
       /\ conn[n][l] \in {"none", "connecting", "open"} /\ Len(wire[n][l]) <= Cap
       /\ rcv[n][l] # <<>> => rcv[n][l][1].kind = "head"

\* However the kernel cuts the stream, the messages come whole and in order
\* (OnUvRead's buffer).
MessagesInOrder ==
  \A n \in Nodes, l \in All : IsPrefix(got[n][l], sent[Peer(n)][l])

\* A connection is reported at most once, its end once and last, and it is in
\* the map exactly between the two, whichever of a write, a read, a task or a
\* failed connect ends it (test_networking.cpp:91-93 counts the reports).
ReportedOnce ==
  \A n \in Nodes, l \in All :
    /\ events[n][l] \in {<<>>, <<"connected">>, <<"disconnected">>,
                         <<"connected", "disconnected">>}
    /\ conn[n][l] = "open" <=> events[n][l] = <<"connected">>

\* A message that SendMsg took is received, unless the connection ends
\* (test_networking.cpp:85-92).
Ended(l) == \E n \in Nodes : "disconnected" \in {events[n][l][i] : i \in 1 .. Len(events[n][l])}
Received ==
  \A n \in Nodes, l \in All :
    asked[n][l] # <<>> ~> (Ended(l) \/ Len(got[Peer(n)][l]) = Len(asked[n][l]))
=============================================================================
