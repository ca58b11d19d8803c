----------------------------- MODULE PageEngine -----------------------------
(***************************************************************************)
(* The page service of the journals: clients register at a socket, ask for *)
(* pages through a shared table of messages, and the service keeps every   *)
(* page that is in use mapped and locked.  A thread scans the table; the   *)
(* tasks (a check for clients whose process is gone, and a spare page made *)
(* ready) run under the same mutex as the requests.                        *)
(*                                                                         *)
(* One journal, one journal per client; a client's name may be used again  *)
(* by a later process (a life of the client).  The socket's handler and    *)
(* the clients are not in the repository: they follow PageCommStruct.h.    *)
(***************************************************************************)
EXTENDS Integers, FiniteSets, FiniteSetsExt

CONSTANTS
  Clients,     \* client names
  Writers,     \* those that write
  Requests,    \* the pages each client may ask for
  Existing,    \* the pages there are at the start
  Slots,       \* MAX_COMM_USER_NUMBER
  Lives,       \* bound of the processes of a name
  MaxRequests, \* bound of the requests
  DiesAsking,  \* may a process end while its request is open
  Removes,     \* is remove_task called
  Stops        \* is the service stopped

PageEngineAssumption ==
  /\ Writers \subseteq Clients /\ Slots \in Nat \ {0} /\ Lives \in Nat /\ MaxRequests \in Nat
  /\ DiesAsking \in BOOLEAN /\ Removes \in BOOLEAN /\ Stops \in BOOLEAN

VARIABLES
  client,     \* each client's process: [pc, life, idx]
  exits,      \* exit messages under way, of a life of a client
  registered, \* clientJournals: [life, idx] of each registered client (life is the hash)
  slot,       \* the table of messages
  maxIdx,     \* the last slot ever used
  files,      \* the page files
  addrs,      \* fileAddrs: the mapped pages, Spare among them
  writers,    \* fileWriterCounts, 0 for no entry
  readers,    \* fileReaderCounts
  comm,       \* start_comm: [pc, idx]
  tasks,      \* the tasks' names
  removed,    \* the tasks that remove_task was asked to remove
  state,      \* "running", "stopping" (is_task_running is false), "stopped"
  asked

clientVars == <<client, exits, asked>>
tableVars == <<registered, slot, maxIdx>>
pageVars == <<files, addrs, writers, readers>>
service == <<tasks, removed, state>>
vars == <<clientVars, tableVars, pageVars, comm, service>>

Pages == UNION {Requests[c] : c \in Clients}
Idx == 0 .. Slots - 1
RawSlot == [status |-> "raw", page |-> 0, last |-> 0, writer |-> FALSE]
Spare == 0   \* the temp page's place in the sets of pages
NotRegistered == [life |-> 0, idx |-> {}]
Refused == {"non_exist", "more_than_one_write"}

Init ==
  /\ client = [c \in Clients |-> [pc |-> "new", life |-> 1, idx |-> -1]]
  /\ exits = {} /\ asked = 0
  /\ registered = [c \in Clients |-> NotRegistered]
  /\ slot = [i \in Idx |-> RawSlot] /\ maxIdx = 0
  /\ files = Existing /\ addrs = {}
  /\ writers = [p \in Pages |-> 0] /\ readers = [p \in Pages |-> 0]
  /\ comm = [pc |-> "look", idx |-> 0]
  /\ tasks = {"PidCheck", "TempPage"} /\ removed = {} /\ state = "running"

Alive(c, life) == client[c].life = life /\ client[c].pc # "dead"

-----------------------------------------------------------------------------
(* Requests at the socket. *)

RegClient(c) ==
  /\ client[c].pc = "new" /\ registered[c] = NotRegistered
  /\ registered' = [registered EXCEPT ![c] = [life |-> client[c].life, idx |-> {}]]
  /\ client' = [client EXCEPT ![c].pc = "registered"]
  /\ UNCHANGED <<exits, asked, slot, maxIdx, pageVars, comm, service>>

FreeSlots == {i \in Idx : slot[i].status = "raw"}

RegJournal(c) ==
  /\ client[c].pc = "registered"
  /\ IF FreeSlots = {}
     THEN /\ client' = [client EXCEPT ![c].pc = "refused"] /\ UNCHANGED tableVars
     ELSE LET i == Min(FreeSlots)
          IN /\ slot' = [slot EXCEPT ![i].status = "occupied", ![i].last = 0]
             /\ maxIdx' = Max({maxIdx, i})
             /\ registered' = [registered EXCEPT ![c].idx = @ \cup {i}]
             /\ client' = [client EXCEPT ![c].pc = "using", ![c].idx = i]
  /\ UNCHANGED <<exits, asked, pageVars, comm, service>>

-----------------------------------------------------------------------------
(* The client and its message. *)

Hold(c) ==
  LET i == client[c].idx
  IN /\ client[c].pc = "using" /\ slot[i].status = "occupied"
     /\ slot' = [slot EXCEPT ![i].status = "holding", ![i].writer = c \in Writers]
     /\ UNCHANGED <<clientVars, registered, maxIdx, pageVars, comm, service>>

Request(c) ==
  LET i == client[c].idx
  IN /\ client[c].pc = "using" /\ asked < MaxRequests /\ asked' = asked + 1
     /\ slot[i].status \in {"holding", "allocated"} \cup Refused
     /\ \E p \in Requests[c] :
          /\ slot[i].status = "allocated" => p # slot[i].page
          /\ slot' = [slot EXCEPT ![i].page = p, ![i].status = "requesting"]
     /\ UNCHANGED <<client, exits, registered, maxIdx, pageVars, comm, service>>

\* A process ends, with or without an exit message; another may take its name.
End(c) ==
  /\ client[c].pc # "dead"
  /\ (~DiesAsking /\ client[c].pc = "using") => slot[client[c].idx].status # "requesting"
  /\ exits' \in {exits, exits \cup {<<c, client[c].life>>}}
  /\ client' = [client EXCEPT ![c].pc = "dead", ![c].idx = -1]
  /\ UNCHANGED <<asked, tableVars, pageVars, comm, service>>

Restart(c) ==
  /\ client[c].pc = "dead" /\ client[c].life < Lives
  /\ client' = [client EXCEPT ![c] = [pc |-> "new", life |-> client[c].life + 1, idx |-> -1]]
  /\ UNCHANGED <<exits, asked, tableVars, pageVars, comm, service>>

-----------------------------------------------------------------------------
(* The service.  Its pages as one record, changed by release_page and      *)
(* initiate_page in turn.                                                  *)

Held == [files |-> files, addrs |-> addrs, writers |-> writers, readers |-> readers]

(* Fault: the last user of one side unmaps the page. *)
ReleasePageOneSide(h, p, writer) ==
  LET counts == IF writer THEN h.writers ELSE h.readers
      left == IF writer THEN [h EXCEPT !.writers[p] = @ - 1] ELSE [h EXCEPT !.readers[p] = @ - 1]
  IN IF counts[p] = 0 THEN h
     ELSE IF counts[p] = 1 THEN [left EXCEPT !.addrs = @ \ {p}] ELSE left

ReleasePage(h, p, writer) ==
  LET counts == IF writer THEN h.writers ELSE h.readers
      left == IF writer THEN [h EXCEPT !.writers[p] = @ - 1] ELSE [h EXCEPT !.readers[p] = @ - 1]
  IN IF counts[p] = 0 THEN h
     ELSE IF left.writers[p] = 0 /\ left.readers[p] = 0 THEN [left EXCEPT !.addrs = @ \ {p}]
     ELSE left

\* A new file is the spare page, renamed, when there is one.
Mapped(h, p) ==
  IF p \in h.addrs THEN h
  ELSE IF p \in h.files THEN [h EXCEPT !.addrs = @ \cup {p}]
  ELSE [h EXCEPT !.files = (@ \ {Spare}) \cup {p}, !.addrs = (@ \ {Spare}) \cup {p}]

(* Fault: a page that is there already counts as asked by another writer only. *)
InitiatePageAgain(h, p, writer) ==
  IF p \notin h.addrs /\ p \notin h.files /\ ~writer THEN [pages |-> h, status |-> "non_exist"]
  ELSE [pages |-> Mapped(h, p), status |-> "allocated"]

InitiatePage(h, p, writer) ==
  IF p \notin h.addrs /\ p \notin h.files /\ ~writer THEN [pages |-> h, status |-> "non_exist"]
  ELSE LET m == Mapped(h, p)
       IN IF ~writer THEN [pages |-> [m EXCEPT !.readers[p] = @ + 1], status |-> "allocated"]
          ELSE IF m.writers[p] = 0
          THEN [pages |-> [m EXCEPT !.writers[p] = 1], status |-> "allocated"]
          ELSE [pages |-> m, status |-> "more_than_one_write"]

SetPages(h) ==
  /\ files' = h.files /\ addrs' = h.addrs /\ writers' = h.writers /\ readers' = h.readers

(* Fault: the table is scanned up to the last slot, not with it. *)
NextIdxShort == (comm.idx + 1) % Max({1, maxIdx})

NextIdx == (comm.idx + 1) % (maxIdx + 1)

(* Fault: comm_running is not looked at. *)
LookOn ==
  /\ comm.pc = "look"
  /\ comm' = IF slot[comm.idx].status = "requesting" THEN [comm EXCEPT !.pc = "serve"]
             ELSE [comm EXCEPT !.idx = NextIdx]
  /\ UNCHANGED <<clientVars, tableVars, pageVars, service>>

\* start_comm looks at a message without the mutex...
Look ==
  /\ comm.pc = "look"
  /\ IF state = "stopped" THEN comm' = [comm EXCEPT !.pc = "ended"]
     ELSE IF slot[comm.idx].status = "requesting" THEN comm' = [comm EXCEPT !.pc = "serve"]
     ELSE comm' = [comm EXCEPT !.idx = NextIdx]
  /\ UNCHANGED <<clientVars, tableVars, pageVars, service>>

\* ... and serves it with the mutex: the client's previous page is released.
Serve ==
  LET i == comm.idx
      s == slot[i]
      h == IF s.last > 0 /\ s.last # s.page THEN ReleasePage(Held, s.last, s.writer) ELSE Held
      r == InitiatePage(h, s.page, s.writer)
  IN /\ comm.pc = "serve" /\ comm' = [pc |-> "look", idx |-> NextIdx]
     /\ SetPages(r.pages)
     /\ slot' = [slot EXCEPT ![i].status = r.status, ![i].last = s.page]
     /\ UNCHANGED <<clientVars, registered, maxIdx, service>>

\* exit_client: the pages of the client's messages are released.
ExitClients(gone) ==
  LET freed == UNION {registered[c].idx : c \in gone}
      used == {i \in freed : slot[i].status = "allocated"}
  IN /\ SetPages(FoldSet(LAMBDA i, h : ReleasePage(h, slot[i].page, slot[i].writer), Held, used))
     /\ slot' = [i \in Idx |-> IF i \in freed THEN [slot[i] EXCEPT !.status = "raw"] ELSE slot[i]]
     /\ registered' = [c \in Clients |-> IF c \in gone THEN NotRegistered ELSE registered[c]]

\* A client's exit message: of the process that is registered, by its hash.
Exit(c, life) ==
  /\ <<c, life>> \in exits /\ exits' = exits \ {<<c, life>>}
  /\ IF registered[c].life = life THEN ExitClients({c})
     ELSE UNCHANGED <<registered, slot, pageVars>>
  /\ UNCHANGED <<client, asked, maxIdx, comm, service>>

\* PstPidCheck::go
PidCheck ==
  LET gone == {c \in Clients : registered[c] # NotRegistered /\ ~Alive(c, registered[c].life)}
  IN /\ "PidCheck" \in tasks /\ state = "running" /\ gone # {}
     /\ ExitClients(gone)
     /\ UNCHANGED <<clientVars, maxIdx, comm, service>>

\* PstTempPage::go
TempPage ==
  /\ "TempPage" \in tasks /\ state = "running" /\ Spare \notin addrs
  /\ files' = files \cup {Spare} /\ addrs' = addrs \cup {Spare}
  /\ UNCHANGED <<clientVars, tableVars, writers, readers, comm, service>>

\* remove_task_by_name: only a task it has not found would be erased.
RemoveTask(name) ==
  /\ Removes /\ name \in tasks /\ state = "running"
  /\ removed' = removed \cup {name}
  /\ UNCHANGED <<clientVars, tableVars, pageVars, comm, tasks, state>>

\* A signal, then the task loop's end stops the other threads and joins them.
Stop ==
  /\ Stops /\ state = "running" /\ state' = "stopping"
  /\ UNCHANGED <<clientVars, tableVars, pageVars, comm, tasks, removed>>

StopAll ==
  /\ state = "stopping" /\ state' = "stopped"
  /\ UNCHANGED <<clientVars, tableVars, pageVars, comm, tasks, removed>>

Comm == Look \/ Serve
Tasks == PidCheck \/ TempPage

Next ==
  \/ \E c \in Clients : RegClient(c) \/ RegJournal(c) \/ Hold(c) \/ Request(c) \/ End(c) \/ Restart(c)
  \/ \E c \in Clients, life \in 1 .. Lives : Exit(c, life)
  \/ Comm \/ Tasks \/ Stop \/ StopAll
  \/ \E name \in {"PidCheck", "TempPage"} : RemoveTask(name)

\* The service's threads run; nothing makes a client act.
Spec == Init /\ [][Next]_vars /\ WF_vars(Comm) /\ WF_vars(PidCheck) /\ WF_vars(TempPage)
        /\ WF_vars(StopAll)

-----------------------------------------------------------------------------
TypeOK ==
  /\ \A i \in Idx : slot[i].status \in {"raw", "occupied", "holding", "requesting", "allocated"}
                                          \cup Refused
  /\ addrs \subseteq Pages \cup {Spare} /\ files \subseteq Pages \cup {Spare}
  /\ writers \in [Pages -> Nat] /\ readers \in [Pages -> Nat]
  /\ maxIdx \in Idx /\ comm.idx \in Idx

Users(p, writer) ==
  {i \in Idx : slot[i].status = "allocated" /\ slot[i].page = p /\ slot[i].writer = writer}

\* Between two holders of the mutex the counts are the clients' pages, over
\* requests, refusals, moves to another page, exits and deaths: fileWriterCounts
\* is the "file attached with number of writers" (PageEngine.h).  A message
\* being asked for stands for the page it had.
Leaving(p, writer) ==
  {i \in Idx : slot[i].status = "requesting" /\ slot[i].last = p /\ slot[i].writer = writer}
CountsAreUsers ==
  \A p \in Pages :
    /\ Cardinality(Users(p, TRUE)) <= writers[p]
    /\ writers[p] <= Cardinality(Users(p, TRUE) \cup Leaving(p, TRUE))
    /\ Cardinality(Users(p, FALSE)) <= readers[p]
    /\ readers[p] <= Cardinality(Users(p, FALSE) \cup Leaving(p, FALSE))

\* A page a client uses is mapped and locked, and one that nobody uses is not
\* (release_page, initiate_page).
MappedWhileUsed ==
  /\ \A i \in Idx : slot[i].status = "allocated" => slot[i].page \in addrs
  /\ \A p \in addrs \ {Spare} : writers[p] + readers[p] > 0

\* A message is one registered client's, until the client is gone (reg_journal,
\* exit_client): none is lost to the table, and none is freed under a client.
SlotsAreOwned ==
  /\ \A i \in Idx : slot[i].status # "raw" <=> \E c \in Clients : i \in registered[c].idx
  /\ \A c, d \in Clients : c # d => registered[c].idx \cap registered[d].idx = {}

\* A page that is asked for is answered (start_comm).
Answered == \A i \in Idx : slot[i].status = "requesting" ~> slot[i].status # "requesting"

\* A stopped service's threads end (stop_all joins them).
StopEnds == state = "stopping" ~> comm.pc = "ended"

\* remove_task: "return true if exits and removed" (PageEngine.h).
TaskIsRemoved == removed \cap tasks = {}
=============================================================================
