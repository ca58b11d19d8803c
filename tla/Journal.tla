------------------------------ MODULE Journal ------------------------------
(***************************************************************************)
(* The journal (component yijinjing): a queue of frames in memory-mapped   *)
(* pages that processes share.  A writer appends to one journal and never  *)
(* waits; a reader follows one or several journals, merged by time.  The   *)
(* OMS and the strategies talk through journals.                           *)
(*                                                                         *)
(* A page is a row of cells.  A frame takes one cell or more, the first is *)
(* its header; the others hold its data, whose bytes may look like a       *)
(* header.  Stores reach the shared memory in the order of the code.       *)
(***************************************************************************)
EXTENDS Integers, Sequences, FiniteSets, SequencesExt, FiniteSetsExt

CONSTANTS
  Journals,    \* the reader's journals, in the order they were added
  Writers,     \* the processes with a JournalWriter
  JournalOf,   \* the journal each writes
  Room,        \* cells of a page before PAGE_MIN_HEADROOM
  Lengths,     \* the frames' lengths
  Starts,      \* what the reader may seek: "first", "last", "now"
  MaxPages,    \* bound of the pages
  MaxFrames,   \* bound of the frames begun
  MaxCrashes   \* bound of the writers' crashes

JournalAssumption ==
  /\ JournalOf \in [Writers -> ToSet(Journals)]
  /\ Room \in Nat \ {0} /\ Lengths \subseteq Nat \ {0}
  /\ MaxPages \in Nat \ {0} /\ MaxFrames \in Nat /\ MaxCrashes \in Nat

VARIABLES
  pages,      \* the files: [state, start, cells] of each journal's pages
  clock,      \* getNanoTime
  writer,     \* each writer's step, its Page's number and position, its frame
  reader,     \* the reader's step, start time, Page of each journal, best frame
  written,    \* history: the frames each journal holds, as [id, nano]
  got,        \* history: the frames the reader got from each journal
  nanos,      \* history: the times of the frames the reader got
  crashes

vars == <<pages, clock, writer, reader, written, got, nanos, crashes>>

Names == ToSet(Journals)
Raw == 0
Written == 1
PageEnd == 2
Cells == 1 .. Room + Max(Lengths)
Zero == [status |-> Raw, nano |-> 0, length |-> 0, id |-> 0]
Data(status) == [status |-> status, nano |-> 0, length |-> 1, id |-> 0]
NoFrame == [nano |-> 0, length |-> 0, id |-> 0]
NoPage == [num |-> 0, pos |-> 1]

Init ==
  /\ pages = [j \in Names |-> [n \in 1 .. MaxPages |->
       [state |-> "missing", start |-> 0, cells |-> [c \in Cells |-> Zero]]]]
  /\ clock = 1
  /\ writer = [w \in Writers |-> [pc |-> "down", page |-> NoPage, load |-> 0, frame |-> NoFrame]]
  /\ reader = [pc |-> "down", start |-> 0, at |-> 1, best |-> 0, nano |-> 0,
               page |-> [j \in Names |-> NoPage], expired |-> [j \in Names |-> FALSE]]
  /\ written = [j \in Names |-> <<>>] /\ got = [j \in Names |-> <<>>] /\ nanos = <<>>
  /\ crashes = 0

-----------------------------------------------------------------------------
(* Page and PageUtil *)

GetPageNums(j) == {n \in 1 .. MaxPages : pages[j][n].state # "missing"}

GetPageNumWithTime(j, time) ==
  LET before == {n \in GetPageNums(j) : pages[j][n].start < time}
  IN IF before = {} THEN 1 ELSE Max(before)

PassWrittenFrame(cells, from) ==
  LET pass[pos \in Nat] ==
        IF pos \in Cells /\ cells[pos].status = Written
        THEN pass[pos + cells[pos].length] ELSE pos
  IN pass[from]

PassToTime(cells, time) ==
  LET pass[pos \in Nat] ==
        IF pos \in Cells /\ cells[pos].status = Written /\ cells[pos].nano < time
        THEN pass[pos + cells[pos].length] ELSE pos
  IN pass[1]

\* What a reader gets of a page: null when there is no such file or when its
\* writer has not initialised it.
Load(j, n) ==
  IF n \in 1 .. MaxPages /\ pages[j][n].state = "inited" THEN [num |-> n, pos |-> 1] ELSE NoPage

IsAtPageEnd(j, page) == pages[j][page.num].cells[page.pos].status = PageEnd

LocateReadableFrame(j, page) == pages[j][page.num].cells[page.pos].status = Written

LocateWritableFrame(j, page) ==
  pages[j][page.num].cells[page.pos].status = Raw /\ page.pos <= Room

-----------------------------------------------------------------------------
(* JournalWriter *)

Set(w, state) == writer' = [writer EXCEPT ![w] = state]

SetPage(w, n, page) == pages' = [pages EXCEPT ![JournalOf[w]][n] = page]

SetCell(w, cell, value) ==
  pages' = [pages EXCEPT ![JournalOf[w]][writer[w].page.num].cells[cell] = value]

\* JournalWriter::create: the writer seeks the end of the journal.
SeekEnd(w) ==
  LET nums == GetPageNums(JournalOf[w])
  IN /\ writer[w].pc = "down"
     /\ Set(w, [writer[w] EXCEPT !.pc = "open", !.load = IF nums = {} THEN 1 ELSE Max(nums)])
     /\ UNCHANGED <<pages, clock, reader, written, got, nanos, crashes>>

\* open with O_CREAT, then a byte written at the end to stretch the file.
LoadPageBuffer(w) ==
  LET me == writer[w]
      page == pages[JournalOf[w]][me.load]
  IN /\ \/ me.pc = "open" /\ Set(w, [me EXCEPT !.pc = "stretch"])
           /\ SetPage(w, me.load, IF page.state = "missing" THEN [page EXCEPT !.state = "empty"]
                                  ELSE page)
        \/ me.pc = "stretch" /\ Set(w, [me EXCEPT !.pc = "header"])
           /\ SetPage(w, me.load, IF page.state = "empty" THEN [page EXCEPT !.state = "raw"]
                                  ELSE page)
     /\ UNCHANGED <<clock, reader, written, got, nanos, crashes>>

\* Page::load of a writer.  The first page of a writer is the one it has
\* sought; any other follows a page to be finished.
LoadPage(w) ==
  LET me == writer[w]
      page == pages[JournalOf[w]][me.load]
      loaded == [num |-> me.load, pos |-> PassWrittenFrame(page.cells, 1)]
  IN /\ me.pc = "header"
     /\ IF page.state = "raw"
        THEN /\ SetPage(w, me.load, [page EXCEPT !.state = "inited", !.start = clock])
             /\ clock' = clock + 1
        ELSE UNCHANGED <<pages, clock>>
     /\ Set(w, IF me.page = NoPage THEN [me EXCEPT !.pc = "locate", !.page = loaded]
               ELSE [me EXCEPT !.pc = "finish"])
     /\ UNCHANGED <<reader, written, got, nanos, crashes>>

(* Fault: the page is closed before the next one is there. *)
FinishPageFirst(w) ==
  LET me == writer[w]
  IN /\ me.page # NoPage
     /\ \/ me.pc = "open"
           /\ pages[JournalOf[w]][me.page.num].cells[me.page.pos].status # PageEnd
           /\ SetCell(w, me.page.pos,
                [pages[JournalOf[w]][me.page.num].cells[me.page.pos] EXCEPT !.status = PageEnd])
           /\ UNCHANGED writer
        \/ me.pc = "finish" /\ UNCHANGED pages
           /\ Set(w, [me EXCEPT !.pc = "locate", !.page = [num |-> me.load, pos |-> 1]])
     /\ UNCHANGED <<clock, reader, written, got, nanos, crashes>>

(* Fault: the page is left as it is. *)
FinishPageNever(w) ==
  /\ writer[w].pc = "finish"
  /\ Set(w, [writer[w] EXCEPT !.pc = "locate", !.page = [num |-> writer[w].load, pos |-> 1]])
  /\ UNCHANGED <<pages, clock, reader, written, got, nanos, crashes>>

\* Page::finishPage, then curPage becomes the new page.
FinishPage(w) ==
  LET me == writer[w]
  IN /\ me.pc = "finish"
     /\ SetCell(w, me.page.pos,
          [pages[JournalOf[w]][me.page.num].cells[me.page.pos] EXCEPT !.status = PageEnd])
     /\ Set(w, [me EXCEPT !.pc = "locate", !.page = [num |-> me.load, pos |-> 1]])
     /\ UNCHANGED <<clock, reader, written, got, nanos, crashes>>

\* write_frame takes the time first.
WriteFrame(w) ==
  /\ writer[w].pc = "idle" /\ clock' = clock + 1
  /\ \E length \in Lengths :
       Set(w, [writer[w] EXCEPT !.pc = "locate",
               !.frame = [nano |-> clock, length |-> length, id |-> clock]])
  /\ UNCHANGED <<pages, reader, written, got, nanos, crashes>>

\* Journal::locateFrame of a writer: past the frames that are there, to the
\* next page when this one is full.  seekEnd locates a frame, and leaves it.
LocateFrame(w) ==
  LET me == writer[w]
      j == JournalOf[w]
      page == [me.page EXCEPT !.pos = PassWrittenFrame(pages[j][me.page.num].cells, me.page.pos)]
  IN /\ me.pc = "locate"
     /\ Set(w, IF LocateWritableFrame(j, page)
               THEN [me EXCEPT !.page = page, !.load = 0,
                     !.pc = IF me.frame = NoFrame THEN "idle" ELSE "data"]
               ELSE [me EXCEPT !.page = page, !.pc = "open", !.load = page.num + 1])
     /\ UNCHANGED <<pages, clock, reader, written, got, nanos, crashes>>

\* Frame::setData: the data, and the frame's length.
SetData(w) ==
  LET me == writer[w]
      pos == me.page.pos
      old == pages[JournalOf[w]][me.page.num].cells
  IN /\ me.pc = "data" /\ Set(w, [me EXCEPT !.pc = "nano"])
     /\ \E status \in {Raw, Written} :
          pages' = [pages EXCEPT ![JournalOf[w]][me.page.num].cells = [c \in Cells |->
            IF c = pos THEN [old[c] EXCEPT !.length = me.frame.length, !.id = me.frame.id]
            ELSE IF c \in pos + 1 .. pos + me.frame.length - 1 THEN Data(status) ELSE old[c]]]
     /\ UNCHANGED <<clock, reader, written, got, nanos, crashes>>

SetNano(w) ==
  LET me == writer[w]
  IN /\ me.pc = "nano" /\ Set(w, [me EXCEPT !.pc = "next"])
     /\ SetCell(w, me.page.pos,
          [pages[JournalOf[w]][me.page.num].cells[me.page.pos] EXCEPT !.nano = me.frame.nano])
     /\ UNCHANGED <<clock, reader, written, got, nanos, crashes>>

(* Fault: the status of the next frame is left as it is. *)
ClearNextNever(w) ==
  /\ writer[w].pc = "next" /\ Set(w, [writer[w] EXCEPT !.pc = "status"])
  /\ UNCHANGED <<pages, clock, reader, written, got, nanos, crashes>>

\* Frame::setStatusWritten, first store: the status of the frame after this
\* one, where an earlier writer may have left data.
ClearNext(w) ==
  LET me == writer[w]
      next == me.page.pos + me.frame.length
  IN /\ me.pc = "next" /\ Set(w, [me EXCEPT !.pc = "status"])
     /\ SetCell(w, next, [pages[JournalOf[w]][me.page.num].cells[next] EXCEPT !.status = Raw])
     /\ UNCHANGED <<clock, reader, written, got, nanos, crashes>>

\* Second store: the frame can be read.  Then passFrame.
SetStatusWritten(w) ==
  LET me == writer[w]
      j == JournalOf[w]
  IN /\ me.pc = "status"
     /\ SetCell(w, me.page.pos,
          [pages[j][me.page.num].cells[me.page.pos] EXCEPT !.status = Written])
     /\ Set(w, [me EXCEPT !.pc = "idle", !.frame = NoFrame,
                !.page.pos = me.page.pos + me.frame.length])
     /\ written' = [written EXCEPT ![j] =
          Append(@, [id |-> me.frame.id, nano |-> me.frame.nano])]
     /\ UNCHANGED <<clock, reader, got, nanos, crashes>>

-----------------------------------------------------------------------------
(* JournalReader *)

Read(state) == reader' = state /\ UNCHANGED <<pages, writer, written, crashes>>

\* JournalReader::create, and the time of its jumpStart: 0 is TIME_FROM_FIRST
\* and -1 TIME_TO_LAST.
Create ==
  /\ reader.pc = "down"
  /\ \/ "first" \in Starts /\ Read([reader EXCEPT !.pc = "seek", !.start = 0]) /\ UNCHANGED clock
     \/ "last" \in Starts /\ Read([reader EXCEPT !.pc = "seek", !.start = -1]) /\ UNCHANGED clock
     \/ "now" \in Starts /\ Read([reader EXCEPT !.pc = "seek", !.start = clock])
        /\ clock' = clock + 1
  /\ UNCHANGED <<got, nanos>>

\* A reader that maps a page whose writer has not stretched the file yet gets
\* a bus error when it looks at the header: it has sought the last page, or
\* the only one.
Faults(j, nums) ==
  /\ nums # {}
  /\ pages[j][CASE reader.start = -1 -> Max(nums)
                [] reader.start = 0  -> Min(nums)
                [] OTHER             -> GetPageNumWithTime(j, reader.start)].state = "empty"

\* Journal::seekTime.
SeekTime ==
  LET j == Journals[reader.at]
      nums == GetPageNums(j)
      sought == CASE reader.start = -1 -> Load(j, IF nums = {} THEN 1 ELSE Max(nums))
                  [] reader.start = 0  -> Load(j, IF nums = {} THEN 1 ELSE Min(nums))
                  [] OTHER             -> Load(j, GetPageNumWithTime(j, reader.start))
      page == CASE sought = NoPage     -> NoPage
                [] reader.start = -1   -> [sought EXCEPT !.pos =
                                             PassWrittenFrame(pages[j][sought.num].cells, 1)]
                [] reader.start = 0    -> sought
                [] OTHER               -> [sought EXCEPT !.pos =
                                             PassToTime(pages[j][sought.num].cells, reader.start)]
  IN /\ reader.pc = "seek"
     /\ Read([reader EXCEPT !.page[j] = page, !.expired[j] = (page = NoPage),
              !.pc = IF Faults(j, nums) THEN "fault"
                     ELSE IF reader.at = Len(Journals) THEN "next" ELSE "seek",
              !.at = IF reader.at = Len(Journals) THEN 1 ELSE reader.at + 1])
     /\ UNCHANGED <<clock, got, nanos>>

\* Journal::loadNextPage of a reader.
LoadNextPage(j) ==
  IF reader.page[j] = NoPage THEN Load(j, 1)
  ELSE IF IsAtPageEnd(j, reader.page[j]) THEN Load(j, reader.page[j].num + 1)
  ELSE reader.page[j]

\* JournalReader::getNextFrame, one journal of its loop: the frame of the
\* smallest time is kept.
LocateNext ==
  LET j == Journals[reader.at]
      page == IF reader.expired[j] THEN reader.page[j] ELSE LoadNextPage(j)
      found == ~reader.expired[j] /\ page # NoPage /\ LocateReadableFrame(j, page)
      nano == IF found THEN pages[j][page.num].cells[page.pos].nano ELSE 0
      better == found /\ (reader.best = 0 \/ nano < reader.nano)
  IN /\ reader.pc = "next"
     /\ Read([reader EXCEPT !.page[j] = page,
              !.best = IF better THEN reader.at ELSE @, !.nano = IF better THEN nano ELSE @,
              !.pc = IF reader.at = Len(Journals) THEN "pass" ELSE "next",
              !.at = IF reader.at = Len(Journals) THEN 1 ELSE reader.at + 1])
     /\ UNCHANGED <<clock, got, nanos>>

\* The loop's end: the frame found is passed and returned.
PassFrame ==
  LET j == Journals[reader.best]
      page == reader.page[j]
      header == pages[j][page.num].cells[page.pos]
  IN /\ reader.pc = "pass"
     /\ IF reader.best = 0
        THEN Read([reader EXCEPT !.pc = "next"]) /\ UNCHANGED <<got, nanos>>
        ELSE /\ Read([reader EXCEPT !.pc = "next", !.best = 0, !.nano = 0,
                      !.page[j].pos = page.pos + header.length])
             /\ got' = [got EXCEPT ![j] = Append(@, [id |-> header.id, nano |-> header.nano])]
             /\ nanos' = Append(nanos, header.nano)
     /\ UNCHANGED clock

\* The writer's process is killed; a new one may start.
Crash(w) ==
  /\ writer[w].pc # "down" /\ crashes < MaxCrashes /\ crashes' = crashes + 1
  /\ Set(w, [pc |-> "down", page |-> NoPage, load |-> 0, frame |-> NoFrame])
  /\ UNCHANGED <<pages, clock, reader, written, got, nanos>>

\* The bound of the runs: the pages and frames that fit it.
Fits(w) ==
  /\ writer[w].pc = "idle" =>
       Cardinality({v \in Writers : writer[v].frame # NoFrame})
         + FoldSet(LAMBDA j, n : n + Len(written[j]), 0, Names) < MaxFrames
  /\ writer[w].pc = "open" => writer[w].load <= MaxPages

WriterStep(w) ==
  \/ SeekEnd(w) \/ LoadPageBuffer(w) \/ LoadPage(w) \/ FinishPage(w) \/ WriteFrame(w)
  \/ LocateFrame(w) \/ SetData(w) \/ SetNano(w) \/ ClearNext(w) \/ SetStatusWritten(w)

ReaderStep == Create \/ SeekTime \/ LocateNext \/ PassFrame

Next ==
  \/ \E w \in Writers : (Fits(w) /\ WriterStep(w)) \/ Crash(w)
  \/ ReaderStep

\* A reader polls for ever, and a writer's call goes on to its end.
InCall(w) == writer[w].pc \notin {"down", "idle"} /\ Fits(w)

Spec ==
  /\ Init /\ [][Next]_vars /\ WF_vars(ReaderStep)
  /\ \A w \in Writers : WF_vars(InCall(w) /\ WriterStep(w))

-----------------------------------------------------------------------------
TypeOK ==
  /\ \A w \in Writers : /\ writer[w].page.num \in 0 .. MaxPages
                        /\ writer[w].page.pos \in Cells
  /\ \A j \in Names : /\ reader.page[j].num \in 0 .. MaxPages /\ reader.page[j].pos \in Cells
                      /\ \A n \in 1 .. MaxPages :
                           pages[j][n].state \in {"missing", "empty", "raw", "inited"}
  /\ crashes \in 0 .. MaxCrashes

\* The frames that a walk over the pages finds, in order.
PageFrames(cells) ==
  LET walk[pos \in Nat] ==
        IF pos \in Cells /\ cells[pos].status = Written
        THEN <<[id |-> cells[pos].id, nano |-> cells[pos].nano]>> \o walk[pos + cells[pos].length]
        ELSE <<>>
  IN walk[1]

Frames(j) == FlattenSeq([n \in 1 .. MaxPages |-> PageFrames(pages[j][n].cells)])

\* The journal's pages hold the frames that were written, whole and in order,
\* whatever step of a write a crash interrupts and whatever the next writer
\* writes over what it left (Frame::setStatusWritten's "make sure next frame
\* won't be wrongly read").
HoldsWhatWasWritten == \A j \in Names : Frames(j) = written[j]

\* The reader gets each journal's frames as they were written: no frame twice
\* or torn, none left out from the first, and none before the first that it
\* was to get (Journal::seekTime, loadNextPage, getNextFrame).
ReadsWhatWasWritten ==
  \A j \in Names : got[j] # <<>> =>
    \E skipped \in 0 .. Len(written[j]) :
      /\ skipped + Len(got[j]) <= Len(written[j])
      /\ got[j] = SubSeq(written[j], skipped + 1, skipped + Len(got[j]))
      /\ reader.start # -1 => \A i \in 1 .. skipped : written[j][i].nano < reader.start

GotIt(id) == \E j \in Names : \E f \in ToSet(got[j]) : f.id = id
Ids == 1 .. 2 * MaxFrames + 1

\* A frame that is written is read, by a reader that follows its journal and
\* started before the frame's time (or reads from the first frame).
EveryFrameIsRead ==
  \A id \in Ids :
    (/\ reader.pc \in {"next", "pass"} /\ reader.start # -1
     /\ \E j \in Names : ~reader.expired[j] /\
          \E f \in ToSet(written[j]) : f.id = id /\ f.nano >= reader.start) ~> GotIt(id)

\* The trader is started before the strategies, and gets the commands that
\* they write then: a frame begun after the reader's start is read.
LaterFramesAreRead ==
  \A id \in Ids :
    (/\ reader.pc \in {"next", "pass"}
     /\ \E w \in Writers : writer[w].frame.id = id /\ id > reader.start) ~> GotIt(id)

\* A reader that seeks in a journal with a page finds it: "if the page is
\* inited with null, means reader and no journal at all" (Journal::seekTime).
SeekFindsJournal ==
  [][\A j \in Names : (reader.pc = "seek" /\ j = Journals[reader.at] /\ GetPageNums(j) # {}
       /\ reader' # reader) => ~reader'.expired[j] /\ reader'.pc # "fault"]_vars

\* The frames of several journals come as one stream in the order of their
\* times.
MergedInOrder == \A i \in 1 .. Len(nanos) - 1 : nanos[i] <= nanos[i + 1]
=============================================================================
