---------------------------- MODULE EngineCapture ----------------------------
(***************************************************************************)
(* The notes of an operation (output/channel.ts) and the window in which   *)
(* the warnings of the upgrade-safety engine become notes of it            *)
(* (output/engine.ts): console.error is swapped while the engine runs, and *)
(* what it wrote is relayed once the swap is gone.                         *)
(*                                                                         *)
(* JavaScript runs one turn at a time: while a window is open nothing else *)
(* runs. A sink may be the console itself, so a relayed note may go where  *)
(* console.error goes.                                                     *)
(***************************************************************************)
EXTENDS Naturals, Sequences

CONSTANTS
  Channel,     \* the channels, one of each operation
  None,        \* no call is active
  Cap,         \* RECORDED_NOTE_CAP
  Open, Lost,  \* of an operation: it has not ended; it failed
  MaxSaid      \* bound of an instance: how much is said about an operation

ASSUME CaptureAssumption == Cap \in Nat /\ MaxSaid \in Nat /\ None \notin Channel

VARIABLES
  live,        \* the operations that are under way
  sinks,       \* the logger of each channel
  console,     \* whose console.error is: 0 is the original, i the stub of window i
  activeCall,  \* the channel of the open window, or None
  windows,     \* the calls of captureEngineWarnings on the stack, the innermost last
  appended,    \* the notes of each channel
  suppressed,  \* how many it dropped
  silenced,    \* silenceWarnings was called
  unsettled,   \* operations whose engine call returned a promise that still runs
  terminal,    \* whose line the terminal shows last; one of the engine's is "engine" when
               \* it was written inside a window and "uncaptured" when outside of one
  said,        \* everything the engine, in windows, and the operation said (a history)
  handed       \* what the caller of each operation was handed

chans == <<appended, suppressed>>
captureVars == <<live, sinks, console, activeCall, windows, appended, suppressed, silenced,
                 unsettled, terminal, said, handed>>

\* What upgrades-core writes: a warning, a note, or something of neither form.
Texts == {"Warning", "Note", "other"}

\* What stands unknown is recorded as the stricter of the two.
code(text) == IF text = "Note" THEN "engine-note" ELSE "engine-warning"

line(by, c, text) == [by |-> by, of |-> c, code |-> code(text)]

top == windows[Len(windows)]

betweenTurns == windows = <<>>

running == windows # <<>> /\ top.phase = "running"

\* A line written to console.error: on the terminal, or in the buffer of a stub (which
\* may be nobody's any more).
onTerminal(l) == IF console = 0 THEN l.by ELSE terminal

captured(ws, l) ==
  IF console \in DOMAIN ws THEN [ws EXCEPT ![console].buffer = Append(@, l)] ELSE ws

setTop(w) == [windows EXCEPT ![Len(windows)] = w]
-----------------------------------------------------------------------------
(* The channel *)

\* Only the write is silenced. It is a courtesy: a sink that throws is as good as one that
\* discards.
reaches(c) == ~silenced /\ sinks[c] = "console"

\* Mutant: a note that is not going to be written is not kept either.
silencedDegraded(c, n) ==
  IF reaches(c) /\ Len(appended[c]) < Cap
  THEN appended' = [appended EXCEPT ![c] = Append(@, n)] /\ UNCHANGED suppressed
  ELSE suppressed' = [suppressed EXCEPT ![c] = @ + 1] /\ UNCHANGED appended

degraded(c, n) ==
  IF Len(appended[c]) < Cap
  THEN appended' = [appended EXCEPT ![c] = Append(@, n)] /\ UNCHANGED suppressed
  ELSE suppressed' = [suppressed EXCEPT ![c] = @ + 1] /\ UNCHANGED appended

\* The truncation note is made when the notes are read.
recorded(c) == [notes |-> appended[c], suppressed |-> suppressed[c]]
-----------------------------------------------------------------------------
(* An operation *)

Create(c) ==
  /\ betweenTurns /\ c \notin live /\ handed[c] = Open
  /\ live' = live \cup {c}
  /\ \E s \in {"console", "discards"} : sinks' = [sinks EXCEPT ![c] = s]
  /\ UNCHANGED <<console, activeCall, windows, chans, silenced, unsettled, terminal, said, handed>>

\* The operation states a degradation of its own.
Degrade(c) ==
  /\ betweenTurns /\ c \in live
  /\ Len(said[c]) < MaxSaid
  /\ LET n == line("operation", c, "other")
     IN /\ degraded(c, n)
        /\ said' = [said EXCEPT ![c] = Append(@, n)]
        /\ terminal' = IF reaches(c) /\ Len(appended[c]) < Cap THEN onTerminal([by |-> "channel"])
                       ELSE terminal
  /\ UNCHANGED <<live, sinks, console, activeCall, windows, silenced, unsettled, handed>>

Finish(c) ==
  /\ betweenTurns /\ c \in live
  /\ live' = live \ {c}
  /\ handed' = [handed EXCEPT ![c] = recorded(c)]
  /\ UNCHANGED <<sinks, console, activeCall, windows, chans, silenced, unsettled, terminal, said>>
-----------------------------------------------------------------------------
(* The window *)

\* Mutant: a window may be opened inside another.
nests(c) == TRUE

mayOpen(c) == activeCall = None

OpenWindow(c) ==
  /\ c \in live
  /\ betweenTurns \/ running
  /\ mayOpen(c)
  /\ windows' = Append(windows, [channel |-> c, saved |-> console, buffer |-> <<>>,
                                 phase |-> "running", error |-> "none"])
  /\ console' = Len(windows) + 1
  /\ activeCall' = c
  /\ UNCHANGED <<live, sinks, chans, silenced, unsettled, terminal, said, handed>>

\* A window opened while one is open is refused, which the outer call does not survive.
RefuseNested(c) ==
  /\ c \in live /\ running
  /\ ~mayOpen(c)
  /\ windows' = setTop([top EXCEPT !.phase = "leaving", !.error = "reentrant"])
  /\ UNCHANGED <<live, sinks, console, activeCall, chans, silenced, unsettled, terminal, said, handed>>

EngineWrites(text) ==
  /\ running
  /\ Len(said[top.channel]) < MaxSaid
  /\ LET l == line("engine", top.channel, text)
     IN /\ windows' = captured(windows, l)
        /\ terminal' = onTerminal(l)
        /\ said' = [said EXCEPT ![top.channel] = Append(@, l)]
  /\ UNCHANGED <<live, sinks, console, activeCall, chans, silenced, unsettled, handed>>

\* The engine's function returns, throws, or returns a promise: that is refused, but it
\* runs on.
EngineLeaves(error) ==
  /\ running
  /\ windows' = setTop([top EXCEPT !.phase = "leaving", !.error = error])
  /\ unsettled' = IF error = "not synchronous" THEN unsettled \cup {top.channel} ELSE unsettled
  /\ UNCHANGED <<live, sinks, console, activeCall, chans, silenced, terminal, said, handed>>

restored(w) == w.saved

Restore ==
  /\ windows # <<>> /\ top.phase = "leaving"
  /\ console' = restored(top)
  /\ activeCall' = None
  /\ windows' = setTop([top EXCEPT !.phase = "flushing"])
  /\ UNCHANGED <<live, sinks, chans, silenced, unsettled, terminal, said, handed>>

\* Mutant: what was written is relayed while the swap still stands.
flushesEarly(w) == w.phase \in {"leaving", "flushing"} /\ w.buffer # <<>>

flushes(w) == w.phase = "flushing" /\ w.buffer # <<>>

\* One captured line becomes a note of the window's channel.
Relay ==
  /\ windows # <<>> /\ flushes(top)
  /\ LET c == top.channel
         rest == setTop([top EXCEPT !.buffer = Tail(@)])
         out == line("channel", c, "Warning")
     IN /\ degraded(c, Head(top.buffer))
        /\ IF reaches(c) /\ Len(appended[c]) < Cap
           THEN windows' = captured(rest, out) /\ terminal' = onTerminal(out)
           ELSE windows' = rest /\ UNCHANGED terminal
  /\ UNCHANGED <<live, sinks, console, activeCall, silenced, unsettled, said, handed>>

\* captureEngineWarnings ends; whatever it threw fails the operation.
Return ==
  /\ windows # <<>> /\ top.phase = "flushing" /\ top.buffer = <<>>
  /\ windows' = SubSeq(windows, 1, Len(windows) - 1)
  /\ live' = IF top.error = "none" THEN live ELSE live \ {top.channel}
  /\ handed' = IF top.error = "none" THEN handed ELSE [handed EXCEPT ![top.channel] = Lost]
  /\ UNCHANGED <<sinks, console, activeCall, chans, silenced, unsettled, terminal, said>>
-----------------------------------------------------------------------------
(* Everybody else *)

silenceWarnings ==
  /\ betweenTurns /\ ~silenced
  /\ silenced' = TRUE
  /\ UNCHANGED <<live, sinks, console, activeCall, windows, chans, unsettled, terminal, said, handed>>

\* TronBox, or another package, writes to console.error.
OthersWrite ==
  /\ betweenTurns
  /\ terminal' = onTerminal([by |-> "others"])
  /\ UNCHANGED <<live, sinks, console, activeCall, windows, chans, silenced, unsettled, said, handed>>

\* What a refused promise still writes is not captured.
LateWrite(c) ==
  /\ betweenTurns /\ c \in unsettled
  /\ unsettled' = unsettled \ {c}
  /\ terminal' = onTerminal([by |-> "uncaptured"])
  /\ UNCHANGED <<live, sinks, console, activeCall, windows, chans, silenced, said, handed>>

\* Nor is a warning of an asynchronous export: an operation awaits addProxyToManifest,
\* and the engine says, with no window open, that an admin was deployed before.
uncapturedEngineWarnings(c) ==
  /\ betweenTurns /\ c \in live
  /\ terminal' = onTerminal([by |-> "uncaptured"])
  /\ UNCHANGED <<live, sinks, console, activeCall, windows, chans, silenced, unsettled, said, handed>>

CaptureInit ==
  /\ live = {}
  /\ sinks = [c \in Channel |-> "discards"]
  /\ console = 0
  /\ activeCall = None
  /\ windows = <<>>
  /\ appended = [c \in Channel |-> <<>>]
  /\ suppressed = [c \in Channel |-> 0]
  /\ silenced = FALSE
  /\ unsettled = {}
  /\ terminal = "blank"
  /\ said = [c \in Channel |-> <<>>]
  /\ handed = [c \in Channel |-> Open]

CaptureNext ==
  \/ \E c \in Channel :
       Create(c) \/ Degrade(c) \/ Finish(c) \/ OpenWindow(c) \/ RefuseNested(c)
         \/ LateWrite(c) \/ uncapturedEngineWarnings(c)
  \/ \E text \in Texts : EngineWrites(text)
  \/ \E error \in {"none", "thrown", "not synchronous"} : EngineLeaves(error)
  \/ Restore \/ Relay \/ Return
  \/ silenceWarnings \/ OthersWrite

CaptureSpec == CaptureInit /\ [][CaptureNext]_captureVars
-----------------------------------------------------------------------------
(* Properties *)

\* What is said about an operation.
Notes == [by : {"engine", "operation", "channel"}, of : Channel,
          code : {"engine-note", "engine-warning"}]

\* Type correctness; a channel keeps at most Cap notes, and the operations that failed
\* hand over none.
CaptureTypeOK ==
  /\ live \subseteq Channel
  /\ activeCall \in Channel \cup {None}
  /\ console \in 0..Len(windows)
  /\ \A c \in Channel :
       /\ Len(appended[c]) \in 0..Cap
       /\ suppressed[c] \in Nat
       /\ suppressed[c] > 0 => Len(appended[c]) = Cap
       /\ c \in live => handed[c] = Open
  /\ terminal \in {"blank", "channel", "others", "engine", "uncaptured"}

\* console.error is a stub exactly while one window is open, and it is that window's:
\* whatever the engine did, between turns the original is back (engine.ts:357).
SwapIsPrivate ==
  /\ Len(windows) <= 1
  /\ IF windows # <<>> /\ windows[1].phase \in {"running", "leaving"}
     THEN console = 1 /\ activeCall = windows[1].channel /\ windows[1].saved = 0
     ELSE console = 0 /\ activeCall = None

\* Inside a window no write goes astray: what the engine says there never reaches the
\* terminal as it stands, and nothing anybody else says, nor the engine outside of the
\* operation's own window, becomes a note (engine.ts:419).  What the engine says outside
\* of one does reach the terminal (engine.ts:160), and the property does not deny it.
WritesGoWhereTheyBelong ==
  /\ CaptureTypeOK
  /\ terminal # "engine"
  /\ \A i \in DOMAIN windows : \A k \in DOMAIN windows[i].buffer :
       windows[i].buffer[k].by = "engine" /\ windows[i].buffer[k].of = windows[i].channel

\* The notes handed over are what was said, in order, up to the cap, with the final count
\* of the rest - "nothing added, reordered, deduplicated or dropped" (channel.ts:219).
Ledger == INSTANCE NoteLedger WITH
  Channel <- Channel, Note <- Notes, Cap <- Cap, Open <- Open, Lost <- Lost,
  said <- said, handed <- handed

KeepsTheLedger == Ledger!LedgerSpec
=============================================================================
