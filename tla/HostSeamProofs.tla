---------------------------- MODULE HostSeamProofs ----------------------------
(***************************************************************************)
(* Proofs about the two seams at which this package runs inside its host:  *)
(* EngineCapture, the console it borrows while the engine runs, for every  *)
(* set of channels, every cap and every amount that is said; and           *)
(* QueueBridge, the migration queue it puts promises over, for every set   *)
(* of steps and every choice of the ones that go through the bridge.       *)
(***************************************************************************)
EXTENDS EngineCapture, QueueBridge, SequenceTheorems, TLAPS

-----------------------------------------------------------------------------
(* The inductive invariant *)

Phase == {"running", "leaving", "flushing"}

\* What an open window holds: lines of the engine, said about its own channel.
Window == [channel : Channel, saved : {0}, buffer : Seq(Notes), phase : Phase,
           error : {"none", "thrown", "not synchronous", "reentrant"}]

OwnLines(w) == \A k \in DOMAIN w.buffer : w.buffer[k].by = "engine" /\ w.buffer[k].of = w.channel

\* There is never a window inside another one.
OneWindow == windows = << >> \/ \E w \in Window : windows = <<w>> /\ OwnLines(w)

\* While it runs or is left, the window owns console.error; before, between and after
\* nobody does.  Nothing the engine wrote inside a window is on the terminal.
CaptureInv ==
  /\ OneWindow
  /\ live \subseteq Channel
  /\ SwapIsPrivate
  /\ terminal \in {"blank", "channel", "others", "uncaptured"}

-----------------------------------------------------------------------------
(* The stack with one window on it *)

\* The top of the stack.
LEMMA OnlyWindow ==
  ASSUME NEW w, windows = <<w>>
  PROVE  windows # << >> /\ top = w /\ Len(windows) = 1 /\ windows[1] = w /\ DOMAIN windows = {1}
BY DEF top

\* An open window holds lines of its own.
LEMMA OwnWindow ==
  ASSUME CaptureInv, NEW w, windows = <<w>>
  PROVE  w \in Window /\ OwnLines(w)
<1>1. PICK v \in Window : windows = <<v>> /\ OwnLines(v)
  BY OnlyWindow DEF CaptureInv, OneWindow
<1> QED BY <1>1

\* The stack with its window replaced.
LEMMA SetsWindow ==
  ASSUME NEW w, windows = <<w>>, NEW v
  PROVE  setTop(v) = <<v>>
BY DEF setTop

\* A window keeps its shape when one field is set.
LEMMA FlushingType ==
  ASSUME NEW w \in Window, NEW v, v = [w EXCEPT !.phase = "flushing"]
  PROVE  v \in Window /\ v.channel = w.channel /\ v.buffer = w.buffer /\ v.phase = "flushing"
BY DEF Window, Phase

LEMMA BufferType ==
  ASSUME NEW w \in Window, NEW b \in Seq(Notes), NEW v, v = [w EXCEPT !.buffer = b]
  PROVE  v \in Window /\ v.channel = w.channel /\ v.buffer = b /\ v.phase = w.phase
BY DEF Window

\* What the engine and the channel say about an operation is a note of it.
LEMMA LineType ==
  ASSUME NEW by \in {"engine", "operation", "channel"}, NEW c \in Channel, NEW text
  PROVE  line(by, c, text) \in Notes /\ line(by, c, text).by = by /\ line(by, c, text).of = c
BY DEF line, code, Notes

\* A window that keeps its channel and stays in the half of its life it is in.
LEMMA WindowStays ==
  ASSUME CaptureInv, NEW w \in Window, windows = <<w>>,
         NEW v \in Window, windows' = <<v>>, OwnLines(v),
         v.channel = w.channel, (v.phase = "flushing") = (w.phase = "flushing"),
         console' = console, activeCall' = activeCall,
         live' \subseteq Channel, terminal' \in {"blank", "channel", "others", "uncaptured"}
  PROVE  CaptureInv'
<1>1. windows[1] = w /\ windows'[1] = v /\ windows # << >> /\ windows' # << >> /\ Len(windows') = 1
  OBVIOUS
<1>2. v.saved = 0 /\ v.phase \in Phase /\ w.phase \in Phase
  BY DEF Window
<1>3. SwapIsPrivate'
  BY <1>1, <1>2 DEF CaptureInv, SwapIsPrivate, Phase
<1>4. OneWindow'
  BY DEF OneWindow, OwnLines
<1> QED BY <1>3, <1>4 DEF CaptureInv

-----------------------------------------------------------------------------
(* What the steps of an engine call do to the stack *)

\* A window opens on an empty stack only, with an empty buffer.
LEMMA Opens ==
  ASSUME CaptureInv, NEW c \in Channel, OpenWindow(c)
  PROVE  /\ windows = << >> /\ console' = 1 /\ activeCall' = c
         /\ \E v \in Window : /\ windows' = <<v>> /\ v.channel = c
                              /\ v.buffer = << >> /\ v.phase = "running"
<1>1. windows = << >>
  <2> SUFFICES ASSUME NEW w \in Window, windows = <<w>> PROVE FALSE
    BY DEF CaptureInv, OneWindow
  <2>1. w.phase = "running" /\ activeCall = None
    BY OnlyWindow DEF OpenWindow, betweenTurns, running, mayOpen
  <2>2. activeCall = w.channel
    BY <2>1, OnlyWindow DEF CaptureInv, SwapIsPrivate
  <2> QED BY <2>1, <2>2, CaptureAssumption DEF Window
<1>2. console = 0
  BY <1>1 DEF CaptureInv, SwapIsPrivate
<1> DEFINE v == [channel |-> c, saved |-> 0, buffer |-> << >>,
                phase |-> "running", error |-> "none"]
<1>3. v \in Window /\ v.channel = c /\ v.buffer = << >> /\ v.phase = "running"
  BY DEF Window, Phase
<1>4. windows' = <<v>> /\ console' = 1 /\ activeCall' = c
  BY <1>1, <1>2 DEF OpenWindow
<1> QED BY <1>1, <1>3, <1>4

\* A call ends, or is refused one inside it, with its buffer as it stands.
LEMMA Leaves ==
  ASSUME CaptureInv,
         \/ \E c \in Channel : RefuseNested(c)
         \/ \E error \in {"none", "thrown", "not synchronous"} : EngineLeaves(error)
  PROVE  \E w, v \in Window :
           /\ windows = <<w>> /\ windows' = <<v>> /\ w.phase = "running" /\ v.phase = "leaving"
           /\ v.channel = w.channel /\ v.buffer = w.buffer
<1>1. PICK e \in {"none", "thrown", "not synchronous", "reentrant"} :
        running /\ windows' = setTop([top EXCEPT !.phase = "leaving", !.error = e])
  BY DEF RefuseNested, EngineLeaves
<1>2. PICK w \in Window : windows = <<w>>
  BY <1>1 DEF CaptureInv, OneWindow, running
<1>3. PICK v : v = [w EXCEPT !.phase = "leaving", !.error = e]
  OBVIOUS
<1>4. windows' = <<v>>
  BY <1>1, <1>2, <1>3, OnlyWindow, SetsWindow
<1>5. v \in Window /\ v.channel = w.channel /\ v.buffer = w.buffer /\ v.phase = "leaving"
  <2>1. v.channel = w.channel /\ v.buffer = w.buffer /\ v.phase = "leaving"
    BY <1>3 DEF Window
  <2>2. v \in Window
    BY <1>3 DEF Window, Phase
  <2> QED
    BY <2>1, <2>2
<1>6. w.phase = "running"
  BY <1>1, <1>2, OnlyWindow DEF running
<1> QED BY <1>2, <1>4, <1>5, <1>6

LEMMA Restores ==
  ASSUME CaptureInv, Restore
  PROVE  \E w, v \in Window :
           /\ windows = <<w>> /\ windows' = <<v>> /\ w.phase = "leaving" /\ v.phase = "flushing"
           /\ v.channel = w.channel /\ v.buffer = w.buffer /\ console' = 0
<1>1. PICK w \in Window : windows = <<w>>
  BY DEF CaptureInv, OneWindow, Restore
<1>2. PICK v : v = [w EXCEPT !.phase = "flushing"]
  OBVIOUS
<1>3. windows' = <<v>> /\ w.phase = "leaving" /\ console' = w.saved
  BY <1>1, <1>2, OnlyWindow, SetsWindow DEF Restore, restored
<1>4. v \in Window /\ v.channel = w.channel /\ v.buffer = w.buffer /\ v.phase = "flushing"
  BY <1>2, FlushingType
<1>5. w.saved = 0
  BY DEF Window
<1> QED BY <1>1, <1>3, <1>4, <1>5

\* What the engine writes goes into the buffer of its window, and nowhere else.
LEMMA Writes ==
  ASSUME CaptureInv, NEW text \in Texts, EngineWrites(text)
  PROVE  \E w, v \in Window, l \in Notes :
           /\ windows = <<w>> /\ windows' = <<v>> /\ w.phase = "running" /\ v.phase = "running"
           /\ v.channel = w.channel /\ v.buffer = Append(w.buffer, l)
           /\ l.by = "engine" /\ l.of = w.channel
           /\ said' = [said EXCEPT ![w.channel] = Append(@, l)] /\ terminal' = terminal
<1>1. PICK w \in Window : windows = <<w>>
  BY DEF CaptureInv, OneWindow, EngineWrites, running
<1>2. /\ top = w /\ windows[1] = w /\ 1 \in DOMAIN windows
      /\ w.channel \in Channel /\ w.buffer \in Seq(Notes)
  BY <1>1, OnlyWindow DEF Window
<1>3. PICK l : l = line("engine", w.channel, text)
  OBVIOUS
<1>4. l \in Notes /\ l.by = "engine" /\ l.of = w.channel
  BY <1>2, <1>3, LineType
<1>5. /\ w.phase = "running" /\ windows' = captured(windows, l)
      /\ terminal' = onTerminal(l) /\ said' = [said EXCEPT ![w.channel] = Append(@, l)]
  BY <1>2, <1>3 DEF EngineWrites, running
<1>6. console = 1
  BY <1>2, <1>5 DEF CaptureInv, SwapIsPrivate
<1> DEFINE b == Append(w.buffer, l)
           v == [w EXCEPT !.buffer = b]
<1>7. b \in Seq(Notes)
  BY <1>2, <1>4
<1>8. captured(windows, l) = [windows EXCEPT ![1].buffer = b]
  BY <1>2, <1>6 DEF captured
<1> HIDE DEF b
<1>9. windows' = <<v>>
  BY <1>1, <1>5, <1>8
<1> HIDE DEF v
<1>10. v \in Window /\ v.buffer = b /\ v.channel = w.channel /\ v.phase = w.phase
  BY <1>7, BufferType DEF v
<1>11. terminal' = terminal
  BY <1>5, <1>6 DEF onTerminal
<1> QED BY <1>1, <1>4, <1>5, <1>9, <1>10, <1>11 DEF b

\* A line is relayed into the notes only, although the channel itself may write.
LEMMA Relays ==
  ASSUME CaptureInv, Relay
  PROVE  \E w, v \in Window :
           /\ windows = <<w>> /\ windows' = <<v>> /\ w.phase = "flushing" /\ v.phase = "flushing"
           /\ v.channel = w.channel /\ w.buffer # << >> /\ v.buffer = Tail(w.buffer)
           /\ degraded(w.channel, Head(w.buffer))
           /\ terminal' = terminal \/ terminal' = "channel"
<1>1. PICK w \in Window : windows = <<w>>
  BY DEF CaptureInv, OneWindow, Relay
<1>2. /\ top = w /\ windows[1] = w /\ windows # << >>
      /\ w.channel \in Channel /\ w.buffer \in Seq(Notes)
      /\ w.phase = "flushing" /\ w.buffer # << >>
  BY <1>1, OnlyWindow DEF Relay, flushes, Window
<1>3. console = 0
  BY <1>2 DEF CaptureInv, SwapIsPrivate
<1> DEFINE b == Tail(w.buffer)
           v == [top EXCEPT !.buffer = Tail(@)]
           out == line("channel", w.channel, "Warning")
<1>4. b \in Seq(Notes)
  BY <1>2
<1>5. out.by = "channel"
  BY <1>2, LineType
<1>6. v = [w EXCEPT !.buffer = b]
  BY <1>2
<1>7. degraded(w.channel, Head(w.buffer))
  BY <1>2 DEF Relay
<1> HIDE DEF b, v, out
<1>8. setTop(v) = <<v>>
  BY <1>1, SetsWindow
<1>9. v \in Window /\ v.channel = w.channel /\ v.phase = w.phase /\ v.buffer = b
  BY <1>4, <1>6, BufferType
<1>10. captured(<<v>>, out) = <<v>>
  <2>1. 0 \notin DOMAIN <<v>>
    OBVIOUS
  <2> QED BY <1>3, <2>1, Zenon DEF captured
<1>11. top.channel = w.channel
  BY <1>2
<1>12. windows' = <<v>> /\ (terminal' = terminal \/ terminal' = onTerminal(out))
  BY <1>8, <1>10, <1>11, Zenon DEF Relay, v, out
<1>13. terminal' = terminal \/ terminal' = "channel"
  BY <1>5, <1>12 DEF onTerminal
<1> QED BY <1>1, <1>2, <1>7, <1>9, <1>12, <1>13 DEF b

LEMMA Returns ==
  ASSUME CaptureInv, Return
  PROVE  \E w \in Window :
           /\ windows = <<w>> /\ windows' = << >> /\ w.phase = "flushing" /\ w.buffer = << >>
           /\ live' = IF w.error = "none" THEN live ELSE live \ {w.channel}
           /\ handed' = IF w.error = "none" THEN handed ELSE [handed EXCEPT ![w.channel] = Lost]
<1>1. PICK w \in Window : windows = <<w>>
  BY DEF CaptureInv, OneWindow, Return
<1>2. top = w /\ Len(windows) = 1
  BY <1>1, OnlyWindow
<1>3. windows' = << >>
  BY <1>1, <1>2 DEF Return
<1>4. /\ w.phase = "flushing" /\ w.buffer = << >>
      /\ live' = IF w.error = "none" THEN live ELSE live \ {w.channel}
      /\ handed' = IF w.error = "none" THEN handed ELSE [handed EXCEPT ![w.channel] = Lost]
  BY <1>2 DEF Return
<1> QED BY <1>1, <1>3, <1>4

-----------------------------------------------------------------------------
(* Every step keeps the invariant *)

LEMMA InitCapture == CaptureInit => CaptureInv
BY DEF CaptureInit, CaptureInv, OneWindow, SwapIsPrivate

LEMMA StepCapture == CaptureInv /\ [CaptureNext]_captureVars => CaptureInv'
<1> SUFFICES ASSUME CaptureInv, [CaptureNext]_captureVars PROVE CaptureInv'
  OBVIOUS
\* Steps of everybody but the engine leave the stack and the swap alone.
<1>1. ASSUME UNCHANGED <<windows, console, activeCall>>,
             live' \subseteq Channel, terminal' \in {"blank", "channel", "others", "uncaptured"}
      PROVE  CaptureInv'
  BY <1>1 DEF CaptureInv, OneWindow, SwapIsPrivate
<1>2. CASE UNCHANGED captureVars
  BY <1>1, <1>2 DEF captureVars, chans, CaptureInv
<1>3. ASSUME NEW c \in Channel, Create(c) PROVE CaptureInv'
  BY <1>1, <1>3 DEF Create, CaptureInv
<1>4. ASSUME NEW c \in Channel, Degrade(c) PROVE CaptureInv'
  BY <1>1, <1>4 DEF Degrade, CaptureInv, onTerminal
<1>5. ASSUME NEW c \in Channel, Finish(c) PROVE CaptureInv'
  BY <1>1, <1>5 DEF Finish, CaptureInv
<1>6. ASSUME NEW c \in Channel, LateWrite(c) PROVE CaptureInv'
  BY <1>1, <1>6 DEF LateWrite, CaptureInv, onTerminal
<1>15. ASSUME NEW c \in Channel, uncapturedEngineWarnings(c) PROVE CaptureInv'
  BY <1>1, <1>15 DEF uncapturedEngineWarnings, CaptureInv, onTerminal
<1>7. CASE silenceWarnings
  BY <1>1, <1>7 DEF silenceWarnings, CaptureInv
<1>8. CASE OthersWrite
  BY <1>1, <1>8 DEF OthersWrite, CaptureInv, onTerminal
<1>9. ASSUME NEW c \in Channel, OpenWindow(c) PROVE CaptureInv'
  <2>1. PICK v \in Window : /\ windows' = <<v>> /\ v.channel = c
                            /\ v.buffer = << >> /\ v.phase = "running"
    BY <1>9, Opens
  <2>2. windows'[1] = v /\ windows' # << >> /\ Len(windows') = 1 /\ v.saved = 0
    BY <2>1 DEF Window
  <2>3. console' = 1 /\ activeCall' = c /\ live' = live /\ terminal' = terminal
    BY <1>9, Opens DEF OpenWindow
  <2>4. OwnLines(v)
    BY <2>1 DEF OwnLines
  <2>5. OneWindow'
    BY <2>1, <2>4 DEF OneWindow
  <2>6. SwapIsPrivate'
    BY <2>1, <2>2, <2>3 DEF SwapIsPrivate
  <2> QED BY <2>3, <2>5, <2>6 DEF CaptureInv
<1>10. CASE \/ \E c \in Channel : RefuseNested(c)
            \/ \E error \in {"none", "thrown", "not synchronous"} : EngineLeaves(error)
  <2>1. PICK w, v \in Window :
          /\ windows = <<w>> /\ windows' = <<v>> /\ w.phase = "running" /\ v.phase = "leaving"
          /\ v.channel = w.channel /\ v.buffer = w.buffer
    BY <1>10, Leaves
  <2>2. OwnLines(v)
    BY <2>1, OwnWindow DEF OwnLines
  <2>3. UNCHANGED <<console, activeCall, live, terminal>>
    BY <1>10 DEF RefuseNested, EngineLeaves
  <2> QED BY <2>1, <2>2, <2>3, WindowStays DEF CaptureInv
<1>11. ASSUME NEW text \in Texts, EngineWrites(text) PROVE CaptureInv'
  <2>1. PICK w, v \in Window, l \in Notes :
          /\ windows = <<w>> /\ windows' = <<v>> /\ w.phase = "running" /\ v.phase = "running"
          /\ v.channel = w.channel /\ v.buffer = Append(w.buffer, l)
          /\ l.by = "engine" /\ l.of = w.channel /\ terminal' = terminal
    BY <1>11, Writes
  <2>2. w.buffer \in Seq(Notes) /\ OwnLines(w)
    BY <2>1, OwnWindow DEF Window
  <2>3. \A k \in DOMAIN v.buffer :
          v.buffer[k] = l \/ (k \in DOMAIN w.buffer /\ v.buffer[k] = w.buffer[k])
    BY <2>1, <2>2
  <2>4. OwnLines(v)
    BY <2>1, <2>2, <2>3 DEF OwnLines
  <2>5. UNCHANGED <<console, activeCall, live>>
    BY <1>11 DEF EngineWrites
  <2> QED BY <2>1, <2>4, <2>5, WindowStays DEF CaptureInv
<1>12. CASE Restore
  <2>1. PICK w, v \in Window :
          /\ windows = <<w>> /\ windows' = <<v>> /\ w.phase = "leaving" /\ v.phase = "flushing"
          /\ v.channel = w.channel /\ v.buffer = w.buffer /\ console' = 0
    BY <1>12, Restores
  <2>2. OwnLines(v)
    BY <2>1, OwnWindow DEF OwnLines
  <2>3. windows'[1] = v /\ windows' # << >> /\ Len(windows') = 1
    BY <2>1
  <2>4. activeCall' = None /\ live' = live /\ terminal' = terminal
    BY <1>12 DEF Restore
  <2>5. OneWindow'
    BY <2>1, <2>2 DEF OneWindow
  <2>6. SwapIsPrivate'
    BY <2>1, <2>3, <2>4 DEF SwapIsPrivate
  <2> QED BY <2>4, <2>5, <2>6 DEF CaptureInv
<1>13. CASE Relay
  <2>1. PICK w, v \in Window :
          /\ windows = <<w>> /\ windows' = <<v>> /\ w.phase = "flushing" /\ v.phase = "flushing"
          /\ v.channel = w.channel /\ w.buffer # << >> /\ v.buffer = Tail(w.buffer)
          /\ terminal' = terminal \/ terminal' = "channel"
    BY <1>13, Relays
  <2>2. w.buffer \in Seq(Notes) /\ OwnLines(w)
    BY <2>1, OwnWindow DEF Window
  <2>3. \A k \in DOMAIN v.buffer : k+1 \in DOMAIN w.buffer /\ v.buffer[k] = w.buffer[k+1]
    BY <2>1, <2>2
  <2>4. OwnLines(v)
    BY <2>1, <2>2, <2>3 DEF OwnLines
  <2>5. UNCHANGED <<console, activeCall, live>>
    BY <1>13 DEF Relay
  <2> QED BY <2>1, <2>4, <2>5, WindowStays DEF CaptureInv
<1>14. CASE Return
  <2>1. PICK w \in Window : windows = <<w>> /\ windows' = << >> /\ w.phase = "flushing"
    BY <1>14, Returns
  <2>2. console = 0 /\ activeCall = None
    BY <2>1, OnlyWindow DEF CaptureInv, SwapIsPrivate
  <2>3. live' \subseteq Channel /\ UNCHANGED <<console, activeCall, terminal>>
    BY <1>14 DEF Return, CaptureInv
  <2> QED BY <2>1, <2>2, <2>3 DEF CaptureInv, OneWindow, SwapIsPrivate
<1> QED
  BY <1>2, <1>3, <1>4, <1>5, <1>6, <1>7, <1>8, <1>9, <1>10, <1>11, <1>12, <1>13, <1>14, <1>15 DEF CaptureNext

-----------------------------------------------------------------------------
(* The account of an operation: what was said is kept, counted or captured *)

\* Of s, everything said about it, the first notes are the channel's, n were dropped, and
\* the last are in the buffer p.
Accounted(s, a, n, p) ==
  /\ Len(s) = Len(a) + n + Len(p)
  /\ Len(a) <= Cap
  /\ n > 0 => Len(a) = Cap
  /\ \A k \in 1..Len(a) : a[k] = s[k]
  /\ \A k \in 1..Len(p) : p[k] = s[Len(a) + n + k]

pending(c) == IF windows # << >> /\ windows[1].channel = c THEN windows[1].buffer ELSE << >>

LedgerInv ==
  /\ CaptureInv
  /\ windows # << >> => windows[1].channel \in live
  /\ said \in [Channel -> Seq(Notes)]
  /\ appended \in [Channel -> Seq(Notes)]
  /\ suppressed \in [Channel -> Nat]
  /\ DOMAIN handed = Channel
  /\ \A c \in live : handed[c] = Open
  /\ \A c \in Channel : Accounted(said[c], appended[c], suppressed[c], pending(c))

\* The engine says one thing more.
LEMMA AccountsCapture ==
  ASSUME NEW s \in Seq(Notes), NEW a \in Seq(Notes), NEW n \in Nat, NEW p \in Seq(Notes),
         NEW l \in Notes, Accounted(s, a, n, p)
  PROVE  Accounted(Append(s, l), a, n, Append(p, l))
<1> DEFINE S == Append(s, l)
           P == Append(p, l)
<1>1. /\ Len(S) = Len(s) + 1 /\ S[Len(s)+1] = l /\ \A k \in 1..Len(s) : S[k] = s[k]
      /\ Len(P) = Len(p) + 1 /\ P[Len(p)+1] = l /\ \A k \in 1..Len(p) : P[k] = p[k]
  OBVIOUS
<1>2. Len(s) \in Nat /\ Len(a) \in Nat /\ Len(p) \in Nat
  OBVIOUS
<1> HIDE DEF S, P
<1>3. \A k \in 1..Len(a) : a[k] = S[k]
  BY <1>1, <1>2 DEF Accounted
<1>4. ASSUME NEW k \in 1..Len(P) PROVE P[k] = S[Len(a) + n + k]
  <2>1. CASE k = Len(p) + 1
    BY <1>1, <1>2, <2>1 DEF Accounted
  <2>2. CASE k \in 1..Len(p)
    <3>1. Len(a) + n + k \in 1..Len(s)
      BY <1>2, <2>2 DEF Accounted
    <3> QED BY <1>1, <2>2, <3>1 DEF Accounted
  <2> QED BY <1>1, <1>2, <2>1, <2>2
<1>5. Accounted(S, a, n, P)
  BY <1>1, <1>2, <1>3, <1>4 DEF Accounted
<1> QED BY <1>5 DEF S, P

\* The first captured line becomes a note, or is counted.
LEMMA AccountsRelay ==
  ASSUME NEW s \in Seq(Notes), NEW a \in Seq(Notes), NEW n \in Nat, NEW p \in Seq(Notes),
         p # << >>, Accounted(s, a, n, p)
  PROVE  /\ Len(a) < Cap => Accounted(s, Append(a, Head(p)), n, Tail(p))
         /\ ~(Len(a) < Cap) => Accounted(s, a, n+1, Tail(p))
<1> DEFINE A == Append(a, Head(p))
           P == Tail(p)
<1>1. /\ Len(A) = Len(a) + 1 /\ A[Len(a)+1] = p[1] /\ \A k \in 1..Len(a) : A[k] = a[k]
      /\ Len(P) = Len(p) - 1 /\ \A k \in 1..Len(P) : P[k] = p[k+1]
  OBVIOUS
<1>2. Len(s) \in Nat /\ Len(a) \in Nat /\ Len(p) \in Nat /\ Len(p) > 0
  OBVIOUS
<1> HIDE DEF A, P
<1>3. ASSUME NEW k \in 1..Len(P) PROVE P[k] = s[Len(a) + n + k + 1]
  <2>1. k+1 \in 1..Len(p)
    BY <1>1, <1>2
  <2>2. P[k] = p[k+1] /\ p[k+1] = s[Len(a) + n + (k+1)]
    BY <1>1, <2>1 DEF Accounted
  <2>3. Len(a) + n + (k+1) = Len(a) + n + k + 1
    BY <1>2
  <2> QED BY <2>2, <2>3
<1>4. ASSUME Len(a) < Cap PROVE Accounted(s, A, n, P)
  <2>1. n = 0
    BY <1>2, <1>4, CaptureAssumption DEF Accounted
  <2>2. p[1] = s[Len(a) + 1]
    BY <1>2, <2>1 DEF Accounted
  <2>3. \A k \in 1..Len(A) : A[k] = s[k]
    BY <1>1, <1>2, <2>2 DEF Accounted
  <2>4. \A k \in 1..Len(P) : Len(A) + n + k = Len(a) + n + k + 1
    BY <1>1, <1>2
  <2> QED BY <1>1, <1>2, <1>3, <1>4, <2>1, <2>3, <2>4, CaptureAssumption DEF Accounted
<1>5. ASSUME ~(Len(a) < Cap) PROVE Accounted(s, a, n+1, P)
  <2>1. \A k \in 1..Len(P) : Len(a) + (n+1) + k = Len(a) + n + k + 1
    BY <1>1, <1>2
  <2> QED BY <1>1, <1>2, <1>3, <1>5, <2>1, CaptureAssumption DEF Accounted
<1> QED BY <1>4, <1>5 DEF A, P

\* The operation degrades with nothing captured.
LEMMA AccountsNote ==
  ASSUME NEW s \in Seq(Notes), NEW a \in Seq(Notes), NEW n \in Nat, NEW l \in Notes,
         Accounted(s, a, n, << >>)
  PROVE  /\ Len(a) < Cap => Accounted(Append(s, l), Append(a, l), n, << >>)
         /\ ~(Len(a) < Cap) => Accounted(Append(s, l), a, n+1, << >>)
<1> DEFINE S == Append(s, l)
           A == Append(a, l)
<1>1. /\ Len(S) = Len(s) + 1 /\ S[Len(s)+1] = l /\ \A k \in 1..Len(s) : S[k] = s[k]
      /\ Len(A) = Len(a) + 1 /\ A[Len(a)+1] = l /\ \A k \in 1..Len(a) : A[k] = a[k]
  OBVIOUS
<1>2. Len(s) \in Nat /\ Len(a) \in Nat /\ Len(s) = Len(a) + n
  BY DEF Accounted
<1>3. Len(<< >>) = 0
  OBVIOUS
<1> HIDE DEF S, A
<1>4. ASSUME Len(a) < Cap PROVE Accounted(S, A, n, << >>)
  <2>1. n = 0
    BY <1>2, <1>4, CaptureAssumption DEF Accounted
  <2>2. \A k \in 1..Len(A) : A[k] = S[k]
    BY <1>1, <1>2, <2>1 DEF Accounted
  <2> QED BY <1>1, <1>2, <1>3, <1>4, <2>1, <2>2, CaptureAssumption DEF Accounted
<1>5. ASSUME ~(Len(a) < Cap) PROVE Accounted(S, a, n+1, << >>)
  BY <1>1, <1>2, <1>3, <1>5, CaptureAssumption DEF Accounted
<1> QED BY <1>4, <1>5 DEF S, A

\* With nothing captured, what is recorded is what the ledger hands over.
LEMMA AccountsFinish ==
  ASSUME NEW s \in Seq(Notes), NEW a \in Seq(Notes), NEW n \in Nat, Accounted(s, a, n, << >>)
  PROVE  [notes |-> a, suppressed |-> n] = Ledger!handOver(s)
<1>1. Len(a) = IF Len(s) < Cap THEN Len(s) ELSE Cap
  BY CaptureAssumption DEF Accounted
<1>2. a = SubSeq(s, 1, Len(a))
  BY CaptureAssumption DEF Accounted
<1>3. Ledger!kept(s) = a
  BY <1>1, <1>2 DEF Ledger!kept
<1>4. n = Len(s) - Len(a)
  BY DEF Accounted
<1> QED BY <1>3, <1>4 DEF Ledger!handOver

-----------------------------------------------------------------------------
(* Every step keeps the accounts, and is a step of the ledger or none *)

LEMMA PendingOf ==
  ASSUME NEW w, windows = <<w>>, NEW c
  PROVE  pending(c) = IF w.channel = c THEN w.buffer ELSE << >>
BY DEF pending

LEMMA PendingNext ==
  ASSUME NEW v, windows' = <<v>>, NEW c
  PROVE  pending(c)' = IF v.channel = c THEN v.buffer ELSE << >>
BY DEF pending

\* One note more, or one dropped, on one channel.
LEMMA Degrades ==
  ASSUME LedgerInv, NEW c \in Channel, NEW l \in Notes, degraded(c, l)
  PROVE  /\ appended' \in [Channel -> Seq(Notes)] /\ suppressed' \in [Channel -> Nat]
         /\ \A d \in Channel : d # c => appended'[d] = appended[d] /\ suppressed'[d] = suppressed[d]
         /\ Len(appended[c]) < Cap =>
              appended'[c] = Append(appended[c], l) /\ suppressed'[c] = suppressed[c]
         /\ ~(Len(appended[c]) < Cap) =>
              appended'[c] = appended[c] /\ suppressed'[c] = suppressed[c] + 1
<1>1. CASE Len(appended[c]) < Cap
  <2>1. appended' = [appended EXCEPT ![c] = Append(appended[c], l)] /\ suppressed' = suppressed
    BY <1>1 DEF degraded
  <2>2. Append(appended[c], l) \in Seq(Notes)
    BY DEF LedgerInv
  <2> QED BY <1>1, <2>1, <2>2 DEF LedgerInv
<1>2. CASE ~(Len(appended[c]) < Cap)
  <2>1. suppressed' = [suppressed EXCEPT ![c] = suppressed[c] + 1] /\ appended' = appended
    BY <1>2 DEF degraded
  <2> QED BY <1>2, <2>1 DEF LedgerInv
<1> QED BY <1>1, <1>2

\* Nothing is said, noted or handed over, and what is captured stays.
LEMMA LedgerStays ==
  ASSUME LedgerInv, CaptureInv', UNCHANGED <<said, appended, suppressed, handed>>,
         \A c \in Channel : pending(c)' = pending(c),
         windows' # << >> => windows'[1].channel \in live', \A c \in live' : handed[c] = Open
  PROVE  LedgerInv'
BY DEF LedgerInv

LEMMA InitLedger == CaptureInit => LedgerInv /\ Ledger!LedgerInit
<1> SUFFICES ASSUME CaptureInit PROVE LedgerInv /\ Ledger!LedgerInit
  OBVIOUS
<1>1. CaptureInv
  BY InitCapture
<1>2. Accounted(<< >>, << >>, 0, << >>)
  BY CaptureAssumption DEF Accounted
<1>3. \A c \in Channel : /\ said[c] = << >> /\ appended[c] = << >>
                         /\ suppressed[c] = 0 /\ pending(c) = << >>
  BY DEF CaptureInit, pending
<1>4. \A c \in Channel : Accounted(said[c], appended[c], suppressed[c], pending(c))
  BY <1>2, <1>3
<1> QED BY <1>1, <1>4 DEF CaptureInit, LedgerInv, Ledger!LedgerInit

Turned == [\E c \in Channel : Ledger!Say(c) \/ Ledger!End(c)]_(Ledger!ledgerVars)

LEMMA StepLedger == LedgerInv /\ [CaptureNext]_captureVars => LedgerInv' /\ Turned
<1> SUFFICES ASSUME LedgerInv, [CaptureNext]_captureVars PROVE LedgerInv' /\ Turned
  OBVIOUS
<1>1. CaptureInv /\ CaptureInv'
  BY StepCapture DEF LedgerInv
<1>2. ASSUME UNCHANGED <<said, handed>> PROVE Turned
  BY <1>2 DEF Turned, Ledger!ledgerVars
\* Steps beside the notes and the stack.
<1>3. ASSUME UNCHANGED <<said, appended, suppressed, handed, windows>>, live \subseteq live',
             \A c \in live' : handed[c] = Open
      PROVE  LedgerInv' /\ Turned
  <2>1. \A c \in Channel : pending(c)' = pending(c)
    BY <1>3 DEF pending
  <2>2. windows' # << >> => windows'[1].channel \in live'
    BY <1>3 DEF LedgerInv
  <2> QED BY <1>1, <1>2, <1>3, <2>1, <2>2, LedgerStays
<1>4. CASE UNCHANGED captureVars
  BY <1>3, <1>4 DEF captureVars, chans, LedgerInv
<1>5. ASSUME NEW c \in Channel, Create(c) PROVE LedgerInv' /\ Turned
  BY <1>3, <1>5 DEF Create, chans, LedgerInv
<1>6. ASSUME NEW c \in Channel, LateWrite(c) PROVE LedgerInv' /\ Turned
  BY <1>3, <1>6 DEF LateWrite, chans, LedgerInv
<1>16. ASSUME NEW c \in Channel, uncapturedEngineWarnings(c) PROVE LedgerInv' /\ Turned
  BY <1>3, <1>16 DEF uncapturedEngineWarnings, chans, LedgerInv
<1>7. CASE silenceWarnings
  BY <1>3, <1>7 DEF silenceWarnings, chans, LedgerInv
<1>8. CASE OthersWrite
  BY <1>3, <1>8 DEF OthersWrite, chans, LedgerInv
<1>9. ASSUME NEW c \in Channel, Degrade(c) PROVE LedgerInv' /\ Turned
  <2>1. PICK l : l = line("operation", c, "other")
    OBVIOUS
  <2>2. l \in Notes
    BY <2>1, LineType
  <2>3. /\ windows = << >> /\ c \in live /\ degraded(c, l)
        /\ said' = [said EXCEPT ![c] = Append(@, l)]
        /\ UNCHANGED <<live, handed, windows>>
    BY <1>9, <2>1 DEF Degrade, betweenTurns
  <2>4. \A d \in Channel : pending(d) = << >> /\ pending(d)' = << >>
    BY <2>3 DEF pending
  <2>5. said' \in [Channel -> Seq(Notes)] /\ said'[c] = Append(said[c], l)
        /\ \A d \in Channel : d # c => said'[d] = said[d]
    BY <2>2, <2>3 DEF LedgerInv
  <2>6. /\ said[c] \in Seq(Notes) /\ appended[c] \in Seq(Notes) /\ suppressed[c] \in Nat
        /\ Accounted(said[c], appended[c], suppressed[c], << >>)
    BY <2>3, <2>4 DEF LedgerInv
  <2>7. /\ Len(appended[c]) < Cap =>
              appended'[c] = Append(appended[c], l) /\ suppressed'[c] = suppressed[c]
        /\ ~(Len(appended[c]) < Cap) =>
              appended'[c] = appended[c] /\ suppressed'[c] = suppressed[c] + 1
    BY <2>2, <2>3, Degrades
  <2>8. Accounted(said'[c], appended'[c], suppressed'[c], << >>)
    <3>1. /\ Len(appended[c]) < Cap =>
               Accounted(Append(said[c], l), Append(appended[c], l), suppressed[c], << >>)
          /\ ~(Len(appended[c]) < Cap) =>
               Accounted(Append(said[c], l), appended[c], suppressed[c] + 1, << >>)
      BY <2>2, <2>6, AccountsNote
    <3>2. CASE Len(appended[c]) < Cap
      BY <2>5, <2>7, <3>1, <3>2
    <3>3. CASE ~(Len(appended[c]) < Cap)
      BY <2>5, <2>7, <3>1, <3>3
    <3> QED BY <3>2, <3>3
  <2>9. \A d \in Channel : Accounted(said'[d], appended'[d], suppressed'[d], pending(d)')
    BY <2>2, <2>3, <2>4, <2>5, <2>8, Degrades DEF LedgerInv
  <2>10. LedgerInv'
    BY <1>1, <2>2, <2>3, <2>5, <2>9, Degrades DEF LedgerInv
  <2>11. Ledger!Say(c)
    BY <2>2, <2>3 DEF LedgerInv, Ledger!Say
  <2> QED BY <2>10, <2>11 DEF Turned
<1>10. ASSUME NEW c \in Channel, Finish(c) PROVE LedgerInv' /\ Turned
  <2>1. /\ windows = << >> /\ c \in live /\ live' = live \ {c}
        /\ handed' = [handed EXCEPT ![c] = recorded(c)]
        /\ UNCHANGED <<said, appended, suppressed, windows>>
    BY <1>10 DEF Finish, betweenTurns, chans
  <2>2. \A d \in Channel : pending(d) = << >> /\ pending(d)' = << >>
    BY <2>1 DEF pending
  <2>3. recorded(c) = Ledger!handOver(said[c])
    BY <2>2, AccountsFinish DEF recorded, LedgerInv
  <2>4. LedgerInv'
    BY <1>1, <2>1, <2>2 DEF LedgerInv
  <2>5. Ledger!End(c)
    BY <2>1, <2>3 DEF LedgerInv, Ledger!End
  <2> QED BY <2>4, <2>5 DEF Turned
<1>11. ASSUME NEW c \in Channel, OpenWindow(c) PROVE LedgerInv' /\ Turned
  <2>1. PICK v \in Window : windows' = <<v>> /\ v.channel = c /\ v.buffer = << >>
    BY <1>1, <1>11, Opens
  <2>2. windows = << >>
    BY <1>1, <1>11, Opens
  <2>3. \A d \in Channel : pending(d)' = pending(d)
    BY <2>1, <2>2, PendingNext DEF pending
  <2>4. c \in live /\ UNCHANGED <<live, said, handed, appended, suppressed>>
    BY <1>11 DEF OpenWindow, chans
  <2>5. windows'[1].channel \in live'
    BY <2>1, <2>4
  <2> QED BY <1>1, <1>2, <2>3, <2>4, <2>5, LedgerStays DEF LedgerInv
<1>12. CASE \/ \E c \in Channel : RefuseNested(c)
            \/ \E error \in {"none", "thrown", "not synchronous"} : EngineLeaves(error)
            \/ Restore
  <2>1. PICK w, v \in Window : /\ windows = <<w>> /\ windows' = <<v>>
                               /\ v.channel = w.channel /\ v.buffer = w.buffer
    BY <1>1, <1>12, Leaves, Restores
  <2>2. \A d \in Channel : pending(d)' = pending(d)
    BY <2>1, PendingOf, PendingNext
  <2>3. UNCHANGED <<live, said, handed, appended, suppressed>>
    BY <1>12 DEF RefuseNested, EngineLeaves, Restore, chans
  <2>4. windows'[1].channel \in live'
    BY <2>1, <2>3 DEF LedgerInv
  <2> QED BY <1>1, <1>2, <2>2, <2>3, <2>4, LedgerStays DEF LedgerInv
<1>13. ASSUME NEW text \in Texts, EngineWrites(text) PROVE LedgerInv' /\ Turned
  <2>1. PICK w, v \in Window, l \in Notes :
          /\ windows = <<w>> /\ windows' = <<v>>
          /\ v.channel = w.channel /\ v.buffer = Append(w.buffer, l)
          /\ said' = [said EXCEPT ![w.channel] = Append(@, l)]
    BY <1>1, <1>13, Writes
  <2> DEFINE c == w.channel
  <2>2. c \in live /\ c \in Channel /\ w.buffer \in Seq(Notes)
    BY <2>1 DEF LedgerInv, CaptureInv, Window
  <2>3. UNCHANGED <<live, handed, appended, suppressed>>
    BY <1>13 DEF EngineWrites, chans
  <2>4. /\ pending(c) = w.buffer /\ pending(c)' = Append(w.buffer, l)
        /\ \A d \in Channel : d # c => pending(d) = << >> /\ pending(d)' = << >>
    BY <2>1, PendingOf, PendingNext
  <2> HIDE DEF c
  <2>5. said' \in [Channel -> Seq(Notes)] /\ said'[c] = Append(said[c], l)
        /\ \A d \in Channel : d # c => said'[d] = said[d]
    BY <2>1, <2>2 DEF LedgerInv, c
  <2>6. Accounted(said'[c], appended'[c], suppressed'[c], pending(c)')
    BY <2>2, <2>3, <2>4, <2>5, AccountsCapture DEF LedgerInv
  <2>7. \A d \in Channel : Accounted(said'[d], appended'[d], suppressed'[d], pending(d)')
    BY <2>3, <2>4, <2>5, <2>6 DEF LedgerInv
  <2>8. windows'[1].channel \in live'
    BY <2>1, <2>2, <2>3 DEF c
  <2>9. LedgerInv'
    BY <1>1, <2>3, <2>5, <2>7, <2>8 DEF LedgerInv
  <2>10. Ledger!Say(c)
    BY <2>1, <2>2, <2>3 DEF LedgerInv, Ledger!Say, c
  <2> QED BY <2>2, <2>9, <2>10 DEF Turned
<1>14. CASE Relay
  <2>1. PICK w, v \in Window :
          /\ windows = <<w>> /\ windows' = <<v>>
          /\ v.channel = w.channel /\ w.buffer # << >> /\ v.buffer = Tail(w.buffer)
          /\ degraded(w.channel, Head(w.buffer))
    BY <1>1, <1>14, Relays
  <2> DEFINE c == w.channel
             l == Head(w.buffer)
  <2>2. c \in live /\ c \in Channel /\ w.buffer \in Seq(Notes)
    BY <2>1 DEF LedgerInv, CaptureInv, Window
  <2>3. l \in Notes
    BY <2>1, <2>2
  <2>4. UNCHANGED <<live, said, handed>>
    BY <1>14 DEF Relay
  <2>5. /\ pending(c) = w.buffer /\ pending(c)' = Tail(w.buffer)
        /\ \A d \in Channel : d # c => pending(d) = << >> /\ pending(d)' = << >>
    BY <2>1, PendingOf, PendingNext
  <2>6. degraded(c, l) /\ w.buffer # << >>
    BY <2>1
  <2>7. windows'[1].channel \in live'
    BY <2>1, <2>2, <2>4
  <2> HIDE DEF c
  <2>8. /\ said[c] \in Seq(Notes) /\ appended[c] \in Seq(Notes) /\ suppressed[c] \in Nat
        /\ Accounted(said[c], appended[c], suppressed[c], w.buffer)
    BY <2>2, <2>5 DEF LedgerInv
  <2>9. /\ Len(appended[c]) < Cap =>
               Accounted(said[c], Append(appended[c], l), suppressed[c], Tail(w.buffer))
        /\ ~(Len(appended[c]) < Cap) =>
               Accounted(said[c], appended[c], suppressed[c] + 1, Tail(w.buffer))
    BY <2>2, <2>6, <2>8, AccountsRelay
  <2> HIDE DEF l
  <2>10. /\ appended' \in [Channel -> Seq(Notes)] /\ suppressed' \in [Channel -> Nat]
         /\ \A d \in Channel : d # c => appended'[d] = appended[d] /\ suppressed'[d] = suppressed[d]
         /\ Len(appended[c]) < Cap =>
              appended'[c] = Append(appended[c], l) /\ suppressed'[c] = suppressed[c]
         /\ ~(Len(appended[c]) < Cap) =>
              appended'[c] = appended[c] /\ suppressed'[c] = suppressed[c] + 1
    BY <2>2, <2>6, <2>3, Degrades
  <2>11. Accounted(said'[c], appended'[c], suppressed'[c], pending(c)')
    <3>1. CASE Len(appended[c]) < Cap
      BY <2>4, <2>5, <2>9, <2>10, <3>1
    <3>2. CASE ~(Len(appended[c]) < Cap)
      BY <2>4, <2>5, <2>9, <2>10, <3>2
    <3> QED BY <3>1, <3>2
  <2>12. \A d \in Channel : Accounted(said'[d], appended'[d], suppressed'[d], pending(d)')
    BY <2>4, <2>5, <2>11, <2>10 DEF LedgerInv
  <2>13. LedgerInv'
    BY <1>1, <2>4, <2>12, <2>7, <2>10 DEF LedgerInv
  <2> QED BY <1>2, <2>4, <2>13
<1>15. CASE Return
  <2>1. PICK w \in Window :
          /\ windows = <<w>> /\ windows' = << >> /\ w.buffer = << >>
          /\ live' = IF w.error = "none" THEN live ELSE live \ {w.channel}
          /\ handed' = IF w.error = "none" THEN handed ELSE [handed EXCEPT ![w.channel] = Lost]
    BY <1>1, <1>15, Returns
  <2>2. w.channel \in live /\ w.channel \in Channel
    BY <2>1 DEF LedgerInv, CaptureInv
  <2>3. UNCHANGED <<said, appended, suppressed>>
    BY <1>15 DEF Return, chans
  <2>4. \A d \in Channel : pending(d) = << >> /\ pending(d)' = << >>
    BY <2>1, PendingOf DEF pending
  <2>5. DOMAIN handed' = Channel /\ \A d \in live' : handed'[d] = Open
    BY <2>1, <2>2 DEF LedgerInv, CaptureInv
  <2>6. LedgerInv'
    BY <1>1, <2>1, <2>3, <2>4, <2>5 DEF LedgerInv
  <2>7. CASE w.error = "none"
    BY <1>2, <2>1, <2>3, <2>6, <2>7
  <2>8. CASE w.error # "none"
    <3>1. Ledger!End(w.channel)
      BY <2>1, <2>2, <2>3, <2>8 DEF LedgerInv, Ledger!End
    <3> QED BY <2>2, <2>6, <3>1 DEF Turned
  <2> QED BY <2>7, <2>8
<1> QED
  BY <1>4, <1>5, <1>6, <1>7, <1>8, <1>9, <1>10, <1>11, <1>12, <1>13, <1>14, <1>15, <1>16 DEF CaptureNext

-----------------------------------------------------------------------------
(* Theorems *)

\* Whatever the engine and the operations do, console.error is a stub exactly while the
\* one open window runs, and that window's (engine.ts:357).
THEOREM CaptureIsPrivate == CaptureSpec => []SwapIsPrivate
<1>1. CaptureInv => SwapIsPrivate
  BY DEF CaptureInv
<1> QED BY <1>1, InitCapture, StepCapture, PTL DEF CaptureSpec

\* No write goes astray (engine.ts:417): a line the engine writes inside a window stays off the
\* terminal, nobody else's become notes, and a channel holds no more of them than its cap.
THEOREM EngineIsHeard == CaptureSpec => []WritesGoWhereTheyBelong
<1>1. LedgerInv => WritesGoWhereTheyBelong
  <2> SUFFICES ASSUME LedgerInv PROVE WritesGoWhereTheyBelong
    OBVIOUS
  <2>1. live \subseteq Channel /\ SwapIsPrivate /\ OneWindow /\ terminal \in {"blank", "channel", "others", "uncaptured"}
    BY DEF LedgerInv, CaptureInv
  <2>2. activeCall \in Channel \cup {None} /\ console \in 0..Len(windows)
    <3>1. CASE windows = << >>
      BY <2>1, <3>1 DEF SwapIsPrivate
    <3>2. ASSUME NEW w \in Window, windows = <<w>>
          PROVE  activeCall \in Channel \cup {None} /\ console \in 0..Len(windows)
      <4>1. windows # << >> /\ Len(windows) = 1 /\ windows[1] = w /\ w.channel \in Channel
        BY <3>2 DEF Window
      <4> QED BY <2>1, <4>1 DEF SwapIsPrivate
    <3> QED BY <2>1, <3>1, <3>2 DEF OneWindow
  <2>3. ASSUME NEW c \in Channel
        PROVE  /\ Len(appended[c]) \in 0..Cap /\ suppressed[c] \in Nat
               /\ suppressed[c] > 0 => Len(appended[c]) = Cap
               /\ c \in live => handed[c] = Open
    <3>1. appended[c] \in Seq(Notes) /\ Accounted(said[c], appended[c], suppressed[c], pending(c))
      BY DEF LedgerInv
    <3> QED BY <3>1, CaptureAssumption DEF LedgerInv, Accounted
  <2>4. CaptureTypeOK
    BY <2>1, <2>2, <2>3 DEF CaptureTypeOK
  <2>5. \A i \in DOMAIN windows : OwnLines(windows[i])
    BY <2>1 DEF OneWindow
  <2> QED BY <2>1, <2>4, <2>5 DEF WritesGoWhereTheyBelong, OwnLines
<1>2. LedgerInv /\ [CaptureNext]_captureVars => LedgerInv'
  BY StepLedger
<1> QED BY <1>1, <1>2, InitLedger, PTL DEF CaptureSpec

\* The notes handed over are what was said, in order, up to the cap, with the count of the
\* rest (channel.ts:219): EngineCapture implements NoteLedger.
THEOREM LedgerIsKept == CaptureSpec => KeepsTheLedger
<1>1. LedgerInv /\ [CaptureNext]_captureVars =>
        LedgerInv' /\ [\E c \in Channel : Ledger!Say(c) \/ Ledger!End(c)]_(Ledger!ledgerVars)
  BY StepLedger DEF Turned
<1> QED BY <1>1, InitLedger, PTL DEF CaptureSpec, KeepsTheLedger, Ledger!LedgerSpec

-----------------------------------------------------------------------------
(* The inductive invariant *)

\* The chain's reactions, and the steps that still stand on it.
Place == 1..Len(chain)
StepAt(i) == chain[i].kind = "step"

\* A step stands on the chain while it waits, and at the head of it while it runs; the
\* ones ahead of it there are the ones registered ahead of it; its bridge's catch
\* stays behind it.
ChainShape ==
  /\ chain \in Seq(Link)
  /\ \A i \in Place : StepAt(i) =>
       \/ body[chain[i].of] = "queued"
       \/ i = 1 /\ body[chain[i].of] = "running" /\ started /\ ~rejected
  /\ \A s \in Step : body[s] = "queued" => \E i \in Place : chain[i] = link("step", s)
  /\ \A i, j \in Place : i < j /\ StepAt(i) /\ StepAt(j) => chain[i].of \in behind[chain[j].of]
  /\ \A i \in Place : chain[i].kind = "bridgeCatch" =>
       /\ chain[i].of \in Bridged /\ body[chain[i].of] # "unregistered"
       /\ body[chain[i].of] \in {"queued", "running"} =>
            \E k \in Place : k < i /\ chain[k] = link("step", chain[i].of)

\* Registration order: what is registered ahead of a step is not behind it, and has ended
\* when the step is reached.
RegistrationOrder ==
  \A s \in Step :
    /\ body[s] = "unregistered" => behind[s] = {}
    /\ body[s] \notin {"unregistered", "queued"} => started
    /\ \A q \in behind[s] :
         /\ body[q] # "unregistered" /\ s \notin behind[q]
         /\ body[q] = "running" => onChain(q)
         /\ body[q] \in {"queued", "running"} => body[s] = "queued"

\* A bridged promise is settled once its step ended, and a step that did not end has
\* settled nothing; a raw step has no promise.
SettledWithItsStep ==
  \A s \in Step :
    /\ body[s] \in {"unregistered", "queued", "running"} \/ s \notin Bridged =>
         settles[s] = 0 /\ promise[s] \in {"none", "pending"}
    /\ s \in Bridged /\ body[s] \in {"ok", "failed"} => settles[s] = 1

\* The chain is rejected by a raw step that every step still on it was registered behind.
RejectedByRawStep ==
  /\ rejected =>
       /\ started
       /\ \E q \in Step \ Bridged :
            body[q] = "failed" /\ \A i \in Place : StepAt(i) => q \in behind[chain[i].of]
  /\ \A s \in Step :
       /\ body[s] = "skipped" => \E q \in behind[s] \ Bridged : body[q] = "failed"
       /\ \A q \in behind[s] \ Bridged : body[q] = "failed" => rejected

\* AnswersForItsStep and NothingRunsPastFailure, made inductive.
BridgeInv ==
  /\ TypeOK /\ ChainShape /\ RegistrationOrder /\ SettledWithItsStep /\ RejectedByRawStep
  /\ AnswersForItsStep /\ NothingRunsPastFailure

-----------------------------------------------------------------------------
(* The chain as a sequence of reactions *)

\* A reaction is known by its kind and its step.
LEMMA LinkFields ==
  /\ \A kind \in {"step", "hostCatch", "bridgeCatch"}, s \in Step :
       link(kind, s) \in Link /\ link(kind, s).kind = kind /\ link(kind, s).of = s
  /\ \A l \in Link : l.kind \in {"step", "hostCatch", "bridgeCatch"} =>
       l.of \in Step /\ l = link(l.kind, l.of)
  /\ [kind |-> "done"] \in Link
BY DEF link, Link

\* Running the reaction at the head moves every other one up.
LEMMA PastHead ==
  ASSUME NEW c \in Seq(Link), c # << >>
  PROVE  /\ Tail(c) \in Seq(Link)
         /\ Len(c) \in Nat \ {0} /\ Len(Tail(c)) = Len(c) - 1
         /\ Head(c) = c[1]
         /\ \A i \in 1..Len(Tail(c)) : Tail(c)[i] = c[i + 1]
BY HeadTailProperties, EmptySeq, LenProperties

\* A registration appends its step first, then the host's catch, then the bridge's.
LEMMA Registered ==
  ASSUME NEW c \in Seq(Link), NEW s \in Step
  PROVE  LET d == c \o registered(s)
             n == Len(c)
         IN  /\ d \in Seq(Link) /\ n \in Nat
             /\ Len(d) = IF s \in Bridged THEN n + 3 ELSE n + 2
             /\ \A i \in 1..n : d[i] = c[i]
             /\ d[n + 1] = link("step", s)
             /\ d[n + 2] = link("hostCatch", s)
             /\ s \in Bridged => d[n + 3] = link("bridgeCatch", s)
<1>1. link("step", s) \in Link /\ link("hostCatch", s) \in Link /\ link("bridgeCatch", s) \in Link
  BY LinkFields
<1>2. Len(c) \in Nat
  BY LenProperties
<1> DEFINE first == <<link("step", s), link("hostCatch", s)>>
           last == IF s \in Bridged THEN <<link("bridgeCatch", s)>> ELSE << >>
<1>3. first \in Seq(Link) /\ Len(first) = 2 /\ first[1] = link("step", s) /\ first[2] = link("hostCatch", s)
  BY <1>1
<1>4. last \in Seq(Link) /\ Len(last) = (IF s \in Bridged THEN 1 ELSE 0)
        /\ (s \in Bridged => last[1] = link("bridgeCatch", s))
  BY <1>1
<1> HIDE DEF first, last
<1>5. /\ first \o last \in Seq(Link)
      /\ Len(first \o last) = Len(first) + Len(last)
      /\ \A i \in 1..Len(first) + Len(last) :
            (first \o last)[i] = IF i <= Len(first) THEN first[i] ELSE last[i - Len(first)]
  BY <1>3, <1>4, ConcatProperties
<1>6. /\ c \o (first \o last) \in Seq(Link)
      /\ Len(c \o (first \o last)) = Len(c) + Len(first \o last)
      /\ \A i \in 1..Len(c) + Len(first \o last) :
            (c \o (first \o last))[i] = IF i <= Len(c) THEN c[i] ELSE (first \o last)[i - Len(c)]
  BY <1>5, ConcatProperties
<1>7. registered(s) = first \o last
  BY DEF registered, first, last
<1>8. QED
  BY <1>2, <1>3, <1>4, <1>5, <1>6, <1>7

\* The step that runs on the chain is the one at its head.
LEMMA RunsAtHead ==
  ASSUME TypeOK, ChainShape, NEW s \in Step, NEW i \in Place,
         chain[i] = link("step", s), body[s] = "running"
  PROVE  i = 1 /\ onChain(s)
<1>1. i = 1
  BY LinkFields DEF ChainShape, StepAt
<1>2. chain # << >> /\ Head(chain) = chain[1]
  BY <1>1, EmptySeq, PastHead DEF ChainShape, Place
<1>3. QED
  BY <1>1, <1>2 DEF onChain

-----------------------------------------------------------------------------
(* Every step of the host and of the bridge keeps it *)

\* Nothing is registered at first.
LEMMA BridgeInit == Init => BridgeInv
<1> SUFFICES ASSUME Init PROVE BridgeInv
  OBVIOUS
<1>1. 1..Len(chain) = {} /\ chain \in Seq(Link)
  BY EmptySeq DEF Init
<1>2. TypeOK
  <2>1. \A i \in 1..Len(chain) : chain[i] \in Link
    BY <1>1
  <2>2. settles \in [Step -> 0..1] /\ behind \in [Step -> SUBSET Step]
    BY DEF Init
  <2>3. body \in [Step -> Body] /\ promise \in [Step -> {"none", "pending", "resolved", "rejected"}]
    BY DEF Init, Body
  <2>4. started \in BOOLEAN /\ rejected \in BOOLEAN /\ runner \in {"waiting", "done", "failed"}
    BY DEF Init
  <2>5. QED
    BY <2>1, <2>2, <2>3, <2>4 DEF TypeOK
<1>3. ChainShape
  BY <1>1 DEF Init, ChainShape, Place
<1>4. RegistrationOrder /\ SettledWithItsStep /\ RejectedByRawStep
  BY <1>1, BridgedAssumption DEF Init, RegistrationOrder, SettledWithItsStep, RejectedByRawStep
<1>5. AnswersForItsStep /\ NothingRunsPastFailure
  BY BridgedAssumption DEF Init, AnswersForItsStep, NothingRunsPastFailure
<1>6. QED
  BY <1>2, <1>3, <1>4, <1>5 DEF BridgeInv

\* Before start() nothing runs and nothing has failed; a step joins the end of the chain
\* behind all that were registered.
LEMMA RegisterEarlyStep ==
  ASSUME BridgeInv, NEW s \in Step, RegisterEarly(s)
  PROVE  BridgeInv'
<1>1. TypeOK /\ ChainShape /\ RegistrationOrder /\ SettledWithItsStep /\ RejectedByRawStep
      /\ AnswersForItsStep /\ NothingRunsPastFailure
  BY DEF BridgeInv
<1> DEFINE n == Len(chain)
<1>2. /\ chain' \in Seq(Link) /\ n \in Nat
      /\ Len(chain') = IF s \in Bridged THEN n + 3 ELSE n + 2
      /\ \A i \in 1..n : chain'[i] = chain[i]
      /\ chain'[n + 1] = link("step", s)
      /\ chain'[n + 2] = link("hostCatch", s)
      /\ s \in Bridged => chain'[n + 3] = link("bridgeCatch", s)
  BY <1>1, Registered DEF RegisterEarly, ChainShape
<1>3. \A i \in Place : chain[i] \in Link
  BY <1>1, ElementOfSeq DEF ChainShape, Place
<1>4. /\ ~started /\ body[s] = "unregistered" /\ ~rejected
      /\ \A q \in Step : body[q] \in {"unregistered", "queued"}
      /\ body' = [body EXCEPT ![s] = "queued"]
      /\ promise' = [promise EXCEPT ![s] = IF s \in Bridged THEN "pending" ELSE "none"]
      /\ behind' = [behind EXCEPT ![s] = {q \in Step : body[q] # "unregistered"}]
      /\ UNCHANGED <<started, rejected, settles, runner>>
  BY <1>1 DEF RegisterEarly, RegistrationOrder, RejectedByRawStep
<1>5. TypeOK'
  <2>1. \A i \in 1..Len(chain') : chain'[i] \in Link
    BY <1>2, ElementOfSeq
  <2>2. QED
    BY <1>1, <1>4, <2>1 DEF TypeOK, Body
<1>6. ChainShape'
  <2>1. \A i \in 1..n : StepAt(i) => chain[i].of \in Step /\ chain[i].of # s /\ body[chain[i].of] = "queued"
    BY <1>1, <1>3, <1>4, LinkFields DEF ChainShape, Place, StepAt
  <2>2. \A i \in 1..n : chain[i].kind = "bridgeCatch" => chain[i].of \in Step
    BY <1>3, LinkFields DEF Place
  <2>3. /\ chain'[n + 1].kind = "step" /\ chain'[n + 1].of = s
        /\ chain'[n + 2].kind = "hostCatch"
        /\ s \in Bridged => chain'[n + 3].kind = "bridgeCatch" /\ chain'[n + 3].of = s
    BY <1>2, LinkFields
  <2>4. Place' = 1..n \cup {n + 1, n + 2} \cup (IF s \in Bridged THEN {n + 3} ELSE {})
    BY <1>2 DEF Place
  <2>5. \A i \in Place' : StepAt(i)' => body'[chain'[i].of] = "queued"
    <3>1. body'[s] = "queued"
      BY <1>1, <1>4 DEF TypeOK
    <3>2. ASSUME NEW i \in 1..n, StepAt(i)' PROVE body'[chain'[i].of] = "queued"
      <4>1. chain'[i] = chain[i] /\ StepAt(i)
        BY <1>2, <3>2 DEF StepAt
      <4>2. QED
        BY <1>1, <1>4, <2>1, <4>1 DEF TypeOK
    <3>3. \A i \in Place' : StepAt(i)' => i \in 1..n \/ i = n + 1
      BY <2>3, <2>4, LinkFields DEF StepAt
    <3>4. QED
      BY <2>3, <3>1, <3>2, <3>3
  <2>6. ASSUME NEW q \in Step, body'[q] = "queued"
        PROVE  \E i \in Place' : chain'[i] = link("step", q)
    <3>1. CASE q = s
      BY <1>2, <2>4, <3>1
    <3>2. CASE q # s
      <4>1. PICK i \in Place : chain[i] = link("step", q)
        BY <1>1, <1>4, <2>6, <3>2 DEF ChainShape, TypeOK
      <4>2. i \in Place' /\ chain'[i] = link("step", q)
        BY <1>2, <2>4, <4>1 DEF Place
      <4>3. QED
        BY <4>2
    <3>3. QED
      BY <3>1, <3>2
  <2>7. ASSUME NEW i \in Place', NEW j \in Place', i < j, StepAt(i)', StepAt(j)'
        PROVE  chain'[i].of \in behind'[chain'[j].of]
    <3>1. i \in 1..n /\ j \in 1..n \cup {n + 1}
      BY <1>2, <2>3, <2>4, <2>7 DEF StepAt
    <3>2. CASE j \in 1..n
      BY <1>1, <1>2, <1>4, <2>1, <2>7, <3>1, <3>2 DEF ChainShape, Place, StepAt, TypeOK
    <3>3. CASE j = n + 1
      <4>1. i \in 1..n /\ chain'[i] = chain[i] /\ chain'[j].of = s
        BY <1>2, <2>3, <2>7, <3>1, <3>3
      <4>2. chain[i].of \in Step /\ body[chain[i].of] = "queued"
        BY <1>1, <1>4, <2>1, <2>7, <4>1 DEF StepAt, ChainShape, Place
      <4>3. behind'[s] = {q \in Step : body[q] # "unregistered"}
        BY <1>1, <1>4 DEF TypeOK
      <4>4. QED
        BY <4>1, <4>2, <4>3
    <3>4. QED
      BY <3>1, <3>2, <3>3
  <2>8. ASSUME NEW i \in Place', chain'[i].kind = "bridgeCatch"
        PROVE  /\ chain'[i].of \in Bridged /\ body'[chain'[i].of] # "unregistered"
               /\ body'[chain'[i].of] \in {"queued", "running"} =>
                    \E k \in Place' : k < i /\ chain'[k] = link("step", chain'[i].of)
    <3>1. CASE i \in 1..n
      <4>1. chain'[i] = chain[i] /\ chain[i].of \in Bridged
        BY <1>1, <1>2, <2>8, <3>1 DEF ChainShape, Place
      <4>2. chain[i].of # s /\ chain[i].of \in Step
        BY <1>1, <1>4, <2>2, <2>8, <3>1, <4>1 DEF ChainShape, Place
      <4>3. QED
        BY <1>1, <1>2, <1>4, <2>4, <2>8, <3>1, <4>1, <4>2 DEF ChainShape, Place, TypeOK
    <3>2. CASE i = n + 3 /\ s \in Bridged
      <4>1. chain'[i].of = s /\ s \in Bridged /\ body'[s] # "unregistered"
        BY <1>1, <1>4, <2>3, <3>2 DEF TypeOK
      <4>2. n + 1 \in Place' /\ n + 1 < i /\ chain'[n + 1] = link("step", s)
        BY <1>2, <2>4, <3>2
      <4>3. QED
        BY <4>1, <4>2
    <3>3. QED
      BY <1>2, <2>3, <2>4, <2>8, <3>1, <3>2
  <2>9. QED
    BY <1>2, <2>5, <2>6, <2>7, <2>8 DEF ChainShape
<1>7. RegistrationOrder'
  BY <1>1, <1>4 DEF RegistrationOrder, TypeOK
<1>8. SettledWithItsStep'
  BY <1>1, <1>4 DEF SettledWithItsStep, TypeOK
<1>9. RejectedByRawStep'
  BY <1>1, <1>4 DEF RejectedByRawStep, TypeOK
<1>10. AnswersForItsStep' /\ NothingRunsPastFailure'
  BY <1>1, <1>4 DEF AnswersForItsStep, NothingRunsPastFailure, RejectedByRawStep, TypeOK
<1>11. QED
  BY <1>5, <1>6, <1>7, <1>8, <1>9, <1>10 DEF BridgeInv

\* After start() a step is registered on nothing: it runs at once.
LEMMA RegisterLateStep ==
  ASSUME BridgeInv, NEW s \in Step, RegisterLate(s)
  PROVE  BridgeInv'
<1>1. TypeOK /\ ChainShape /\ RegistrationOrder /\ SettledWithItsStep /\ RejectedByRawStep
      /\ AnswersForItsStep /\ NothingRunsPastFailure
  BY DEF BridgeInv
<1>2. /\ started /\ body[s] = "unregistered"
      /\ body' = [body EXCEPT ![s] = "running"]
      /\ promise' = [promise EXCEPT ![s] = IF s \in Bridged THEN "pending" ELSE "none"]
      /\ UNCHANGED <<started, chain, rejected, settles, runner, behind>>
  BY DEF RegisterLate
<1>3. TypeOK'
  BY <1>1, <1>2 DEF TypeOK, Body
<1>4. ChainShape'
  <2>1. \A i \in Place : chain[i] \in Link
    BY <1>1, ElementOfSeq DEF ChainShape, Place
  <2>2. \A i \in Place : StepAt(i) => chain[i].of # s /\ chain[i].of \in Step
    BY <1>1, <1>2, <2>1, LinkFields DEF ChainShape, StepAt
  <2>3. \A i \in Place : chain[i].kind = "bridgeCatch" =>
          chain[i].of # s /\ chain[i].of \in Step
    BY <1>1, <1>2, <2>1, LinkFields DEF ChainShape
  <2>4. QED
    BY <1>1, <1>2, <2>2, <2>3 DEF ChainShape, Place, StepAt, TypeOK
<1>5. RegistrationOrder'
  BY <1>1, <1>2 DEF RegistrationOrder, onChain, TypeOK
<1>6. SettledWithItsStep'
  BY <1>1, <1>2 DEF SettledWithItsStep, TypeOK
<1>7. RejectedByRawStep'
  BY <1>1, <1>2 DEF RejectedByRawStep, Place, StepAt, TypeOK
<1>8. AnswersForItsStep' /\ NothingRunsPastFailure'
  BY <1>1, <1>2 DEF AnswersForItsStep, NothingRunsPastFailure, RegistrationOrder, TypeOK
<1>9. QED
  BY <1>3, <1>4, <1>5, <1>6, <1>7, <1>8 DEF BridgeInv

\* start() appends what tells the runner, behind every step.
LEMMA StartStep ==
  ASSUME BridgeInv, Start
  PROVE  BridgeInv'
<1>1. TypeOK /\ ChainShape /\ RegistrationOrder /\ SettledWithItsStep /\ RejectedByRawStep
      /\ AnswersForItsStep /\ NothingRunsPastFailure
  BY DEF BridgeInv
<1> DEFINE n == Len(chain)
<1>2. /\ n \in Nat /\ chain' \in Seq(Link) /\ Len(chain') = n + 1
      /\ \A i \in 1..n : chain'[i] = chain[i]
      /\ chain'[n + 1] = [kind |-> "done"]
  BY <1>1, LinkFields, AppendProperties, LenProperties DEF Start, ChainShape
<1>3. /\ ~started /\ started' = TRUE
      /\ UNCHANGED <<rejected, body, promise, settles, runner, behind>>
  BY DEF Start
<1>4. \A i \in Place : chain[i] \in Link
  BY <1>1, ElementOfSeq DEF ChainShape, Place
<1>5. TypeOK'
  <2>1. \A i \in 1..Len(chain') : chain'[i] \in Link
    BY <1>2, ElementOfSeq
  <2>2. QED
    BY <1>1, <1>3, <2>1 DEF TypeOK
<1>6. ChainShape'
  <2>1. Place' = Place \cup {n + 1} /\ Place = 1..n
    BY <1>2 DEF Place
  <2>2. \A i \in Place' : StepAt(i)' => i \in Place /\ StepAt(i) /\ chain'[i] = chain[i]
    BY <1>2, <2>1 DEF StepAt
  <2>3. \A i \in Place' : chain'[i].kind = "bridgeCatch" => i \in Place /\ chain'[i] = chain[i]
    BY <1>2, <2>1
  <2>4. \A i \in Place : chain'[i] = chain[i] /\ i \in Place'
    BY <1>2, <2>1
  <2>5. chain' \in Seq(Link)
    BY <1>2
  <2>6. \A i \in Place : StepAt(i) => body[chain[i].of] = "queued"
    BY <1>1, <1>3 DEF ChainShape
  <2>7. \A i \in Place' : StepAt(i)' =>
          \/ body'[chain'[i].of] = "queued"
          \/ i = 1 /\ body'[chain'[i].of] = "running" /\ started' /\ ~rejected'
    BY <1>3, <2>2, <2>6
  <2>8. \A q \in Step : body'[q] = "queued" => \E i \in Place' : chain'[i] = link("step", q)
    BY <1>1, <1>3, <2>4 DEF ChainShape
  <2>9. \A i, j \in Place' : i < j /\ StepAt(i)' /\ StepAt(j)' => chain'[i].of \in behind'[chain'[j].of]
    BY <1>1, <1>3, <2>2 DEF ChainShape
  <2>10. \A i \in Place' : chain'[i].kind = "bridgeCatch" =>
           /\ chain'[i].of \in Bridged /\ body'[chain'[i].of] # "unregistered"
           /\ body'[chain'[i].of] \in {"queued", "running"} =>
                \E k \in Place' : k < i /\ chain'[k] = link("step", chain'[i].of)
    BY <1>1, <1>3, <2>3, <2>4 DEF ChainShape
  <2>11. QED
    BY <2>5, <2>7, <2>8, <2>9, <2>10 DEF ChainShape
<1>7. RegistrationOrder'
  BY <1>1, <1>3 DEF RegistrationOrder, TypeOK
<1>8. SettledWithItsStep' /\ AnswersForItsStep' /\ NothingRunsPastFailure'
  BY <1>1, <1>3 DEF SettledWithItsStep, AnswersForItsStep, NothingRunsPastFailure
<1>9. RejectedByRawStep'
  BY <1>1, <1>3 DEF RejectedByRawStep
<1>10. QED
  BY <1>5, <1>6, <1>7, <1>8, <1>9 DEF BridgeInv

\* A catch, or what start() appended, leaves the head of the chain: no step is touched.
LEMMA CatchLeaves ==
  ASSUME BridgeInv, chain # << >>, Head(chain).kind # "step", chain' = Tail(chain),
         UNCHANGED <<started, rejected, body, behind>>
  PROVE  /\ ChainShape' /\ RegistrationOrder' /\ RejectedByRawStep' /\ NothingRunsPastFailure'
         /\ \A i \in 1..Len(chain') : chain'[i] \in Link
<1>1. TypeOK /\ ChainShape /\ RegistrationOrder /\ RejectedByRawStep /\ NothingRunsPastFailure
  BY DEF BridgeInv
<1> DEFINE n == Len(chain)
<1>2. /\ chain' \in Seq(Link)
      /\ n \in Nat \ {0} /\ Len(chain') = n - 1
      /\ Head(chain) = chain[1]
      /\ \A i \in 1..n - 1 : chain'[i] = chain[i + 1]
  BY <1>1, PastHead DEF ChainShape
<1>3. \A s \in Step : link("step", s).kind = "step"
  BY LinkFields
<1>4. ChainShape'
  <2>1. \A i \in Place' : i + 1 \in Place /\ chain'[i] = chain[i + 1] /\ i + 1 # 1
    BY <1>2 DEF Place
  <2>2. \A k \in Place : k # 1 => k - 1 \in Place' /\ chain'[k - 1] = chain[k]
    BY <1>2 DEF Place
  <2>3. \A i \in Place' : StepAt(i)' => body'[chain'[i].of] = "queued"
    BY <1>1, <2>1 DEF ChainShape, StepAt
  <2>4. ASSUME NEW s \in Step, body'[s] = "queued" PROVE \E i \in Place' : chain'[i] = link("step", s)
    <3>1. PICK i \in Place : chain[i] = link("step", s)
      BY <1>1, <2>4 DEF ChainShape
    <3>2. i # 1
      BY <1>2, <1>3, <3>1
    <3>3. QED
      BY <2>2, <3>1, <3>2
  <2>5. \A i, j \in Place' : i < j /\ StepAt(i)' /\ StepAt(j)' => chain'[i].of \in behind'[chain'[j].of]
    BY <1>1, <2>1 DEF ChainShape, StepAt, Place
  <2>6. ASSUME NEW i \in Place', chain'[i].kind = "bridgeCatch"
        PROVE  /\ chain'[i].of \in Bridged /\ body'[chain'[i].of] # "unregistered"
               /\ body'[chain'[i].of] \in {"queued", "running"} =>
                    \E k \in Place' : k < i /\ chain'[k] = link("step", chain'[i].of)
    <3>1. chain[i + 1].of \in Bridged /\ body'[chain'[i].of] # "unregistered" /\ chain'[i] = chain[i + 1]
      BY <1>1, <2>1, <2>6 DEF ChainShape
    <3>2. ASSUME body'[chain'[i].of] \in {"queued", "running"}
          PROVE  \E k \in Place' : k < i /\ chain'[k] = link("step", chain'[i].of)
      <4>1. PICK k \in Place : k < i + 1 /\ chain[k] = link("step", chain[i + 1].of)
        BY <1>1, <2>1, <2>6, <3>2 DEF ChainShape
      <4>2. k # 1
        BY <1>2, <1>3, <3>1, <4>1, BridgedAssumption
      <4>3. k - 1 < i
        BY <4>1 DEF Place
      <4>4. QED
        BY <2>2, <3>1, <4>1, <4>2, <4>3
    <3>3. QED
      BY <3>1, <3>2
  <2>7. QED
    BY <1>2, <2>3, <2>4, <2>5, <2>6 DEF ChainShape
<1>5. \A q \in Step : ~onChain(q)
  BY <1>3 DEF onChain
<1>6. RegistrationOrder'
  BY <1>1, <1>5 DEF RegistrationOrder, TypeOK
<1>7. RejectedByRawStep'
  BY <1>1, <1>2 DEF RejectedByRawStep, Place, StepAt
<1>8. NothingRunsPastFailure'
  BY <1>1 DEF NothingRunsPastFailure
<1>9. QED
  BY <1>2, <1>4, <1>6, <1>7, <1>8, ElementOfSeq

\* The host's catch and the end of the chain tell the runner: a failure it hears of is
\* a raw step's.
LEMMA RunnerStep ==
  ASSUME BridgeInv, (\E s \in Step : HostCatch(s)) \/ ReachDone
  PROVE  BridgeInv'
<1>1. TypeOK /\ SettledWithItsStep /\ RejectedByRawStep /\ AnswersForItsStep
  BY DEF BridgeInv
<1>2. /\ chain # << >> /\ Head(chain).kind # "step" /\ chain' = Tail(chain)
      /\ runner' = runner \/ runner' = "done" \/ (runner' = "failed" /\ rejected)
      /\ UNCHANGED <<started, rejected, body, promise, settles, behind>>
  BY LinkFields DEF HostCatch, ReachDone
<1>3. /\ ChainShape' /\ RegistrationOrder' /\ RejectedByRawStep' /\ NothingRunsPastFailure'
      /\ \A i \in 1..Len(chain') : chain'[i] \in Link
  BY <1>2, CatchLeaves
<1>4. TypeOK'
  BY <1>1, <1>2, <1>3 DEF TypeOK
<1>5. SettledWithItsStep'
  BY <1>1, <1>2 DEF SettledWithItsStep
<1>6. AnswersForItsStep'
  BY <1>1, <1>2 DEF AnswersForItsStep, RejectedByRawStep
<1>7. QED
  BY <1>3, <1>4, <1>5, <1>6 DEF BridgeInv

\* The bridge's catch settles the promise of a step the chain passed by, and of no other:
\* one that ran has settled it itself.
LEMMA BridgeCatchStep ==
  ASSUME BridgeInv, NEW s \in Step, BridgeCatch(s)
  PROVE  BridgeInv'
<1>1. TypeOK /\ ChainShape /\ SettledWithItsStep /\ RejectedByRawStep /\ AnswersForItsStep
  BY DEF BridgeInv
<1>2. /\ chain # << >> /\ Head(chain) = link("bridgeCatch", s) /\ chain' = Tail(chain)
      /\ UNCHANGED <<started, rejected, body, runner, behind>>
      /\ \/ UNCHANGED <<promise, settles>>
         \/ /\ rejected /\ settles[s] = 0
            /\ promise' = [promise EXCEPT ![s] = "rejected"]
            /\ settles' = [settles EXCEPT ![s] = @ + 1]
  BY DEF BridgeCatch, reachedCatch, settleOnce
<1>3. /\ ChainShape' /\ RegistrationOrder' /\ RejectedByRawStep' /\ NothingRunsPastFailure'
      /\ \A i \in 1..Len(chain') : chain'[i] \in Link
  BY <1>2, CatchLeaves, LinkFields
<1>4. s \in Bridged /\ body[s] \notin {"unregistered", "queued", "running"}
  <2>1. 1 \in Place /\ chain[1] = link("bridgeCatch", s)
    BY <1>1, <1>2, PastHead DEF ChainShape, Place
  <2>2. ~ \E k \in Place : k < 1
    BY DEF Place
  <2>3. QED
    BY <1>1, <2>1, <2>2, LinkFields DEF ChainShape
<1>5. settles[s] = 0 => body[s] = "skipped"
  BY <1>1, <1>4 DEF SettledWithItsStep, TypeOK, Body
<1>6. TypeOK'
  <2>1. promise' \in [Step -> {"none", "pending", "resolved", "rejected"}] /\ settles' \in [Step -> 0..1]
    <3>1. promise \in [Step -> {"none", "pending", "resolved", "rejected"}] /\ settles \in [Step -> 0..1]
      BY <1>1 DEF TypeOK
    <3>2. CASE UNCHANGED <<promise, settles>>
      BY <3>1, <3>2
    <3>3. CASE /\ settles[s] = 0 /\ promise' = [promise EXCEPT ![s] = "rejected"]
               /\ settles' = [settles EXCEPT ![s] = @ + 1]
      BY <3>1, <3>3
    <3> QED
      BY <1>2, <3>2, <3>3
  <2> QED
    BY <1>1, <1>2, <1>3, <2>1 DEF TypeOK
<1>7. SettledWithItsStep'
  BY <1>1, <1>2, <1>4, <1>5 DEF SettledWithItsStep, TypeOK
<1>8. AnswersForItsStep'
  BY <1>1, <1>2, <1>4, <1>5, BridgedAssumption DEF AnswersForItsStep, RejectedByRawStep, TypeOK
<1>9. QED
  BY <1>3, <1>6, <1>7, <1>8 DEF BridgeInv

\* The chain reaches a step: it runs it, or passes it by when it is rejected.
LEMMA ReachStepStep ==
  ASSUME BridgeInv, NEW s \in Step, ReachStep(s)
  PROVE  BridgeInv'
<1>1. TypeOK /\ ChainShape /\ RegistrationOrder /\ SettledWithItsStep /\ RejectedByRawStep
      /\ AnswersForItsStep /\ NothingRunsPastFailure
  BY DEF BridgeInv
<1> DEFINE n == Len(chain)
<1>2. /\ started /\ chain # << >> /\ Head(chain) = link("step", s) /\ body[s] = "queued"
      /\ UNCHANGED <<started, rejected, promise, settles, runner, behind>>
  BY DEF ReachStep, onChain
<1>3. /\ n \in Nat \ {0} /\ chain[1] = link("step", s)
      /\ Tail(chain) \in Seq(Link) /\ Len(Tail(chain)) = n - 1
      /\ \A i \in 1..n - 1 : Tail(chain)[i] = chain[i + 1]
  BY <1>1, <1>2, PastHead DEF ChainShape
<1>4. \A i \in Place : chain[i] \in Link
  BY <1>1, ElementOfSeq DEF ChainShape, Place
<1>5. \A q \in Step : link("step", q).kind = "step" /\ link("step", q).of = q
  BY LinkFields
<1>6. 1 \in Place /\ StepAt(1) /\ chain[1].of = s
  BY <1>3, <1>5 DEF Place, StepAt
<1>7. \A i \in Place : i # 1 /\ StepAt(i) =>
        chain[i].of \in Step /\ chain[i].of # s /\ s \in behind[chain[i].of] /\ body[chain[i].of] = "queued"
  <2>1. ASSUME NEW i \in Place, i # 1, StepAt(i)
        PROVE  chain[i].of \in Step /\ s \in behind[chain[i].of] /\ body[chain[i].of] = "queued"
    <3>1. chain[i].of \in Step
      BY <1>4, <2>1, LinkFields DEF StepAt
    <3>2. 1 < i
      BY <2>1 DEF Place
    <3>3. QED
      BY <1>1, <1>6, <2>1, <3>1, <3>2 DEF ChainShape
  <2>2. s \notin behind[s]
    BY <1>1 DEF RegistrationOrder
  <2>3. QED
    BY <2>1, <2>2
\* Whatever was registered ahead of s has ended by now.
<1>8. \A q \in behind[s] : q \in Step /\ body[q] \notin {"unregistered", "queued", "running"}
  <2>1. ASSUME NEW q \in behind[s] PROVE q \in Step /\ body[q] # "unregistered" /\ q # s /\ s \notin behind[q]
    BY <1>1, <2>1 DEF RegistrationOrder, TypeOK
  <2>2. ASSUME NEW q \in behind[s], body[q] = "queued" PROVE FALSE
    <3>1. PICK i \in Place : chain[i] = link("step", q)
      BY <1>1, <2>1, <2>2 DEF ChainShape
    <3>2. i # 1
      BY <1>3, <1>5, <2>1, <3>1
    <3>3. QED
      BY <1>5, <1>7, <2>1, <3>1, <3>2 DEF StepAt
  <2>3. ASSUME NEW q \in behind[s], body[q] = "running" PROVE FALSE
    <3>1. link("step", q) = link("step", s)
      BY <1>1, <1>2, <2>1, <2>3 DEF RegistrationOrder, onChain
    <3>2. QED
      BY <1>5, <2>1, <3>1
  <2>4. QED
    BY <2>1, <2>2, <2>3
<1>9. CASE ~rejected
  <2>1. chain' = chain /\ body' = [body EXCEPT ![s] = "running"]
    BY <1>9 DEF ReachStep
  <2>2. TypeOK'
    BY <1>1, <1>2, <2>1 DEF TypeOK, Body
  <2>3. ChainShape'
    <3>1. \A i \in Place' : StepAt(i)' =>
            \/ body'[chain'[i].of] = "queued"
            \/ i = 1 /\ body'[chain'[i].of] = "running" /\ started' /\ ~rejected'
      BY <1>1, <1>2, <1>6, <1>7, <1>9, <2>1 DEF TypeOK, Place, StepAt
    <3>2. \A q \in Step : body'[q] = "queued" => \E i \in Place' : chain'[i] = link("step", q)
      BY <1>1, <2>1 DEF ChainShape, TypeOK, Place
    <3>3. \A i \in Place' : chain'[i].kind = "bridgeCatch" =>
            /\ chain'[i].of \in Bridged /\ body'[chain'[i].of] # "unregistered"
            /\ body'[chain'[i].of] \in {"queued", "running"} =>
                 \E k \in Place' : k < i /\ chain'[k] = link("step", chain'[i].of)
      <4>1. \A i \in Place : chain[i].kind = "bridgeCatch" =>
              /\ chain[i].of \in Bridged /\ chain[i].of \in Step
              /\ body'[chain[i].of] # "unregistered"
              /\ body'[chain[i].of] \in {"queued", "running"} => body[chain[i].of] \in {"queued", "running"}
        BY <1>1, <1>2, <2>1, BridgedAssumption DEF ChainShape, TypeOK
      <4>2. Place' = Place
        BY <2>1 DEF Place
      <4>3. QED
        BY <1>1, <2>1, <4>1, <4>2 DEF ChainShape
    <3>4. QED
      BY <1>1, <1>2, <2>1, <3>1, <3>2, <3>3 DEF ChainShape, Place, StepAt
  <2>4. RegistrationOrder'
    <3>1. ASSUME NEW r \in Step, NEW q \in behind[r]
          PROVE  /\ body'[q] # "unregistered" /\ r \notin behind[q]
                 /\ body'[q] = "running" => onChain(q)
                 /\ body'[q] \in {"queued", "running"} => body'[r] = "queued"
      BY <1>1, <1>2, <1>8, <2>1 DEF RegistrationOrder, TypeOK, onChain
    <3>2. QED
      BY <1>1, <1>2, <2>1, <3>1 DEF RegistrationOrder, TypeOK, onChain
  <2>5. SettledWithItsStep'
    BY <1>1, <1>2, <2>1 DEF SettledWithItsStep, TypeOK
  <2>6. RejectedByRawStep'
    BY <1>1, <1>2, <1>9, <2>1 DEF RejectedByRawStep, TypeOK
  <2>7. AnswersForItsStep' /\ NothingRunsPastFailure'
    BY <1>1, <1>2, <1>9, <2>1, BridgedAssumption
       DEF AnswersForItsStep, NothingRunsPastFailure, RejectedByRawStep, TypeOK
  <2>8. QED
    BY <2>2, <2>3, <2>4, <2>5, <2>6, <2>7 DEF BridgeInv
<1>10. CASE rejected
  <2>1. chain' = Tail(chain) /\ body' = [body EXCEPT ![s] = "skipped"]
    BY <1>10 DEF ReachStep
  <2>2. \A i \in Place' : i + 1 \in Place /\ chain'[i] = chain[i + 1] /\ i + 1 # 1
    BY <1>3, <2>1 DEF Place
  <2>3. \A k \in Place : k # 1 => k - 1 \in Place' /\ chain'[k - 1] = chain[k]
    BY <1>3, <2>1 DEF Place
  <2>4. TypeOK'
    <3>1. \A i \in 1..Len(chain') : chain'[i] \in Link
      BY <1>3, <2>1, ElementOfSeq
    <3>2. QED
      BY <1>1, <1>2, <2>1, <3>1 DEF TypeOK, Body
  <2>5. ChainShape'
    <3>1. ASSUME NEW i \in Place', StepAt(i)' PROVE body'[chain'[i].of] = "queued"
      <4>1. i + 1 \in Place /\ i + 1 # 1 /\ chain'[i] = chain[i + 1] /\ StepAt(i + 1)
        BY <2>2, <3>1 DEF StepAt
      <4>2. /\ chain[i + 1].of \in Step /\ chain[i + 1].of # s
            /\ body[chain[i + 1].of] = "queued"
        BY <1>7, <4>1
      <4>3. DOMAIN body = Step
        BY <1>1 DEF TypeOK
      <4>4. body'[chain[i + 1].of] = body[chain[i + 1].of]
        BY <2>1, <4>2, <4>3
      <4> QED
        BY <4>1, <4>2, <4>4
    <3>2. ASSUME NEW q \in Step, body'[q] = "queued" PROVE \E i \in Place' : chain'[i] = link("step", q)
      <4>1. q # s /\ body[q] = "queued"
        BY <1>1, <2>1, <3>2 DEF TypeOK
      <4>2. PICK i \in Place : chain[i] = link("step", q)
        BY <1>1, <4>1 DEF ChainShape
      <4>3. i # 1
        BY <1>3, <1>5, <4>1, <4>2
      <4>4. QED
        BY <2>3, <4>2, <4>3
    <3>3. \A i, j \in Place' : i < j /\ StepAt(i)' /\ StepAt(j)' => chain'[i].of \in behind'[chain'[j].of]
      BY <1>1, <1>2, <2>2 DEF ChainShape, StepAt, Place
    <3>4. ASSUME NEW i \in Place', chain'[i].kind = "bridgeCatch"
          PROVE  /\ chain'[i].of \in Bridged /\ body'[chain'[i].of] # "unregistered"
                 /\ body'[chain'[i].of] \in {"queued", "running"} =>
                      \E k \in Place' : k < i /\ chain'[k] = link("step", chain'[i].of)
      <4>1. /\ chain'[i] = chain[i + 1] /\ chain[i + 1].of \in Bridged /\ chain[i + 1].of \in Step
            /\ body[chain[i + 1].of] # "unregistered"
        BY <1>1, <2>2, <3>4, BridgedAssumption DEF ChainShape
      <4>2. body'[chain'[i].of] # "unregistered"
        BY <1>1, <2>1, <4>1 DEF TypeOK
      <4>3. ASSUME body'[chain'[i].of] \in {"queued", "running"}
            PROVE  \E k \in Place' : k < i /\ chain'[k] = link("step", chain'[i].of)
        <5>1. chain[i + 1].of # s /\ body[chain[i + 1].of] \in {"queued", "running"}
          BY <1>1, <2>1, <4>1, <4>3 DEF TypeOK
        <5>2. PICK k \in Place : k < i + 1 /\ chain[k] = link("step", chain[i + 1].of)
          BY <1>1, <2>2, <3>4, <4>1, <5>1 DEF ChainShape
        <5>3. k # 1
          BY <1>3, <1>5, <4>1, <5>1, <5>2
        <5>4. k - 1 < i
          BY <5>2 DEF Place
        <5>5. QED
          BY <2>3, <4>1, <5>2, <5>3, <5>4
      <4>4. QED
        BY <4>1, <4>2, <4>3
    <3>5. QED
      BY <1>3, <2>1, <3>1, <3>2, <3>3, <3>4 DEF ChainShape
  <2>6. RegistrationOrder'
    <3>1. \A q \in Step : body'[q] = "running" => body[q] = "running" /\ q # s
      BY <1>1, <2>1 DEF TypeOK
    <3>2. \A r \in Step : \A q \in behind[r] : q \in Step /\ body'[q] # "running"
      <4>1. ASSUME NEW r \in Step, NEW q \in behind[r], body'[q] = "running" PROVE FALSE
        <5>1. q \in Step /\ q # s /\ onChain(q)
          BY <1>1, <3>1, <4>1 DEF RegistrationOrder, TypeOK
        <5>2. QED
          BY <1>2, <1>5, <5>1 DEF onChain
      <4>2. QED
        BY <1>1, <4>1 DEF TypeOK
    <3>3. QED
      BY <1>1, <1>2, <1>8, <2>1, <3>2 DEF RegistrationOrder, TypeOK
  <2>7. SettledWithItsStep'
    BY <1>1, <1>2, <2>1 DEF SettledWithItsStep, TypeOK
  <2>8. PICK f \in Step \ Bridged :
          body[f] = "failed" /\ \A i \in Place : StepAt(i) => f \in behind[chain[i].of]
    BY <1>1, <1>10 DEF RejectedByRawStep
  <2>9. RejectedByRawStep'
    <3>1. f # s /\ body'[f] = "failed" /\ f \in behind[s]
      BY <1>1, <1>2, <1>6, <2>1, <2>8 DEF TypeOK
    <3>2. \A i \in Place' : StepAt(i)' => f \in behind'[chain'[i].of]
      BY <1>2, <2>2, <2>8 DEF StepAt
    <3>3. QED
      BY <1>1, <1>2, <1>10, <2>1, <2>8, <3>1, <3>2 DEF RejectedByRawStep, TypeOK
  <2>10. AnswersForItsStep' /\ NothingRunsPastFailure'
    BY <1>1, <1>2, <2>1, BridgedAssumption DEF AnswersForItsStep, NothingRunsPastFailure, TypeOK
  <2>11. QED
    BY <2>4, <2>5, <2>6, <2>7, <2>9, <2>10 DEF BridgeInv
<1>11. QED
  BY <1>9, <1>10

\* A step ends: a raw one's failure rejects the chain it stands on, and a bridged one
\* settles its promise, which nothing has settled before.
LEMMA EndStepStep ==
  ASSUME BridgeInv, NEW s \in Step, NEW how \in {"ok", "failed"}, EndStep(s, how)
  PROVE  BridgeInv'
<1>1. TypeOK /\ ChainShape /\ RegistrationOrder /\ SettledWithItsStep /\ RejectedByRawStep
      /\ AnswersForItsStep /\ NothingRunsPastFailure
  BY DEF BridgeInv
<1> DEFINE n == Len(chain)
<1>2. /\ body[s] = "running" /\ body' = [body EXCEPT ![s] = how]
      /\ UNCHANGED <<started, runner, behind>>
  BY DEF EndStep
<1>3. /\ s \in Bridged => /\ promise' = [promise EXCEPT ![s] = IF how = "ok" THEN "resolved" ELSE "rejected"]
                          /\ settles' = [settles EXCEPT ![s] = @ + 1]
      /\ s \notin Bridged => UNCHANGED <<promise, settles>>
  BY DEF EndStep, settleOnce
<1>4. \A i \in Place : chain[i] \in Link
  BY <1>1, ElementOfSeq DEF ChainShape, Place
<1>5. \A q \in Step : link("step", q).kind = "step" /\ link("step", q).of = q
  BY LinkFields
<1>6. SettledWithItsStep'
  BY <1>1, <1>2, <1>3 DEF SettledWithItsStep, TypeOK
<1>7. AnswersForItsStep'
  BY <1>1, <1>2, <1>3, BridgedAssumption DEF AnswersForItsStep, TypeOK
<1>8. /\ body' \in [Step -> Body]
      /\ promise' \in [Step -> {"none", "pending", "resolved", "rejected"}]
      /\ settles' \in [Step -> 0..1]
  BY <1>1, <1>2, <1>3 DEF TypeOK, Body, SettledWithItsStep
<1>9. CASE onChain(s)
  <2>1. /\ chain # << >> /\ n \in Nat \ {0} /\ chain[1] = link("step", s)
        /\ chain' = Tail(chain) /\ chain' \in Seq(Link) /\ Len(chain') = n - 1
        /\ \A i \in 1..n - 1 : chain'[i] = chain[i + 1]
        /\ rejected' = (how = "failed" /\ s \notin Bridged)
    BY <1>1, <1>9, PastHead DEF EndStep, onChain, pastHead, ChainShape
  <2>2. 1 \in Place /\ StepAt(1) /\ chain[1].of = s
    BY <1>5, <2>1 DEF Place, StepAt
  <2>3. ~rejected
    BY <1>1, <1>2, <2>2 DEF ChainShape
  <2>4. \A i \in Place' : i + 1 \in Place /\ chain'[i] = chain[i + 1] /\ 1 < i + 1
    BY <2>1 DEF Place
  <2>5. \A k \in Place : k # 1 => k - 1 \in Place' /\ chain'[k - 1] = chain[k]
    BY <2>1 DEF Place
  <2>6. \A i \in Place' : StepAt(i)' =>
          chain'[i].of \in Step /\ chain'[i].of # s /\ s \in behind[chain'[i].of]
    <3>1. ASSUME NEW i \in Place', StepAt(i)'
          PROVE  chain'[i].of \in Step /\ s \in behind[chain'[i].of]
      <4>1. StepAt(i + 1) /\ i + 1 \in Place /\ 1 < i + 1 /\ chain'[i] = chain[i + 1]
        BY <2>4, <3>1 DEF StepAt
      <4>2. chain[i + 1].of \in Step
        BY <1>4, <4>1, LinkFields DEF StepAt
      <4>3. QED
        BY <1>1, <2>2, <4>1, <4>2 DEF ChainShape
    <3>2. s \notin behind[s]
      BY <1>1 DEF RegistrationOrder
    <3>3. QED
      BY <3>1, <3>2
  <2>7. TypeOK'
    <3>1. \A i \in 1..Len(chain') : chain'[i] \in Link
      BY <2>1, ElementOfSeq
    <3>2. QED
      BY <1>1, <1>2, <1>8, <2>1, <3>1 DEF TypeOK
  <2>8. ChainShape'
    <3>1. \A i \in Place' : StepAt(i)' => body'[chain'[i].of] = "queued"
      BY <1>1, <1>2, <2>4, <2>6 DEF ChainShape, StepAt, TypeOK
    <3>2. ASSUME NEW q \in Step, body'[q] = "queued" PROVE \E i \in Place' : chain'[i] = link("step", q)
      <4>1. q # s /\ body[q] = "queued"
        BY <1>1, <1>2, <3>2 DEF TypeOK
      <4>2. PICK i \in Place : chain[i] = link("step", q)
        BY <1>1, <4>1 DEF ChainShape
      <4>3. i # 1
        BY <1>5, <2>1, <4>1, <4>2
      <4>4. QED
        BY <2>5, <4>2, <4>3
    <3>3. ASSUME NEW i \in Place', NEW j \in Place', i < j, StepAt(i)', StepAt(j)'
          PROVE  chain'[i].of \in behind'[chain'[j].of]
      <4>1. /\ i + 1 \in Place /\ j + 1 \in Place /\ i + 1 < j + 1
            /\ chain'[i] = chain[i + 1] /\ chain'[j] = chain[j + 1]
        BY <2>4, <3>3 DEF Place
      <4>2. StepAt(i + 1) /\ StepAt(j + 1)
        BY <3>3, <4>1 DEF StepAt
      <4>3. chain[i + 1].of \in behind[chain[j + 1].of]
        BY <1>1, <4>1, <4>2 DEF ChainShape
      <4>4. QED
        BY <1>2, <4>1, <4>3
    <3>4. ASSUME NEW i \in Place', chain'[i].kind = "bridgeCatch"
          PROVE  /\ chain'[i].of \in Bridged /\ body'[chain'[i].of] # "unregistered"
                 /\ body'[chain'[i].of] \in {"queued", "running"} =>
                      \E k \in Place' : k < i /\ chain'[k] = link("step", chain'[i].of)
      <4>1. /\ chain'[i] = chain[i + 1] /\ chain[i + 1].of \in Bridged /\ chain[i + 1].of \in Step
            /\ body[chain[i + 1].of] # "unregistered"
        BY <1>1, <2>4, <3>4, BridgedAssumption DEF ChainShape
      <4>2. body'[chain'[i].of] # "unregistered"
        BY <1>1, <1>2, <4>1 DEF TypeOK
      <4>3. ASSUME body'[chain'[i].of] \in {"queued", "running"}
            PROVE  \E k \in Place' : k < i /\ chain'[k] = link("step", chain'[i].of)
        <5>1. chain[i + 1].of # s /\ body[chain[i + 1].of] \in {"queued", "running"}
          BY <1>1, <1>2, <4>1, <4>3 DEF TypeOK
        <5>2. PICK k \in Place : k < i + 1 /\ chain[k] = link("step", chain[i + 1].of)
          BY <1>1, <2>4, <3>4, <4>1, <5>1 DEF ChainShape
        <5>3. k # 1
          BY <1>5, <2>1, <4>1, <5>1, <5>2
        <5>4. k - 1 < i
          BY <5>2 DEF Place
        <5>5. QED
          BY <2>5, <4>1, <5>2, <5>3, <5>4
      <4>4. QED
        BY <4>1, <4>2, <4>3
    <3>5. QED
      BY <2>1, <3>1, <3>2, <3>3, <3>4 DEF ChainShape
  <2>9. \A r \in Step : \A q \in behind[r] : q \in Step /\ (body[q] = "running" => q = s)
    <3>1. ASSUME NEW r \in Step, NEW q \in behind[r], body[q] = "running" PROVE q = s
      <4>1. q \in Step /\ link("step", q) = link("step", s)
        BY <1>1, <1>9, <3>1 DEF RegistrationOrder, onChain, TypeOK
      <4>2. QED
        BY <1>5, <4>1
    <3>2. QED
      BY <1>1, <3>1 DEF TypeOK
  <2>10. RegistrationOrder'
    BY <1>1, <1>2, <2>9 DEF RegistrationOrder, TypeOK
  <2>11. RejectedByRawStep'
    <3>1. rejected' => started' /\ s \in Step \ Bridged /\ body'[s] = "failed"
            /\ \A i \in Place' : StepAt(i)' => s \in behind'[chain'[i].of]
      BY <1>1, <1>2, <2>1, <2>6 DEF RegistrationOrder, TypeOK
    <3>2. QED
      BY <1>1, <1>2, <2>1, <2>3, <3>1 DEF RejectedByRawStep, TypeOK
  <2>12. NothingRunsPastFailure'
    BY <1>1, <1>2, <2>3 DEF NothingRunsPastFailure, RejectedByRawStep, RegistrationOrder, TypeOK
  <2>13. QED
    BY <1>6, <1>7, <2>7, <2>8, <2>10, <2>11, <2>12 DEF BridgeInv
<1>10. CASE ~onChain(s)
  <2>1. UNCHANGED <<chain, rejected>>
    BY <1>10 DEF EndStep
  <2>2. TypeOK'
    BY <1>1, <1>2, <1>8, <2>1 DEF TypeOK
  <2>3. \A i \in Place : StepAt(i) => chain[i].of \in Step /\ chain[i].of # s
    <3>1. ASSUME NEW i \in Place, StepAt(i) PROVE chain[i].of \in Step /\ chain[i] = link("step", chain[i].of)
      BY <1>4, <3>1, LinkFields DEF StepAt
    <3>2. QED
      BY <1>1, <1>2, <1>10, <3>1, RunsAtHead
  <2>4. ChainShape'
    <3>1. \A i \in Place' : StepAt(i)' =>
            \/ body'[chain'[i].of] = "queued"
            \/ i = 1 /\ body'[chain'[i].of] = "running" /\ started' /\ ~rejected'
      BY <1>1, <1>2, <2>1, <2>3 DEF ChainShape, TypeOK, Place, StepAt
    <3>2. \A q \in Step : body'[q] = "queued" => \E i \in Place' : chain'[i] = link("step", q)
      BY <1>1, <1>2, <2>1 DEF ChainShape, TypeOK, Place
    <3>3. \A i \in Place' : chain'[i].kind = "bridgeCatch" =>
            /\ chain'[i].of \in Bridged /\ body'[chain'[i].of] # "unregistered"
            /\ body'[chain'[i].of] \in {"queued", "running"} =>
                 \E k \in Place' : k < i /\ chain'[k] = link("step", chain'[i].of)
      <4>1. \A i \in Place : chain[i].kind = "bridgeCatch" =>
              /\ chain[i].of \in Bridged /\ chain[i].of \in Step
              /\ body'[chain[i].of] # "unregistered"
              /\ body'[chain[i].of] \in {"queued", "running"} => body[chain[i].of] \in {"queued", "running"}
        BY <1>1, <1>2, BridgedAssumption DEF ChainShape, TypeOK
      <4>2. Place' = Place
        BY <2>1 DEF Place
      <4>3. QED
        BY <1>1, <2>1, <4>1, <4>2 DEF ChainShape
    <3>4. QED
      BY <1>1, <1>2, <2>1, <3>1, <3>2, <3>3 DEF ChainShape, Place, StepAt
  <2>5. \A r \in Step : s \notin behind[r]
    BY <1>1, <1>2, <1>10 DEF RegistrationOrder
  <2>6. RegistrationOrder'
    BY <1>1, <1>2, <2>1, <2>5 DEF RegistrationOrder, TypeOK, onChain
  <2>7. RejectedByRawStep'
    <3>1. rejected' => started' /\ \E q \in Step \ Bridged :
            body'[q] = "failed" /\ \A i \in Place' : StepAt(i)' => q \in behind'[chain'[i].of]
      BY <1>1, <1>2, <2>1 DEF RejectedByRawStep, TypeOK, Place, StepAt
    <3>2. QED
      BY <1>1, <1>2, <2>1, <2>5, <3>1 DEF RejectedByRawStep, TypeOK
  <2>8. NothingRunsPastFailure'
    BY <1>1, <1>2, <2>5 DEF NothingRunsPastFailure, TypeOK
  <2>9. QED
    BY <1>6, <1>7, <2>2, <2>4, <2>6, <2>7, <2>8 DEF BridgeInv
<1>11. QED
  BY <1>9, <1>10

\* Every step of a migration keeps the invariant.
LEMMA BridgeStep == BridgeInv /\ [Next]_vars => BridgeInv'
<1> SUFFICES ASSUME BridgeInv, [Next]_vars PROVE BridgeInv'
  OBVIOUS
<1>1. ASSUME NEW s \in Step, RegisterEarly(s) \/ RegisterLate(s) \/ Drive(s) PROVE BridgeInv'
  BY <1>1, RegisterEarlyStep, RegisterLateStep, ReachStepStep, RunnerStep, BridgeCatchStep, EndStepStep
     DEF Drive
<1>2. ASSUME Start \/ ReachDone PROVE BridgeInv'
  BY <1>2, StartStep, RunnerStep
<1>3. CASE UNCHANGED vars
  <2>1. TypeOK'
    BY <1>3 DEF vars, BridgeInv, TypeOK
  <2>2. ChainShape' /\ RegistrationOrder'
    BY <1>3 DEF vars, BridgeInv, ChainShape, RegistrationOrder, Place, StepAt, onChain
  <2>3. SettledWithItsStep' /\ RejectedByRawStep'
    BY <1>3 DEF vars, BridgeInv, SettledWithItsStep, RejectedByRawStep, Place, StepAt, onChain
  <2>4. AnswersForItsStep' /\ NothingRunsPastFailure'
    BY <1>3 DEF vars, BridgeInv, AnswersForItsStep, NothingRunsPastFailure, onChain
  <2> QED BY <2>1, <2>2, <2>3, <2>4 DEF BridgeInv
<1>4. QED
  BY <1>1, <1>2, <1>3 DEF Next

\* The invariant holds throughout every migration.
LEMMA BridgeCorrect == Spec => []BridgeInv
BY BridgeInit, BridgeStep, PTL DEF Spec

-----------------------------------------------------------------------------
(* What follows *)

\* settleOnce never throws (queue.ts:82): of a failing step and the catch behind it only
\* one settles the promise, whatever mix of raw and bridged steps a migration has.
THEOREM SettlesAtMostOnce == Spec => []TypeOK
<1>1. BridgeInv => TypeOK
  BY DEF BridgeInv
<1>2. QED
  BY <1>1, BridgeCorrect, PTL

\* A promise of runThroughQueue answers for its own step: no other step's failure reaches
\* its caller, except that a raw one ahead of it kept it from running, and the runner
\* hears of no bridged step's failure.
THEOREM PromisesAnswerForTheirStep == Spec => []AnswersForItsStep
<1>1. BridgeInv => AnswersForItsStep
  BY DEF BridgeInv
<1>2. QED
  BY <1>1, BridgeCorrect, PTL

\* The host's rule survives the bridge: behind a raw step that failed no step of the chain
\* runs, however many bridged ones stand between them.
THEOREM FailuresStopTheChain == Spec => []NothingRunsPastFailure
<1>1. BridgeInv => NothingRunsPastFailure
  BY DEF BridgeInv
<1>2. QED
  BY <1>1, BridgeCorrect, PTL
===============================================================================
