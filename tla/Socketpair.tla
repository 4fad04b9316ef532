------------------------------ MODULE Socketpair ------------------------------
(***************************************************************************)
(* The anonymous UNIX socket pair that is the worker's stdin and stdout    *)
(* (src/host/process.rs:106): the bytes on their way to the worker, which  *)
(* are only counted, the units on their way back, which processes hold the *)
(* worker's end, and the error the kernel raises on the harness's end when *)
(* the last of them closes it with input left unread.                      *)
(***************************************************************************)
EXTENDS Integers, Sequences

CONSTANTS InCap,   \* what the socket buffers towards the worker
          OutCap   \* what it buffers towards the harness

ASSUME CapAssumption == InCap \in Nat \ {0} /\ OutCap \in Nat \ {0}

\* A response as the harness tells its parts apart: the run token, the frame
\* separator, and any other content.
Units == {"token", "nl", "x"}

VARIABLES
  written,   \* units of the framed payload the harness has sent
  readIn,    \* units of it the worker side has read
  ended,     \* the harness has shut its sending direction
  shut,      \* directions the worker has shut: "in", "out"
  holds,     \* processes holding the worker's end
  reset,     \* ECONNRESET on the harness's end: "none", "pending", "taken"
  w2h,       \* units in flight towards the harness
  produced   \* history: every unit the worker side ever wrote

netVars == <<written, readIn, ended, shut, holds, reset, w2h, produced>>

NetTypeOK ==
  /\ written \in Nat /\ readIn \in 0..written
  /\ ended \in BOOLEAN /\ shut \subseteq {"in", "out"}
  /\ reset \in {"none", "pending", "taken"}
  /\ w2h \in Seq(Units) /\ produced \in Seq(Units)

NetInit ==
  /\ written = 0 /\ readIn = 0
  /\ ended = FALSE /\ shut = {} /\ holds = {}
  /\ reset = "none"
  /\ w2h = <<>> /\ produced = <<>>

\* A send finds a reader; a read may still find a writer.
InOpen == holds # {} /\ "in" \notin shut
OutOpen == holds # {} /\ "out" \notin shut

-------------------------------------------------------------------------------
\* The worker side.
ReadInput ==
  /\ readIn < written
  /\ readIn' = readIn + 1
  /\ UNCHANGED <<written, ended, shut, holds, reset, w2h, produced>>

\* A worker can only answer with a token it has read.
WriteOutput(u) ==
  /\ "out" \notin shut
  /\ Len(w2h) < OutCap
  /\ u = "token" => readIn > 0
  /\ w2h' = Append(w2h, u)
  /\ produced' = Append(produced, u)
  /\ UNCHANGED <<written, readIn, ended, shut, holds, reset>>

ShutDirection(d) ==
  /\ d \notin shut
  /\ shut' = shut \cup {d}
  /\ UNCHANGED <<written, readIn, ended, holds, reset, w2h, produced>>

\* A process started with the worker's end open holds it too.
Inherit(p) ==
  /\ holds' = holds \cup {p}
  /\ UNCHANGED <<written, readIn, ended, shut, reset, w2h, produced>>

Close(p) ==
  /\ holds' = holds \ {p}
  /\ reset' = IF holds = {p} /\ readIn < written THEN "pending" ELSE reset
  /\ UNCHANGED <<written, readIn, ended, shut, w2h, produced>>

-------------------------------------------------------------------------------
\* The harness side.
Accept(n) ==
  /\ InOpen
  /\ written + n - readIn =< InCap
  /\ written' = written + n
  /\ UNCHANGED <<readIn, ended, shut, holds, reset, w2h, produced>>

\* A send fails once nobody can read: EPIPE, or the pending ECONNRESET when
\* the end closes under a send that is blocked.
Refuse ==
  /\ ~InOpen
  /\ \/ reset' = reset
     \/ reset = "pending" /\ reset' = "taken"
  /\ UNCHANGED <<written, readIn, ended, shut, holds, w2h, produced>>

Deliver(n) ==
  /\ n \in 1..Len(w2h)
  /\ w2h' = SubSeq(w2h, n + 1, Len(w2h))
  /\ UNCHANGED <<written, readIn, ended, shut, holds, reset, produced>>

\* Queued units come first, then a pending error, then the end of file.
EndOfFile == w2h = <<>> /\ reset # "pending" /\ ~OutOpen

TakeReset ==
  /\ w2h = <<>> /\ reset = "pending"
  /\ reset' = "taken"
  /\ UNCHANGED <<written, readIn, ended, shut, holds, w2h, produced>>

EndInput ==
  /\ ended' = TRUE
  /\ UNCHANGED <<written, readIn, shut, holds, reset, w2h, produced>>
===============================================================================
