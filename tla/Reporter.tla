-------------------------------- MODULE Reporter --------------------------------
(***************************************************************************)
(* The reporter of RTT traces: src/wisun_node_monitoring/app_reporter.c.   *)
(*                                                                         *)
(* A CoAP request or a Direct Connect link starts the reporting: it sets   *)
(* the destination and the strings to look for and starts a periodic       *)
(* timer, without a lock.  At each expiry a low-priority thread reads the  *)
(* traces written meanwhile, keeps the lines that match and sends them.    *)
(***************************************************************************)
EXTENDS Integers, Sequences

CONSTANTS
  Starters,   \* the CoAP thread and the event task (Direct Connect)
  Requests,   \* records [dest, match]: destination, sequence of match strings
  Strings,    \* match strings
  OneCharacter, \* those of them that have a single character
  All,        \* the match string "*"
  Lines,      \* trace lines, records [strings, length]: the match strings found in it
  ByteLimit,  \* one more than the largest uint8_t (256)
  MatchSlots, \* the size of reporter_matches.match (10)
  MaxBatch,   \* bound: lines not read yet
  MaxStarts,  \* bound: calls of app_start_reporter
  MaxLines,   \* bound: lines written
  None

ASSUME ReporterAssumption ==
  /\ All \in OneCharacter /\ OneCharacter \subseteq Strings /\ None \notin Strings
  /\ \A l \in Lines : l.strings \subseteq Strings /\ l.length \in Nat \ {0}
  /\ \A r \in Requests : r.match \in Seq(Strings) /\ Len(r.match) <= MatchSlots
  /\ None \notin Requests
  /\ ByteLimit \in Nat \ {0, 1}
  /\ MatchSlots \in Nat \ {0} /\ MaxBatch \in Nat
  /\ MaxStarts \in Nat /\ MaxLines \in Nat

VARIABLES
  thread,    \* where app_reporter_task stands
  group,     \* rtt_report_task_flag_group exists
  sendFlag,  \* RTT_REPORT_TASK_FLAG_SEND
  timer,     \* app_reporter_timer is running
  failed,    \* the assertion of reporter_timer_cb failed: the device crashes
  dest,      \* ipv6_dest
  nbMatches, match,  \* reporter_matches
  start,     \* per starter, [request, step] of its call of app_start_reporter
  traces,    \* the RTT up buffer: the lines not read yet
  batch,     \* log_buffer
  filtered,  \* how many of its lines were filtered
  kept,      \* lines_to_send
  textLength, \* strlen of lines_to_send, less the tag of the device and the space
  starts, written,  \* counted for the bounds
  latest,    \* auxiliary: the last request, if its start was not mixed with another
  calm,      \* auxiliary: no start went on since the batch was read
  late       \* auxiliary: datagrams sent since the reporting was stopped, or None

batchVars == <<batch, filtered, kept, textLength>>
threadVars == <<thread, batchVars>>
timerVars == <<timer, sendFlag, failed>>
requestVars == <<dest, nbMatches, match>>
boundVars == <<starts, written>>
vars == <<threadVars, group, timerVars, requestVars, start, traces, boundVars, latest, calm, late>>

NotStarting == [request |-> None, step |-> 0]
Starting(c) == start[c] # NotStarting

-----------------------------------------------------------------------------
(* app_start_reporter and app_stop_reporter, called by any starter.        *)

(* The first call creates the thread; the destination is set.              *)
Start(c, r) ==
  /\ ~Starting(c)
  /\ starts < MaxStarts
  /\ starts' = starts + 1
  /\ thread' = IF thread = "none" THEN "setup" ELSE thread
  /\ dest' = r.dest
  /\ start' = [start EXCEPT ![c] = [request |-> r, step |-> 0]]
  /\ latest' = IF \E d \in Starters : Starting(d) THEN None ELSE r
  /\ calm' = FALSE
  /\ UNCHANGED <<batchVars, group, timerVars, nbMatches, match, traces, written, late>>

ClearMatchesNot(c) ==
  /\ Starting(c) /\ start[c].step = 0
  /\ match' = IF start[c].request.match = <<>> THEN [match EXCEPT ![1] = None] ELSE match
  /\ start' = [start EXCEPT ![c].step = 1]
  /\ calm' = FALSE
  /\ UNCHANGED <<threadVars, group, timerVars, dest, nbMatches, traces, boundVars, latest, late>>

(* nb_matches = 0; a string without any match string takes the first slot. *)
ClearMatches(c) ==
  /\ Starting(c) /\ start[c].step = 0
  /\ nbMatches' = 0
  /\ match' = IF start[c].request.match = <<>> THEN [match EXCEPT ![1] = None] ELSE match
  /\ start' = [start EXCEPT ![c].step = 1]
  /\ calm' = FALSE
  /\ UNCHANGED <<threadVars, group, timerVars, dest, traces, boundVars, latest, late>>

(* The next match string goes to the slot nb_matches, wherever that is now.*)
AddMatch(c) ==
  /\ Starting(c) /\ start[c].step \in 1 .. Len(start[c].request.match)
  /\ nbMatches' = nbMatches + 1
  /\ match' = [match EXCEPT ![nbMatches'] = start[c].request.match[start[c].step]]
  /\ start' = [start EXCEPT ![c].step = @ + 1]
  /\ calm' = FALSE
  /\ UNCHANGED <<threadVars, group, timerVars, dest, traces, boundVars, latest, late>>

(* A timer that is running already goes on as it is.                       *)
StartTimer(c) ==
  /\ Starting(c) /\ start[c].step = Len(start[c].request.match) + 1
  /\ timer' = TRUE
  /\ start' = [start EXCEPT ![c] = NotStarting]
  /\ late' = None
  /\ UNCHANGED <<threadVars, group, sendFlag, failed, requestVars, traces, boundVars, latest, calm>>

Stop(c) ==
  /\ ~Starting(c)
  /\ timer
  /\ timer' = FALSE
  /\ late' = 0
  /\ UNCHANGED <<threadVars, group, sendFlag, failed, requestVars, start, traces, boundVars,
                 latest, calm>>

-----------------------------------------------------------------------------
(* The timer interrupt and the traces.                                     *)

(* osEventFlagsSet refuses a group that does not exist (yet).              *)
TimerExpires ==
  /\ timer
  /\ IF group THEN sendFlag' = TRUE /\ UNCHANGED failed
              ELSE failed' = TRUE /\ UNCHANGED sendFlag
  /\ UNCHANGED <<threadVars, group, timer, requestVars, start, traces, boundVars, latest, calm,
                 late>>

Trace(l) ==
  /\ written < MaxLines /\ Len(traces) < MaxBatch
  /\ written' = written + 1
  /\ traces' = Append(traces, l)
  /\ UNCHANGED <<threadVars, group, timerVars, requestVars, start, starts, latest, calm, late>>

-----------------------------------------------------------------------------
(* The thread: app_reporter_task and check_and_send_reporter_logs.         *)

Setup ==
  /\ thread = "setup"
  /\ group' = TRUE
  /\ thread' = "wait"
  /\ UNCHANGED <<batchVars, timerVars, requestVars, start, traces, boundVars,
                 latest, calm, late>>

(* No memory or no socket: the thread ends.                                *)
SetupFails ==
  /\ thread = "setup"
  /\ thread' = "gone"
  /\ UNCHANGED <<batchVars, group, timerVars, requestVars, start, traces, boundVars,
                 latest, calm, late>>

WakeNoClear ==
  /\ thread = "wait"
  /\ sendFlag
  /\ thread' = "read"
  /\ UNCHANGED <<batchVars, group, timerVars, requestVars, start, traces,
                 boundVars, latest, calm, late>>

(* osEventFlagsWait returns and clears the flag.                           *)
Wake ==
  /\ thread = "wait"
  /\ sendFlag
  /\ sendFlag' = FALSE
  /\ thread' = "read"
  /\ UNCHANGED <<batchVars, group, timer, failed, requestVars, start, traces,
                 boundVars, latest, calm, late>>

ReadNothingEnds ==
  /\ thread = "read"
  /\ batch' = traces
  /\ traces' = <<>>
  /\ filtered' = 0
  /\ kept' = <<>> /\ textLength' = 0
  /\ thread' = IF traces = <<>> THEN "gone" ELSE "filter"
  /\ calm' = ~(\E c \in Starters : Starting(c))
  /\ UNCHANGED <<group, timerVars, requestVars, start, boundVars, latest, late>>

(* All unread traces are taken, under the RTT lock; without any, the       *)
(* lines to send stay as they were.                                        *)
Read ==
  /\ thread = "read"
  /\ batch' = traces
  /\ traces' = <<>>
  /\ filtered' = 0
  /\ IF traces = <<>> THEN UNCHANGED <<kept, textLength>> ELSE kept' = <<>> /\ textLength' = 0
  /\ thread' = IF traces = <<>> THEN "wait" ELSE "filter"
  /\ calm' = ~(\E c \in Starters : Starting(c))
  /\ UNCHANGED <<group, timerVars, requestVars, start, boundVars, latest, late>>

(* "*" counts in the first slot, alone, and whatever nb_matches is; any    *)
(* other string of one character matches no line.                          *)
Matches(l) ==
  \/ match[1] = All
  \/ \E i \in 1 .. nbMatches : match[i] \notin OneCharacter /\ match[i] \in l.strings

(* A new line comes between two lines kept: before a line unless           *)
(* line_count, a uint8_t, is 1 or has wrapped to 0.                        *)
LengthWith(l) == textLength + l.length + (IF (Len(kept) + 1) % ByteLimit > 1 THEN 1 ELSE 0)

FilterLine ==
  /\ thread = "filter" /\ filtered < Len(batch)
  /\ filtered' = filtered + 1
  /\ IF Matches(batch[filtered'])
     THEN /\ kept' = Append(kept, batch[filtered'])
          /\ textLength' = LengthWith(batch[filtered'])
     ELSE UNCHANGED <<kept, textLength>>
  /\ UNCHANGED <<thread, batch, group, timerVars, requestVars, start, traces, boundVars,
                 latest, calm, late>>

(* filter_log_lines returns the length as a uint8_t.                       *)
FilteredBytes == textLength % ByteLimit

(* Only filtered bytes are sent; and whether the datagram can be sent or   *)
(* not, it is not tried again.                                             *)
Send ==
  /\ thread = "filter" /\ filtered = Len(batch)
  /\ thread' = "wait"
  /\ batch' = <<>> /\ filtered' = 0
  /\ late' = IF late # None /\ FilteredBytes > 0 THEN late + 1 ELSE late
  /\ UNCHANGED <<kept, textLength, group, timerVars, requestVars, start, traces, boundVars,
                 latest, calm>>

-----------------------------------------------------------------------------
Init ==
  /\ thread = "none" /\ group = FALSE
  /\ sendFlag = FALSE /\ timer = FALSE /\ failed = FALSE
  /\ dest = None /\ nbMatches = 0 /\ match = [i \in 1 .. MatchSlots |-> None]
  /\ start = [c \in Starters |-> NotStarting]
  /\ traces = <<>> /\ batch = <<>> /\ filtered = 0 /\ kept = <<>> /\ textLength = 0
  /\ starts = 0 /\ written = 0
  /\ latest = None /\ calm = FALSE /\ late = None

Starter ==
  \E c \in Starters :
    \/ \E r \in Requests : Start(c, r)
    \/ ClearMatches(c) \/ AddMatch(c) \/ StartTimer(c)
    \/ Stop(c)

Report == Wake \/ Read \/ FilterLine \/ Send

Next ==
  /\ ~failed
  /\ \/ Starter \/ TimerExpires \/ Setup \/ SetupFails \/ Report
     \/ \E l \in Lines : Trace(l)

Spec == Init /\ [][Next]_vars

-----------------------------------------------------------------------------
TypeOK ==
  /\ thread \in {"none", "setup", "wait", "read", "filter", "gone"}
  /\ nbMatches \in 0 .. MatchSlots
  /\ match \in [1 .. MatchSlots -> Strings \cup {None}]
  /\ batch \in Seq(Lines) /\ filtered \in 0 .. Len(batch)
  /\ kept \in Seq(Lines) /\ textLength \in Nat
  /\ thread = "filter" => Len(kept) <= filtered
  /\ timer \in BOOLEAN /\ sendFlag \in BOOLEAN /\ failed \in BOOLEAN

(* A request asks for all lines, or for those with one of its strings;     *)
(* a string of one character, other than a first "*", asks for none.       *)
Accepts(r, l) ==
  /\ r.match # <<>>
  /\ \/ r.match[1] = All
     \/ \E i \in DOMAIN r.match : r.match[i] \in l.strings \ OneCharacter

(* lines are the members of all at the indices chosen, in their order.     *)
Picked(lines, all, chosen) ==
  \E h \in [DOMAIN lines -> chosen] :
    /\ \A i, j \in DOMAIN h : i < j => h[i] < h[j]
    /\ \A k \in chosen : \E i \in DOMAIN h : h[i] = k
    /\ \A i \in DOMAIN h : lines[i] = all[h[i]]

(* What a datagram carries are exactly the lines the last request asked    *)
(* for, and it goes to its destination, as long as no two starts ran into  *)
(* each other and none ran into the filtering: no earlier request lingers. *)
(* It is sent only when there is such a line, and whenever there is one,   *)
(* unless the length of its text is a multiple of 256: then the uint8_t    *)
(* that filter_log_lines returns is 0 and the lines are lost.              *)
SentAsRequested ==
  thread = "filter" /\ filtered = Len(batch) /\ calm /\ latest # None =>
    LET asked == {i \in DOMAIN batch : Accepts(latest, batch[i])}
    IN  /\ dest = latest.dest
        /\ Picked(kept, batch, asked)
        /\ FilteredBytes > 0 => asked # {}
        /\ asked # {} => textLength > 0 /\ (FilteredBytes > 0 \/ textLength % ByteLimit = 0)

(* Stopping the reporter does not cut off a report: two more may be sent,  *)
(* one that is under way and one the timer has asked for, but never more;  *)
(* and every variable keeps its type.                                      *)
FewReportsAfterStop ==
  /\ TypeOK
  /\ late # None => late <= 2

(* While the reporting is on, traces are read: no interleaving of timer,   *)
(* starts, stops and thread makes the thread sleep for good.               *)
TracesAreRead ==
  timer /\ group /\ traces # <<>> ~> traces = <<>> \/ ~timer
=============================================================================
