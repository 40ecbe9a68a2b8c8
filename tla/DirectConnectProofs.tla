-------------------------- MODULE DirectConnectProofs --------------------------
(***************************************************************************)
(* Proofs about the reporter, for any starters, requests, lines and bounds *)
(* (module Reporter), and about Direct Connect on top of it, for any       *)
(* number of links and whatever CoAP requests start and stop.              *)
(***************************************************************************)
EXTENDS DirectConnect, SequenceTheorems, TLAPS

USE ReporterAssumption
USE DEF batchVars, threadVars, timerVars, requestVars, boundVars

-----------------------------------------------------------------------------
(* The types of the reporter's state, whoever starts it.  How far the      *)
(* match strings of several starts fill the array depends on the starters  *)
(* and comes below, with Direct Connect.                                   *)
StartType == [request : Requests \cup {None}, step : Nat]

ReporterTypeInv ==
  /\ thread \in {"none", "setup", "wait", "read", "filter", "gone"}
  /\ nbMatches \in Nat
  /\ match \in [1 .. MatchSlots -> Strings \cup {None}]
  /\ traces \in Seq(Lines)
  /\ batch \in Seq(Lines) /\ filtered \in 0 .. Len(batch)
  /\ kept \in Seq(Lines) /\ textLength \in Nat /\ (textLength = 0 <=> kept = <<>>)
  /\ thread = "filter" => Len(kept) <= filtered
  /\ timer \in BOOLEAN /\ sendFlag \in BOOLEAN /\ failed \in BOOLEAN
  /\ start \in [Starters -> StartType]
  /\ \A c \in Starters : Starting(c) =>
       start[c].request \in Requests /\ start[c].step <= Len(start[c].request.match) + 1
  /\ latest \in Requests \cup {None}

LEMMA RequestType ==
  ASSUME NEW r \in Requests
  PROVE  /\ r.match \in Seq(Strings) /\ Len(r.match) \in 0 .. MatchSlots
         /\ \A i \in 1 .. Len(r.match) : r.match[i] \in Strings
OBVIOUS

(* Where a starter stands after each step of its call.                     *)
LEMMA StartSteps ==
  ASSUME ReporterTypeInv, NEW c \in Starters
  PROVE  /\ \A r \in Requests : Start(c, r) =>
              start' = [start EXCEPT ![c] = [request |-> r, step |-> 0]]
         /\ ClearMatches(c) =>
              start' = [start EXCEPT ![c] = [request |-> start[c].request, step |-> 1]]
         /\ AddMatch(c) =>
              start' = [start EXCEPT ![c] = [request |-> start[c].request,
                                             step |-> start[c].step + 1]]
         /\ StartTimer(c) => start' = [start EXCEPT ![c] = NotStarting]
<1>1. start \in [Starters -> StartType] /\ start[c] \in StartType
  BY DEF ReporterTypeInv
<1>2. ClearMatches(c) =>
        start' = [start EXCEPT ![c] = [request |-> start[c].request, step |-> 1]]
  BY <1>1 DEF ClearMatches, StartType
<1>3. AddMatch(c) =>
        start' = [start EXCEPT ![c] = [request |-> start[c].request,
                                       step |-> start[c].step + 1]]
  BY <1>1 DEF AddMatch, StartType
<1> QED
  BY <1>2, <1>3 DEF Start, StartTimer

(* The call of c has gone on to new: the types of start.                   *)
LEMMA StartTypeKept ==
  ASSUME ReporterTypeInv, NEW c \in Starters, NEW new \in StartType,
         new # NotStarting => new.request \in Requests /\ new.step <= Len(new.request.match) + 1,
         start' = [start EXCEPT ![c] = new]
  PROVE  /\ start' \in [Starters -> StartType]
         /\ \A d \in Starters : Starting(d)' =>
              start'[d].request \in Requests
              /\ start'[d].step <= Len(start'[d].request.match) + 1
BY DEF ReporterTypeInv, Starting

LEMMA ReporterTypeStep == ReporterTypeInv /\ [Next]_vars => ReporterTypeInv'
<1> SUFFICES ASSUME ReporterTypeInv, [Next]_vars
             PROVE  ReporterTypeInv'
  OBVIOUS
<1>t. /\ start \in [Starters -> StartType]
      /\ \A c \in Starters : start[c] \in StartType
  BY DEF ReporterTypeInv
<1>1. ASSUME NEW c \in Starters, NEW r \in Requests, Start(c, r)
      PROVE  ReporterTypeInv'
  <2>1. start' = [start EXCEPT ![c] = [request |-> r, step |-> 0]]
    BY <1>1, StartSteps
  <2>2. [request |-> r, step |-> 0] \in StartType /\ 0 <= Len(r.match) + 1
    BY RequestType DEF StartType
  <2>3. /\ start' \in [Starters -> StartType]
        /\ \A d \in Starters : Starting(d)' =>
              start'[d].request \in Requests
              /\ start'[d].step <= Len(start'[d].request.match) + 1
    BY <2>1, <2>2, StartTypeKept
  <2>4. latest' \in Requests \cup {None}
    BY <1>1 DEF Start
  <2> QED
    BY <1>1, <2>3, <2>4 DEF Start, ReporterTypeInv
<1>2. ASSUME NEW c \in Starters, ClearMatches(c)
      PROVE  ReporterTypeInv'
  <2> DEFINE r == start[c].request
  <2>1. start' = [start EXCEPT ![c] = [request |-> r, step |-> 1]]
    BY <1>2, StartSteps
  <2>2. r \in Requests
    BY <1>2 DEF ClearMatches, ReporterTypeInv
  <2>3. [request |-> r, step |-> 1] \in StartType /\ 1 <= Len(r.match) + 1
    BY <2>2, RequestType DEF StartType
  <2>4. /\ start' \in [Starters -> StartType]
        /\ \A d \in Starters : Starting(d)' =>
              start'[d].request \in Requests
              /\ start'[d].step <= Len(start'[d].request.match) + 1
    BY <2>1, <2>2, <2>3, StartTypeKept
  <2>5. nbMatches' \in Nat /\ match' \in [1 .. MatchSlots -> Strings \cup {None}]
    BY <1>2 DEF ClearMatches, ReporterTypeInv
  <2> QED
    BY <1>2, <2>4, <2>5 DEF ClearMatches, ReporterTypeInv
<1>3. ASSUME NEW c \in Starters, AddMatch(c)
      PROVE  ReporterTypeInv'
  <2> DEFINE r == start[c].request
             k == start[c].step
  <2>1. start' = [start EXCEPT ![c] = [request |-> r, step |-> k + 1]]
    BY <1>3, StartSteps
  <2>2. r \in Requests /\ k \in 1 .. Len(r.match)
    BY <1>3 DEF AddMatch, ReporterTypeInv
  <2>3. [request |-> r, step |-> k + 1] \in StartType /\ k + 1 <= Len(r.match) + 1
    <3> HIDE DEF r, k
    <3> QED
      BY <2>2, RequestType DEF StartType
  <2>4. /\ start' \in [Starters -> StartType]
        /\ \A d \in Starters : Starting(d)' =>
              start'[d].request \in Requests
              /\ start'[d].step <= Len(start'[d].request.match) + 1
    BY <2>1, <2>2, <2>3, StartTypeKept
  <2>5. r.match[k] \in Strings
    BY <2>2, RequestType
  <2>6. nbMatches' \in Nat /\ match' \in [1 .. MatchSlots -> Strings \cup {None}]
    <3>1. nbMatches' = nbMatches + 1 /\ match' = [match EXCEPT ![nbMatches'] = r.match[k]]
      BY <1>3 DEF AddMatch
    <3> HIDE DEF r, k
    <3>2. nbMatches \in Nat /\ match \in [1 .. MatchSlots -> Strings \cup {None}]
      BY DEF ReporterTypeInv
    <3>3. match' \in [1 .. MatchSlots -> Strings \cup {None}]
      BY ONLY <2>5, <3>1, <3>2
    <3> QED
      BY <3>1, <3>2, <3>3
  <2> QED
    BY <1>3, <2>4, <2>6 DEF AddMatch, ReporterTypeInv
<1>4. ASSUME NEW c \in Starters, StartTimer(c)
      PROVE  ReporterTypeInv'
  <2>1. start' = [start EXCEPT ![c] = NotStarting]
    BY <1>4, StartSteps
  <2>2. NotStarting \in StartType
    BY DEF StartType, NotStarting
  <2>3. /\ start' \in [Starters -> StartType]
        /\ \A d \in Starters : Starting(d)' =>
              start'[d].request \in Requests
              /\ start'[d].step <= Len(start'[d].request.match) + 1
    BY <2>1, <2>2, StartTypeKept
  <2> QED
    BY <1>4, <2>3 DEF StartTimer, ReporterTypeInv
<1>s. ASSUME UNCHANGED start
      PROVE  \A c \in Starters : Starting(c)' <=> Starting(c)
  BY <1>s DEF Starting
<1>5. ASSUME NEW c \in Starters, Stop(c)
      PROVE  ReporterTypeInv'
  BY <1>5, <1>s DEF Stop, ReporterTypeInv
<1>6. CASE TimerExpires
  BY <1>6, <1>s DEF TimerExpires, ReporterTypeInv
<1>7. CASE Setup \/ SetupFails \/ Wake
  BY <1>7, <1>s DEF Setup, SetupFails, Wake, ReporterTypeInv
<1>8. CASE Read
  <2>1. /\ batch' \in Seq(Lines) /\ traces' \in Seq(Lines) /\ filtered' \in 0 .. Len(batch')
    BY <1>8 DEF Read, ReporterTypeInv
  <2>2. /\ kept' \in Seq(Lines) /\ textLength' \in Nat /\ (textLength' = 0 <=> kept' = <<>>)
        /\ thread' \in {"wait", "filter"}
        /\ thread' = "filter" => Len(kept') <= filtered'
    <3>1. CASE traces = <<>>
      BY <1>8, <3>1 DEF Read, ReporterTypeInv
    <3>2. CASE traces # <<>>
      BY <1>8, <3>2 DEF Read, ReporterTypeInv
    <3> QED
      BY <3>1, <3>2
  <2> QED
    BY <1>8, <1>s, <2>1, <2>2 DEF Read, ReporterTypeInv
<1>9. CASE FilterLine
  <2>1. filtered' \in 0 .. Len(batch') /\ batch[filtered'] \in Lines
    BY <1>9 DEF FilterLine, ReporterTypeInv
  <2>2. kept' \in Seq(Lines) /\ Len(kept') <= filtered'
    <3>1. kept \in Seq(Lines) /\ Len(kept) <= filtered /\ filtered' = filtered + 1
          /\ filtered \in Nat /\ Len(kept) \in Nat
      BY <1>9 DEF FilterLine, ReporterTypeInv
    <3>2. CASE kept' = kept
      BY <3>1, <3>2
    <3>3. CASE kept' = Append(kept, batch[filtered'])
      BY <2>1, <3>1, <3>3
    <3> QED
      BY <1>9, <3>2, <3>3 DEF FilterLine
  <2>3. textLength' \in Nat /\ (textLength' = 0 <=> kept' = <<>>)
    <3>1. CASE Matches(batch[filtered'])
      <4>1. kept' = Append(kept, batch[filtered']) /\ textLength' = LengthWith(batch[filtered'])
        BY <1>9, <3>1 DEF FilterLine
      <4>2. kept' # <<>>
        BY <2>1, <4>1 DEF ReporterTypeInv
      <4>3. batch[filtered'].length \in Nat \ {0} /\ textLength \in Nat
        BY <2>1 DEF ReporterTypeInv
      <4> QED
        BY <4>1, <4>2, <4>3 DEF LengthWith
    <3>2. CASE ~Matches(batch[filtered'])
      BY <1>9, <3>2 DEF FilterLine, ReporterTypeInv
    <3> QED
      BY <3>1, <3>2
  <2> QED
    BY <1>9, <1>s, <2>1, <2>2, <2>3 DEF FilterLine, ReporterTypeInv
<1>10. CASE Send
  <2>1. batch' \in Seq(Lines) /\ filtered' \in 0 .. Len(batch')
    BY <1>10 DEF Send
  <2> QED
    BY <1>10, <1>s, <2>1 DEF Send, ReporterTypeInv
<1>11. ASSUME NEW l \in Lines, Trace(l)
       PROVE  ReporterTypeInv'
  <2>1. traces' \in Seq(Lines)
    BY <1>11 DEF Trace, ReporterTypeInv
  <2> QED
    BY <1>11, <1>s, <2>1 DEF Trace, ReporterTypeInv
<1>12. CASE UNCHANGED vars
  BY <1>12, <1>s DEF vars, ReporterTypeInv
<1> QED
  BY <1>1, <1>2, <1>3, <1>4, <1>5, <1>6, <1>7, <1>8, <1>9, <1>10, <1>11, <1>12
     DEF Next, Starter, Report

LEMMA ReporterInitType == Init => ReporterTypeInv
<1> SUFFICES ASSUME Init
             PROVE  ReporterTypeInv
  OBVIOUS
<1>1. NotStarting \in StartType
  BY DEF StartType, NotStarting
<1>2. /\ start \in [Starters -> StartType]
      /\ \A c \in Starters : ~Starting(c)
  BY <1>1 DEF Init, Starting
<1>3. traces \in Seq(Lines) /\ batch \in Seq(Lines) /\ kept \in Seq(Lines)
      /\ filtered \in 0 .. Len(batch) /\ Len(kept) <= filtered
      /\ textLength \in Nat /\ (textLength = 0 <=> kept = <<>>)
  BY DEF Init
<1> QED
  BY <1>2, <1>3 DEF Init, ReporterTypeInv

-----------------------------------------------------------------------------
(* Reports after a stop.                                                   *)

(* Once the reporting is stopped, each report that may still be sent is    *)
(* under way in the thread or asked for by the flag.                       *)
AskedFor == IF sendFlag THEN 1 ELSE 0
UnderWay == IF thread \in {"read", "filter"} THEN 1 ELSE 0

LateInv ==
  late # None => ~timer /\ late \in Nat /\ late + AskedFor + UnderWay <= 2

LEMMA LateStep == ReporterTypeInv /\ LateInv /\ [Next]_vars => LateInv'
<1> SUFFICES ASSUME ReporterTypeInv, LateInv, [Next]_vars
             PROVE  LateInv'
  OBVIOUS
<1> USE DEF LateInv, AskedFor, UnderWay
<1>t. timer \in BOOLEAN /\ sendFlag \in BOOLEAN
  BY DEF ReporterTypeInv
<1>1. ASSUME NEW c \in Starters, NEW r \in Requests, Start(c, r)
      PROVE  LateInv'
  BY <1>1, <1>t DEF Start
<1>2. ASSUME NEW c \in Starters, ClearMatches(c) \/ AddMatch(c) \/ StartTimer(c) \/ Stop(c)
      PROVE  LateInv'
  BY <1>2, <1>t DEF ClearMatches, AddMatch, StartTimer, Stop
<1>3. CASE TimerExpires \/ Setup \/ SetupFails
  BY <1>3, <1>t DEF TimerExpires, Setup, SetupFails
<1>4. CASE Report
  BY <1>4, <1>t DEF Report, Wake, Read, FilterLine, Send
<1>5. ASSUME NEW l \in Lines, Trace(l)
      PROVE  LateInv'
  BY <1>5, <1>t DEF Trace
<1>6. CASE UNCHANGED vars
  BY <1>6 DEF vars
<1> QED
  BY <1>1, <1>2, <1>3, <1>4, <1>5, <1>6 DEF Next, Starter

-----------------------------------------------------------------------------
(* What is sent is what the last request asked for.                        *)

(* A start that goes on while the traces are filtered ends the calm.       *)
CalmInv == calm => \A c \in Starters : ~Starting(c)

(* reporter_matches holds the first n strings of r, and no other.          *)
MatchHolds(r, n) ==
  /\ nbMatches = n
  /\ r.match = <<>> => match[1] = None
  /\ \A i \in 1 .. n : match[i] = r.match[i]

(* The last request, unless mixed with another, is set up step by step by  *)
(* its own starter and by no other, and stays once it is set up.           *)
SettingsInv ==
  latest # None =>
    /\ dest = latest.dest
    /\ (\A c \in Starters : ~Starting(c)) => MatchHolds(latest, Len(latest.match))
    /\ \A c \in Starters : Starting(c) =>
         /\ start[c].request = latest
         /\ \A d \in Starters \ {c} : ~Starting(d)
         /\ start[c].step > 0 => MatchHolds(latest, start[c].step - 1)

(* The lines filtered so far.                                              *)
KeptInv ==
  thread = "filter" /\ calm /\ latest # None =>
    Picked(kept, batch, {i \in 1 .. filtered : Accepts(latest, batch[i])})

SettingsUnchanged ==
  UNCHANGED <<start, latest, requestVars>>

LEMMA SettingsStep == ReporterTypeInv /\ SettingsInv /\ [Next]_vars => SettingsInv'
<1> SUFFICES ASSUME ReporterTypeInv, SettingsInv, [Next]_vars
             PROVE  SettingsInv'
  OBVIOUS
<1>t. start \in [Starters -> StartType] /\ nbMatches \in Nat
      /\ match \in [1 .. MatchSlots -> Strings \cup {None}]
  BY DEF ReporterTypeInv
<1>1. ASSUME NEW c \in Starters, NEW r \in Requests, Start(c, r)
      PROVE  SettingsInv'
  <2>1. start' = [start EXCEPT ![c] = [request |-> r, step |-> 0]] /\ dest' = r.dest
    BY <1>1, StartSteps DEF Start
  <2>2. \A d \in Starters \ {c} : Starting(d)' <=> Starting(d)
    BY <1>t, <2>1 DEF Starting
  <2>3. Starting(c)' /\ start'[c].request = r /\ start'[c].step = 0
    BY <1>t, <2>1 DEF Starting, NotStarting
  <2>4. latest' = IF \E d \in Starters : Starting(d) THEN None ELSE r
    BY <1>1 DEF Start
  <2> QED
    BY <2>1, <2>2, <2>3, <2>4 DEF SettingsInv
<1>2. ASSUME NEW c \in Starters, ClearMatches(c), latest # None
      PROVE  SettingsInv'
  <2>1. /\ start[c].request = latest
        /\ \A d \in Starters \ {c} : ~Starting(d)
        /\ dest' = latest.dest /\ latest' = latest
    BY <1>2 DEF SettingsInv, ClearMatches
  <2>2. start' = [start EXCEPT ![c] = [request |-> latest, step |-> 1]]
    BY <1>2, <2>1, StartSteps
  <2>3. \A d \in Starters \ {c} : ~Starting(d)'
    BY <1>t, <2>1, <2>2 DEF Starting
  <2>4. Starting(c)' /\ start'[c].request = latest /\ start'[c].step = 1
    BY <1>t, <2>2 DEF Starting, NotStarting
  <2>5. MatchHolds(latest, 0)'
    BY <1>2, <1>t, <2>1 DEF ClearMatches, MatchHolds
  <2> QED
    BY <2>1, <2>3, <2>4, <2>5 DEF SettingsInv
<1>3. ASSUME NEW c \in Starters, AddMatch(c), latest # None
      PROVE  SettingsInv'
  <2>1. /\ start[c].request = latest
        /\ \A d \in Starters \ {c} : ~Starting(d)
        /\ dest' = latest.dest /\ latest' = latest
    BY <1>3 DEF SettingsInv, AddMatch
  <2>2. PICK k \in 1 .. Len(latest.match) : start[c].step = k
    BY <1>3, <2>1 DEF AddMatch
  <2>3. start' = [start EXCEPT ![c] = [request |-> latest, step |-> k + 1]]
    BY <1>3, <2>1, <2>2, StartSteps
  <2>4. \A d \in Starters \ {c} : ~Starting(d)'
    BY <1>t, <2>1, <2>3 DEF Starting
  <2>5. latest \in Requests
    BY <1>3 DEF ReporterTypeInv
  <2>6. k \in 1 .. MatchSlots /\ latest.match # <<>>
    BY <2>5, RequestType
  <2>7. Starting(c)' /\ start'[c].request = latest /\ start'[c].step = k + 1
    BY <1>t, <2>3, <2>6 DEF Starting, NotStarting
  <2>8. nbMatches = k - 1 /\ \A i \in 1 .. k - 1 : match[i] = latest.match[i]
    BY <1>3, <2>1, <2>2 DEF SettingsInv, MatchHolds, AddMatch
  <2>9. nbMatches' = k /\ match' = [match EXCEPT ![k] = latest.match[k]]
    <3>1. nbMatches' = nbMatches + 1 /\ match' = [match EXCEPT ![nbMatches'] = latest.match[k]]
      BY <1>3, <2>1, <2>2 DEF AddMatch
    <3>2. nbMatches' = k
      BY <2>8, <3>1
    <3> QED
      BY <3>1, <3>2
  <2>10. \A i \in 1 .. k : match'[i] = latest.match[i]
    BY <1>t, <2>6, <2>8, <2>9
  <2>11. MatchHolds(latest, k)'
    BY <2>1, <2>6, <2>9, <2>10 DEF MatchHolds
  <2> QED
    BY <2>1, <2>4, <2>7, <2>11 DEF SettingsInv
<1>4. ASSUME NEW c \in Starters, StartTimer(c), latest # None
      PROVE  SettingsInv'
  <2>1. /\ start[c].request = latest
        /\ \A d \in Starters \ {c} : ~Starting(d)
        /\ dest' = latest.dest /\ latest' = latest
    BY <1>4 DEF SettingsInv, StartTimer
  <2>2. \A d \in Starters : ~Starting(d)'
    BY <1>4, <1>t, <2>1 DEF StartTimer, Starting
  <2>3. latest \in Requests /\ start[c].step = Len(latest.match) + 1
    BY <1>4, <2>1 DEF StartTimer, ReporterTypeInv
  <2>4. Len(latest.match) \in Nat
    BY <2>3, RequestType
  <2>5. MatchHolds(latest, Len(latest.match))
    BY <1>4, <2>1, <2>3, <2>4 DEF SettingsInv, StartTimer
  <2>6. MatchHolds(latest, Len(latest.match))'
    BY <1>4, <2>1, <2>5 DEF StartTimer, MatchHolds
  <2> QED
    BY <2>1, <2>2, <2>6 DEF SettingsInv
<1>5. ASSUME NEW c \in Starters, ClearMatches(c) \/ AddMatch(c) \/ StartTimer(c), latest = None
      PROVE  SettingsInv'
  BY <1>5 DEF ClearMatches, AddMatch, StartTimer, SettingsInv
<1>6. CASE SettingsUnchanged
  BY <1>6 DEF SettingsUnchanged, SettingsInv, MatchHolds, Starting
<1>7. ASSUME \/ \E c \in Starters : Stop(c)
             \/ TimerExpires \/ Setup \/ SetupFails \/ Report
             \/ \E l \in Lines : Trace(l)
      PROVE  SettingsUnchanged
  BY <1>7 DEF Stop, TimerExpires, Setup, SetupFails, Report, Wake, Read, FilterLine, Send, Trace,
     SettingsUnchanged
<1>8. CASE UNCHANGED vars
  BY <1>6, <1>8 DEF vars, SettingsUnchanged
<1> QED
  BY <1>1, <1>2, <1>3, <1>4, <1>5, <1>6, <1>7, <1>8 DEF Next, Starter

LEMMA CalmStep == ReporterTypeInv /\ CalmInv /\ [Next]_vars => CalmInv'
<1> SUFFICES ASSUME ReporterTypeInv, CalmInv, [Next]_vars
             PROVE  CalmInv'
  OBVIOUS
<1>1. CASE UNCHANGED <<start, calm>>
  BY <1>1 DEF CalmInv, Starting
<1>2. ASSUME NEW c \in Starters, Stop(c)
      PROVE  UNCHANGED <<start, calm>>
  BY <1>2 DEF Stop
<1>3. ASSUME \/ TimerExpires \/ Setup \/ SetupFails \/ Wake \/ FilterLine \/ Send
             \/ \E l \in Lines : Trace(l)
      PROVE  UNCHANGED <<start, calm>>
  BY <1>3 DEF TimerExpires, Setup, SetupFails, Wake, FilterLine, Send, Trace
<1>4. CASE Read
  BY <1>4 DEF Read, CalmInv, Starting
<1>5. ASSUME NEW c \in Starters, NEW r \in Requests, Start(c, r)
      PROVE  CalmInv'
  BY <1>5 DEF Start, CalmInv
<1>6. ASSUME NEW c \in Starters, ClearMatches(c) \/ AddMatch(c)
      PROVE  CalmInv'
  BY <1>6 DEF ClearMatches, AddMatch, CalmInv
<1>7. ASSUME NEW c \in Starters, StartTimer(c)
      PROVE  CalmInv'
  BY <1>7 DEF StartTimer, CalmInv
<1>8. CASE UNCHANGED vars
  BY <1>1, <1>8 DEF vars
<1> QED
  BY <1>1, <1>2, <1>3, <1>4, <1>5, <1>6, <1>7, <1>8 DEF Next, Starter, Report

(* The strings in the array select the lines that the request accepts.     *)
LEMMA MatchesAccepts ==
  ASSUME NEW r \in Requests, MatchHolds(r, Len(r.match)), NEW l \in Lines
  PROVE  Matches(l) <=> Accepts(r, l)
<1>1. r.match \in Seq(Strings) /\ DOMAIN r.match = 1 .. Len(r.match)
      /\ Len(r.match) \in Nat
  OBVIOUS
<1>2. CASE r.match = <<>>
  BY <1>1, <1>2 DEF MatchHolds, Matches, Accepts
<1>3. CASE r.match # <<>>
  <2>1. match[1] = r.match[1]
    BY <1>1, <1>3 DEF MatchHolds
  <2> QED
    BY <1>1, <1>3, <2>1 DEF MatchHolds, Matches, Accepts
<1> QED
  BY <1>2, <1>3

LEMMA PickedNext ==
  ASSUME NEW lines \in Seq(Lines), NEW all, NEW n \in Nat, NEW chosen \in SUBSET (1 .. n),
         Picked(lines, all, chosen)
  PROVE  Picked(Append(lines, all[n + 1]), all, chosen \cup {n + 1})
<1> DEFINE m == Len(lines)
           longer == Append(lines, all[n + 1])
<1>1. PICK h \in [1 .. m -> chosen] :
        /\ \A i, j \in DOMAIN h : i < j => h[i] < h[j]
        /\ \A k \in chosen : \E i \in DOMAIN h : h[i] = k
        /\ \A i \in DOMAIN h : lines[i] = all[h[i]]
  BY DEF Picked
<1>2. m \in Nat /\ DOMAIN longer = 1 .. m + 1 /\ longer[m + 1] = all[n + 1]
      /\ \A i \in 1 .. m : longer[i] = lines[i]
  OBVIOUS
<1> HIDE DEF m, longer
<1> DEFINE g == [i \in 1 .. m + 1 |-> IF i = m + 1 THEN n + 1 ELSE h[i]]
<1>3. /\ \A i \in 1 .. m : h[i] \in chosen /\ h[i] \in 1 .. n /\ i # m + 1
      /\ \A i \in 1 .. m + 1 : i \in 1 .. m \/ i = m + 1
  <2>1. \A i \in 1 .. m : h[i] \in chosen
    BY <1>1
  <2>2. \A i \in 1 .. m : i # m + 1
    BY <1>2
  <2>3. \A i \in 1 .. m + 1 : i \in 1 .. m \/ i = m + 1
    BY <1>2
  <2> QED
    BY <2>1, <2>2, <2>3
<1>4. g \in [DOMAIN longer -> chosen \cup {n + 1}]
  BY <1>2, <1>3
<1>5. \A i \in 1 .. m : g[i] = h[i]
  BY <1>2, <1>3
<1>6. g[m + 1] = n + 1 /\ DOMAIN g = 1 .. m + 1
  BY <1>2
<1> HIDE DEF g
<1>7. ASSUME NEW i \in DOMAIN g, NEW j \in DOMAIN g, i < j
      PROVE  g[i] < g[j]
  <2>1. i \in 1 .. m
    BY <1>2, <1>6, <1>7
  <2>2. CASE j \in 1 .. m
    BY <1>1, <1>5, <1>7, <2>1, <2>2
  <2>3. CASE j = m + 1
    <3>1. g[i] \in 1 .. n /\ g[j] = n + 1
      BY <1>3, <1>5, <1>6, <2>1, <2>3
    <3> QED
      BY <3>1
  <2> QED
    BY <1>3, <1>6, <2>2, <2>3
<1>8. ASSUME NEW k \in chosen \cup {n + 1}
      PROVE  \E i \in DOMAIN g : g[i] = k
  <2>1. CASE k \in chosen
    <3>1. PICK i \in 1 .. m : h[i] = k
      BY <1>1, <2>1
    <3>2. i \in DOMAIN g /\ g[i] = k
      BY <1>2, <1>5, <1>6, <3>1
    <3> QED
      BY <3>2
  <2>2. CASE k = n + 1
    <3>1. m + 1 \in DOMAIN g
      BY <1>2, <1>6
    <3> QED
      BY <1>6, <2>2, <3>1
  <2> QED
    BY <1>8, <2>1, <2>2
<1>9. \A i \in DOMAIN g : longer[i] = all[g[i]]
  <2>1. \A i \in 1 .. m : longer[i] = all[g[i]]
    BY <1>1, <1>2, <1>5
  <2>2. longer[m + 1] = all[g[m + 1]]
    BY <1>2, <1>6
  <2> QED
    BY <1>3, <1>6, <2>1, <2>2
<1>10. Picked(longer, all, chosen \cup {n + 1})
  BY <1>4, <1>7, <1>8, <1>9 DEF Picked
<1> QED
  BY <1>10 DEF longer

LEMMA KeptStep ==
  ReporterTypeInv /\ SettingsInv /\ CalmInv /\ KeptInv /\ [Next]_vars => KeptInv'
<1> SUFFICES ASSUME ReporterTypeInv, SettingsInv, CalmInv, KeptInv, [Next]_vars
             PROVE  KeptInv'
  OBVIOUS
<1>1. CASE UNCHANGED <<thread, batch, filtered, kept, calm, latest>>
  BY <1>1 DEF KeptInv, Picked, Accepts
<1>2. CASE calm' = FALSE
  BY <1>2 DEF KeptInv
<1>3. CASE thread' # "filter"
  BY <1>3 DEF KeptInv
<1>4. ASSUME NEW c \in Starters, NEW r \in Requests, Start(c, r)
      PROVE  calm' = FALSE
  BY <1>4 DEF Start
<1>5. ASSUME NEW c \in Starters, ClearMatches(c) \/ AddMatch(c)
      PROVE  calm' = FALSE
  BY <1>5 DEF ClearMatches, AddMatch
<1>6. ASSUME NEW c \in Starters, StartTimer(c) \/ Stop(c)
      PROVE  UNCHANGED <<thread, batch, filtered, kept, calm, latest>>
  BY <1>6 DEF StartTimer, Stop
<1>7. CASE Setup \/ SetupFails \/ Wake \/ Send
  BY <1>3, <1>7 DEF Setup, SetupFails, Wake, Send
<1>8. ASSUME TimerExpires \/ (\E l \in Lines : Trace(l)) \/ UNCHANGED vars
      PROVE  UNCHANGED <<thread, batch, filtered, kept, calm, latest>>
  BY <1>8 DEF TimerExpires, Trace, vars
<1>9. CASE Read
  <2> SUFFICES ASSUME thread' = "filter"
               PROVE  Picked(kept, batch, {i \in 1 .. filtered : Accepts(latest, batch[i])})'
    BY DEF KeptInv
  <2>1. kept' = <<>> /\ filtered' = 0
    BY <1>9 DEF Read
  <2>2. {i \in 1 .. filtered' : Accepts(latest, batch[i])'} = {}
    BY <2>1
  <2>3. Picked(<<>>, batch', {})
    <3>1. <<>> \in [DOMAIN <<>> -> {}] /\ DOMAIN <<>> = {}
      OBVIOUS
    <3> QED
      BY <3>1 DEF Picked
  <2> QED
    BY <2>1, <2>2, <2>3 DEF Picked
<1>10. CASE FilterLine
  <2> SUFFICES ASSUME calm', latest' # None
               PROVE  Picked(kept', batch', {i \in 1 .. filtered' : Accepts(latest', batch'[i])})
    BY DEF KeptInv, Picked, Accepts
  <2>1. /\ thread = "filter" /\ filtered < Len(batch) /\ filtered' = filtered + 1
        /\ kept' = IF Matches(batch[filtered + 1]) THEN Append(kept, batch[filtered + 1]) ELSE kept
        /\ UNCHANGED <<batch, calm, latest>>
    BY <1>10 DEF FilterLine
  <2>2. filtered \in Nat /\ kept \in Seq(Lines) /\ batch[filtered + 1] \in Lines
    BY <2>1 DEF ReporterTypeInv
  <2> DEFINE l == batch[filtered + 1]
             chosen == {i \in 1 .. filtered : Accepts(latest, batch[i])}
             chosen1 == {i \in 1 .. filtered + 1 : Accepts(latest, batch[i])}
  <2>3. latest \in Requests /\ MatchHolds(latest, Len(latest.match))
    BY <2>1 DEF ReporterTypeInv, CalmInv, SettingsInv
  <2>4. Matches(l) <=> Accepts(latest, l)
    BY <2>2, <2>3, MatchesAccepts
  <2>5. Picked(kept, batch, chosen)
    BY <2>1 DEF KeptInv
  <2>6. Picked(kept', batch, chosen1)
    <3>1. CASE Accepts(latest, l)
      <4>1. chosen1 = chosen \cup {filtered + 1}
        BY <2>2, <3>1
      <4>2. kept' = Append(kept, batch[filtered + 1])
        BY <2>1, <2>4, <3>1
      <4>3. chosen \in SUBSET (1 .. filtered)
        OBVIOUS
      <4> HIDE DEF chosen, chosen1, l
      <4> QED
        BY <2>2, <2>5, <4>1, <4>2, <4>3, PickedNext
    <3>2. CASE ~Accepts(latest, l)
      <4>1. chosen1 = chosen
        BY <2>2, <3>2
      <4> QED
        BY <2>1, <2>4, <2>5, <3>2, <4>1
    <3> QED
      BY <3>1, <3>2
  <2> QED
    BY <2>1, <2>6
<1> QED
  BY <1>1, <1>2, <1>4, <1>5, <1>6, <1>7, <1>8, <1>9, <1>10 DEF Next, Starter, Report

ReporterInv == ReporterTypeInv /\ LateInv /\ CalmInv /\ SettingsInv /\ KeptInv

LEMMA ReporterInvariant == Spec => []ReporterInv
<1>1. Init => ReporterInv
  BY ReporterInitType DEF Init, ReporterInv, LateInv, CalmInv, SettingsInv, KeptInv
<1>2. ReporterInv /\ [Next]_vars => ReporterInv'
  BY ReporterTypeStep, LateStep, CalmStep, SettingsStep, KeptStep DEF ReporterInv
<1> QED
  BY <1>1, <1>2, PTL DEF Spec

(* For any starters, requests and lines: a datagram carries exactly the    *)
(* lines the last request accepts, in order, to its destination, and is    *)
(* sent when there are any and their length is no multiple of 256, unless  *)
(* starts ran into each other or into the filtering.                       *)
THEOREM ReportsAreAsRequested == Spec => []SentAsRequested
<1>1. ReporterInv => SentAsRequested
  <2> SUFFICES ASSUME ReporterInv, thread = "filter", filtered = Len(batch), calm,
                      latest # None
               PROVE  LET asked == {i \in DOMAIN batch : Accepts(latest, batch[i])}
                      IN  /\ dest = latest.dest
                          /\ Picked(kept, batch, asked)
                          /\ FilteredBytes > 0 => asked # {}
                          /\ asked # {} =>
                               textLength > 0 /\ (FilteredBytes > 0 \/ textLength % ByteLimit = 0)
    BY DEF SentAsRequested
  <2> DEFINE asked == {i \in DOMAIN batch : Accepts(latest, batch[i])}
  <2>1. DOMAIN batch = 1 .. filtered
    BY DEF ReporterInv, ReporterTypeInv
  <2>2. dest = latest.dest /\ Picked(kept, batch, asked)
    BY <2>1 DEF ReporterInv, SettingsInv, KeptInv
  <2> HIDE DEF asked
  <2>3. kept = <<>> <=> asked = {}
    <3>1. PICK h \in [DOMAIN kept -> asked] : \A k \in asked : \E i \in DOMAIN h : h[i] = k
      BY <2>2 DEF Picked
    <3>2. kept \in Seq(Lines) /\ (kept = <<>> <=> DOMAIN kept = {})
      BY DEF ReporterInv, ReporterTypeInv
    <3>3. (\A i \in DOMAIN kept : h[i] \in asked) /\ DOMAIN h = DOMAIN kept
      BY <3>1
    <3> QED
      BY <3>1, <3>2, <3>3
  <2>4. /\ textLength \in Nat /\ (textLength = 0 <=> asked = {})
        /\ FilteredBytes = textLength % ByteLimit /\ FilteredBytes \in Nat
        /\ textLength = 0 => FilteredBytes = 0
    BY <2>3 DEF ReporterInv, ReporterTypeInv, FilteredBytes
  <2> QED
    BY <2>2, <2>4 DEF asked
<1> QED
  BY <1>1, ReporterInvariant, PTL

-----------------------------------------------------------------------------
(* Direct Connect.                                                         *)

USE DirectConnectAssumption
USE DEF linkVars

LEMMA LinkStep == [LinkNext]_allVars => [Next]_vars
<1> SUFFICES ASSUME [LinkNext]_allVars
             PROVE  [Next]_vars
  OBVIOUS
<1>1. CASE Enable \/ Stack \/ LinkAvailable \/ LinkError
  BY <1>1 DEF Enable, Stack, Offer, LinkUp, LinkLost, LinkAvailable, LinkError
<1>2. CASE LinkConnected /\ ~failed
  <2>1. Start(EventTask, LinkRequest) /\ EventTask \in Starters /\ LinkRequest \in Requests
    BY <1>2 DEF LinkConnected
  <2> QED
    BY <1>2, <2>1 DEF Next, Starter
<1>3. CASE LinkDisconnected /\ ~failed
  BY <1>3 DEF LinkDisconnected, Next, Starter
<1>4. CASE CoapRequest /\ ~failed
  BY <1>4 DEF CoapRequest, Next, Starter
<1>5. CASE Reporting /\ ~failed
  BY <1>5 DEF Reporting, Next
<1>6. ASSUME NEW c \in Starters, GoOnStarting(c), ~failed
      PROVE  Next
  BY <1>6 DEF GoOnStarting, Next, Starter
<1>7. CASE UNCHANGED allVars
  BY <1>7 DEF allVars
<1> QED
  BY <1>1, <1>2, <1>3, <1>4, <1>5, <1>6, <1>7 DEF LinkNext, LinkCallback

(* Links only start and stop the reporter as any caller may: what is       *)
(* proved of the reporter holds with Direct Connect.                       *)
THEOREM LinksUseReporter == LinkSpec => Spec
<1>1. LinkInit => Init
  BY DEF LinkInit
<1> QED
  BY <1>1, LinkStep, PTL DEF LinkSpec, Spec

(* Hence reports are as the last request asked for, its own or that of the *)
(* link.                                                                   *)
THEOREM ReportsAreAsRequestedWithLinks == LinkSpec => []SentAsRequested
BY LinksUseReporter, ReportsAreAsRequested, PTL

-----------------------------------------------------------------------------
(* How far the array of match strings fills up.                            *)

(* Each of the two starters asks for what it may ask for, and has added no *)
(* more strings, since nb_matches was last cleared, than its own call has, *)
(* or its earlier calls had: CoAP requests leave one slot, and the link    *)
(* needs one.                                                              *)
Own(c) == IF c = Coap THEN CoapRequests ELSE {LinkRequest}

Added(c) ==
  IF Starting(c) /\ start[c].step > 0 THEN start[c].step - 1
  ELSE IF c = Coap THEN MatchSlots - 1 ELSE 1

SlotsInv ==
  /\ \A c \in Starters : Starting(c) => start[c].request \in Own(c)
  /\ nbMatches <= Added(Coap) + Added(EventTask)

LEMMA AddedType ==
  ASSUME ReporterTypeInv, SlotsInv, NEW c \in Starters
  PROVE  Added(c) \in 0 .. (IF c = Coap THEN MatchSlots - 1 ELSE 1)
<1>1. CASE ~(Starting(c) /\ start[c].step > 0)
  BY <1>1 DEF Added
<1>2. CASE Starting(c) /\ start[c].step > 0
  <2>1. start[c].request \in Own(c) /\ start[c].request \in Requests
    BY <1>2 DEF SlotsInv, ReporterTypeInv
  <2>2. Len(start[c].request.match) \in Nat
        /\ Len(start[c].request.match) <= IF c = Coap THEN MatchSlots - 1 ELSE 1
    <3>1. CASE c = Coap
      BY <2>1, <3>1, RequestType DEF Own
    <3>2. CASE c # Coap
      <4>1. start[c].request.match = <<All>>
        BY <2>1, <3>2 DEF Own, LinkRequest
      <4> QED
        BY <3>2, <4>1
    <3> QED
      BY <3>1, <3>2
  <2>3. start[c].step \in Nat /\ start[c].step <= Len(start[c].request.match) + 1
    BY <1>2 DEF ReporterTypeInv, StartType
  <2>4. Added(c) = start[c].step - 1
    BY <1>2 DEF Added
  <2> QED
    BY <1>2, <2>2, <2>3, <2>4
<1> QED
  BY <1>1, <1>2

LEMMA SlotsStep == ReporterTypeInv /\ SlotsInv /\ [LinkNext]_allVars => SlotsInv'
<1> SUFFICES ASSUME ReporterTypeInv, SlotsInv, [LinkNext]_allVars
             PROVE  SlotsInv'
  OBVIOUS
<1>r. ReporterTypeInv'
  BY LinkStep, ReporterTypeStep
<1>t. /\ start \in [Starters -> StartType] /\ nbMatches \in Nat
      /\ \A c \in Starters : start[c].step \in Nat
  BY DEF ReporterTypeInv, StartType
<1>a. ASSUME UNCHANGED start
      PROVE  \A c \in Starters : Added(c)' = Added(c)
  BY <1>a DEF Added, Starting
<1>b. ASSUME NEW c \in Starters, \A d \in Starters : d # c => start'[d] = start[d]
      PROVE  \A d \in Starters : d # c => Added(d)' = Added(d)
  <2>1. ASSUME NEW d \in Starters, start'[d] = start[d]
        PROVE  Added(d)' = Added(d)
    BY <2>1 DEF Added, Starting
  <2> QED
    BY <1>b, <2>1
<1>1. CASE UNCHANGED <<start, nbMatches>>
  BY <1>1 DEF SlotsInv, Added, Starting, Own
<1>2. ASSUME NEW c \in Starters, NEW r \in Own(c), Start(c, r)
      PROVE  SlotsInv'
  <2>1. r \in Requests
    BY <1>2 DEF Own
  <2>2. start' = [start EXCEPT ![c] = [request |-> r, step |-> 0]]
        /\ ~Starting(c) /\ nbMatches' = nbMatches
    BY <1>2, <2>1, StartSteps DEF Start
  <2>3. \A d \in Starters : Added(d)' = Added(d)
    BY <1>t, <2>2 DEF Added, Starting, NotStarting
  <2>4. \A d \in Starters : Starting(d)' => start'[d].request \in Own(d)
    BY <1>2, <1>t, <2>2 DEF SlotsInv, Starting
  <2> QED
    BY <2>2, <2>3, <2>4 DEF SlotsInv, Own
<1>3. ASSUME NEW c \in Starters, ClearMatches(c)
      PROVE  SlotsInv'
  <2>1. start' = [start EXCEPT ![c] = [request |-> start[c].request, step |-> 1]]
        /\ Starting(c) /\ nbMatches' = 0
    BY <1>3, StartSteps DEF ClearMatches
  <2>2. \A d \in Starters : Starting(d)' => start'[d].request \in Own(d)
    BY <1>t, <2>1 DEF SlotsInv, Starting
  <2>3. \A d \in Starters : d # c => Added(d)' = Added(d)
    <3>1. \A d \in Starters : d # c => start'[d] = start[d]
      BY <1>t, <2>1
    <3> QED
      BY <1>b, <3>1
  <2>4. Added(c)' = 0
    <3>1. start'[c] = [request |-> start[c].request, step |-> 1]
      BY <1>t, <2>1
    <3>2. start'[c] # NotStarting /\ start'[c].step = 1
      BY <3>1 DEF NotStarting
    <3> QED
      BY <3>2 DEF Added, Starting
  <2>5. \A d \in Starters : Added(d) \in Nat
    BY AddedType
  <2>6. Added(Coap)' \in Nat /\ Added(EventTask)' \in Nat
    BY <2>3, <2>4, <2>5
  <2> QED
    BY <2>1, <2>2, <2>6 DEF SlotsInv, Own
<1>4. ASSUME NEW c \in Starters, AddMatch(c)
      PROVE  SlotsInv'
  <2>1. start' = [start EXCEPT ![c] = [request |-> start[c].request, step |-> start[c].step + 1]]
        /\ Starting(c) /\ nbMatches' = nbMatches + 1 /\ start[c].step > 0
    <3>1. start[c].request \in Requests /\ start[c].step \in 1 .. Len(start[c].request.match)
      BY <1>4 DEF AddMatch, ReporterTypeInv
    <3>2. start[c].step > 0
      BY <3>1, <1>t, RequestType
    <3> QED
      BY <1>4, <3>2, StartSteps DEF AddMatch
  <2>2. \A d \in Starters : Starting(d)' => start'[d].request \in Own(d)
    BY <1>t, <2>1 DEF SlotsInv, Starting
  <2>3. \A d \in Starters : d # c => Added(d)' = Added(d)
    <3>1. \A d \in Starters : d # c => start'[d] = start[d]
      BY <1>t, <2>1
    <3> QED
      BY <1>b, <3>1
  <2>4. Added(c)' = Added(c) + 1
    <3>1. start'[c] = [request |-> start[c].request, step |-> start[c].step + 1]
      BY <1>t, <2>1
    <3>2. start[c].step \in Nat /\ start[c].step > 0
      BY <1>t, <2>1
    <3>3. start'[c].step = start[c].step + 1 /\ start'[c].step > 0
      BY <3>1, <3>2
    <3>4. start'[c] # NotStarting
      BY <3>3, <3>2 DEF NotStarting
    <3>5. Added(c) = start[c].step - 1
      BY <2>1, <3>2 DEF Added
    <3>6. Added(c)' = start'[c].step - 1
      BY <3>3, <3>4 DEF Added, Starting
    <3> QED
      BY <3>2, <3>3, <3>5, <3>6
  <2>5. \A d \in Starters : Added(d) \in Nat
    BY AddedType
  <2>6. Added(Coap)' + Added(EventTask)' = Added(Coap) + Added(EventTask) + 1
    BY <2>3, <2>4, <2>5
  <2> QED
    BY <1>t, <2>1, <2>2, <2>5, <2>6 DEF SlotsInv, Own
<1>5. ASSUME NEW c \in Starters, StartTimer(c)
      PROVE  SlotsInv'
  <2>1. start' = [start EXCEPT ![c] = NotStarting] /\ nbMatches' = nbMatches
    BY <1>5, StartSteps DEF StartTimer
  <2>2. \A d \in Starters : Starting(d)' => start'[d].request \in Own(d)
    BY <1>t, <2>1 DEF SlotsInv, Starting
  <2>3. \A d \in Starters : d # c => Added(d)' = Added(d)
    <3>1. \A d \in Starters : d # c => start'[d] = start[d]
      BY <1>t, <2>1
    <3> QED
      BY <1>b, <3>1
  <2>4. Added(c)' = (IF c = Coap THEN MatchSlots - 1 ELSE 1)
    <3>1. start'[c] = NotStarting
      BY <1>t, <2>1
    <3> QED
      BY <3>1 DEF Added, Starting
  <2>5. Added(c) \in Nat /\ Added(c)' \in Nat /\ Added(c) <= Added(c)'
    BY <2>4, AddedType
  <2>6. \A d \in Starters : Added(d) \in Nat
    BY AddedType
  <2>7. Added(Coap) + Added(EventTask) <= Added(Coap)' + Added(EventTask)'
    BY <2>3, <2>5, <2>6
  <2> QED
    BY <1>t, <2>1, <2>2, <2>3, <2>5, <2>6, <2>7 DEF SlotsInv, Own
<1>6. CASE Enable \/ Stack \/ LinkAvailable \/ LinkError \/ Reporting
  <2>1. UNCHANGED <<start, nbMatches>>
    BY <1>6 DEF Enable, Stack, Offer, LinkUp, LinkLost, LinkAvailable, LinkError, Reporting, vars,
       TimerExpires, Setup, SetupFails, Report, Wake, Read, FilterLine, Send, Trace
  <2> QED
    BY <1>1, <2>1
<1>7. CASE LinkConnected
  BY <1>2, <1>7 DEF LinkConnected, Own
<1>8. CASE LinkDisconnected
  BY <1>1, <1>8 DEF LinkDisconnected, Stop, vars
<1>9. CASE CoapRequest
  BY <1>1, <1>2, <1>9 DEF CoapRequest, Own, Stop
<1>10. ASSUME NEW c \in Starters, GoOnStarting(c)
       PROVE  SlotsInv'
  BY <1>3, <1>4, <1>5, <1>10 DEF GoOnStarting
<1>11. CASE UNCHANGED allVars
  BY <1>1, <1>11 DEF allVars, vars
<1> QED
  BY <1>6, <1>7, <1>8, <1>9, <1>10, <1>11 DEF LinkNext, LinkCallback

(* No more than two reports follow a stop, and the strings of two starts   *)
(* that ran into each other stay inside the array.                         *)
THEOREM StopLeavesFewReports == LinkSpec => []FewReportsAfterStop
<1>1. LinkInit => SlotsInv
  BY DEF LinkInit, Init, SlotsInv, Added, Starting, NotStarting
<1>2. Spec => [](ReporterTypeInv /\ LateInv)
  BY ReporterInvariant, PTL DEF ReporterInv
<1>3. ReporterTypeInv /\ LateInv /\ SlotsInv => FewReportsAfterStop
  <2> SUFFICES ASSUME ReporterTypeInv, LateInv, SlotsInv
               PROVE  FewReportsAfterStop
    OBVIOUS
  <2>1. Added(Coap) \in 0 .. MatchSlots - 1 /\ Added(EventTask) \in 0 .. 1
    BY AddedType
  <2>2. nbMatches \in 0 .. MatchSlots
    BY <2>1 DEF SlotsInv, ReporterTypeInv
  <2>3. late # None => late <= 2
    BY DEF LateInv, AskedFor, UnderWay
  <2> QED
    BY <2>2, <2>3 DEF FewReportsAfterStop, TypeOK, ReporterTypeInv
<1> QED
  BY <1>1, <1>2, <1>3, LinksUseReporter, SlotsStep, PTL DEF LinkSpec

-----------------------------------------------------------------------------
(* The indications of the stack.                                           *)

Indicated(i) == \E k \in DOMAIN indications : indications[k] = i

(* An indication of a link that came up is followed by that of its loss,   *)
(* unless the link is up; one link at most is offered, and nothing else    *)
(* happens to it until the offer is taken up; and while the event task is  *)
(* starting the reporter the link is up, or its loss is to be delivered.   *)
LinkInv ==
  /\ \A i \in DOMAIN indications : indications[i] = "connected" =>
       \/ link = "connected"
       \/ \E j \in DOMAIN indications : i < j /\ indications[j] = "disconnected"
  /\ \A i \in DOMAIN indications : indications[i] = "available" =>
       /\ link = "offered"
       /\ \A j \in DOMAIN indications : indications[j] = "available" => i = j
  /\ Starting(EventTask) => link = "connected" \/ Indicated("disconnected")

ToTool ==
  timer /\ dest = Tool /\ latest # None => link = "connected" \/ Indicated("disconnected")

(* A new indication comes last.                                            *)
LEMMA Queued ==
  ASSUME LinkTypeOK, NEW x \in {"available", "connected", "error", "disconnected"},
         indications' = Append(indications, x)
  PROVE  /\ indications' \in Seq({"available", "connected", "error", "disconnected"})
         /\ DOMAIN indications' = 1 .. Len(indications) + 1
         /\ DOMAIN indications = 1 .. Len(indications) /\ Len(indications) \in Nat
         /\ indications'[Len(indications) + 1] = x
         /\ \A i \in DOMAIN indications : indications'[i] = indications[i]
         /\ \A i \in DOMAIN indications : i \in DOMAIN indications' /\ i < Len(indications) + 1
         /\ \A i \in DOMAIN indications' : i \in DOMAIN indications \/ i = Len(indications) + 1
         /\ \A i : Indicated(i)' <=> Indicated(i) \/ i = x
<1>1. /\ indications' \in Seq({"available", "connected", "error", "disconnected"})
      /\ DOMAIN indications' = 1 .. Len(indications) + 1
      /\ DOMAIN indications = 1 .. Len(indications) /\ Len(indications) \in Nat
      /\ indications'[Len(indications) + 1] = x
      /\ \A i \in DOMAIN indications : indications'[i] = indications[i]
  BY DEF LinkTypeOK
<1>2. /\ \A i \in DOMAIN indications : i \in DOMAIN indications' /\ i < Len(indications) + 1
      /\ \A i \in DOMAIN indications' : i \in DOMAIN indications \/ i = Len(indications) + 1
      /\ Len(indications) + 1 \in DOMAIN indications'
  BY <1>1
<1>3. \A i : Indicated(i)' <=> Indicated(i) \/ i = x
  BY <1>1, <1>2 DEF Indicated
<1> QED
  BY <1>1, <1>2, <1>3

(* The first one is delivered.                                             *)
LEMMA Delivered ==
  ASSUME LinkTypeOK, NEW x, Deliver(x)
  PROVE  /\ indications' \in Seq({"available", "connected", "error", "disconnected"})
         /\ 1 \in DOMAIN indications /\ indications[1] = x /\ ~Starting(EventTask)
         /\ \A i \in DOMAIN indications' :
              i + 1 \in DOMAIN indications /\ indications'[i] = indications[i + 1] /\ i + 1 # 1
              /\ i \in Nat
         /\ \A i \in DOMAIN indications : i # 1 =>
              i - 1 \in DOMAIN indications' /\ indications'[i - 1] = indications[i]
              /\ i \in Nat
         /\ \A i : Indicated(i)' => Indicated(i)
         /\ \A i : Indicated(i) /\ i # x => Indicated(i)'
<1>1. /\ indications \in Seq({"available", "connected", "error", "disconnected"})
      /\ indications # <<>> /\ indications' = Tail(indications) /\ Head(indications) = x
      /\ ~Starting(EventTask)
  BY DEF Deliver, LinkTypeOK
<1>2. /\ indications' \in Seq({"available", "connected", "error", "disconnected"})
      /\ 1 \in DOMAIN indications /\ indications[1] = x
      /\ DOMAIN indications = 1 .. Len(indications) /\ Len(indications) \in Nat
      /\ DOMAIN indications' = 1 .. Len(indications) - 1
      /\ \A i \in 1 .. Len(indications) - 1 : indications'[i] = indications[i + 1]
  BY <1>1
<1>3. \A i \in DOMAIN indications' :
        i + 1 \in DOMAIN indications /\ indications'[i] = indications[i + 1] /\ i + 1 # 1
        /\ i \in Nat
  BY <1>2
<1>4. ASSUME NEW i \in DOMAIN indications, i # 1
      PROVE  i - 1 \in DOMAIN indications' /\ indications'[i - 1] = indications[i] /\ i \in Nat
  <2>1. i - 1 \in DOMAIN indications' /\ i - 1 + 1 = i /\ i \in Nat
    BY <1>2, <1>4
  <2> QED
    BY <1>3, <2>1
<1>5. \A i : Indicated(i)' => Indicated(i)
  BY <1>3 DEF Indicated
<1>6. \A i : Indicated(i) /\ i # x => Indicated(i)'
  BY <1>2, <1>4 DEF Indicated
<1> QED
  BY <1>1, <1>2, <1>3, <1>4, <1>5, <1>6

LEMMA LinkTypeStep == LinkTypeOK /\ [LinkNext]_allVars => LinkTypeOK'
<1> SUFFICES ASSUME LinkTypeOK, [LinkNext]_allVars
             PROVE  LinkTypeOK'
  OBVIOUS
<1>1. CASE UNCHANGED linkVars
  BY <1>1 DEF LinkTypeOK
<1>2. CASE Enable
  BY <1>2 DEF Enable, LinkTypeOK
<1>3. CASE Offer
  BY <1>3, Queued DEF Offer, LinkTypeOK
<1>4. CASE LinkUp
  BY <1>4, Queued DEF LinkUp, LinkTypeOK
<1>5. CASE LinkLost
  BY <1>5, Queued DEF LinkLost, LinkTypeOK
<1>6. ASSUME NEW x, Deliver(x), link' = link \/ link' \in {"accepted", "none"}
      PROVE  LinkTypeOK'
  BY <1>6, Delivered DEF Deliver, LinkTypeOK
<1>7. CASE LinkCallback
  BY <1>6, <1>7 DEF LinkCallback, LinkAvailable, LinkConnected, LinkError, LinkDisconnected
<1>8. CASE CoapRequest \/ Reporting \/ \E c \in Starters : GoOnStarting(c)
  BY <1>1, <1>8 DEF CoapRequest, Reporting, GoOnStarting
<1>9. CASE UNCHANGED allVars
  BY <1>1, <1>9 DEF allVars
<1> QED
  BY <1>2, <1>3, <1>4, <1>5, <1>7, <1>8, <1>9 DEF LinkNext, Stack

(* What the stack and the callbacks do to the indications, whatever        *)
(* becomes of the reporter.                                                *)
LEMMA IndicationsQueued ==
  ASSUME LinkTypeOK, LinkInv, Offer \/ LinkUp \/ LinkLost
  PROVE  /\ LinkInv'
         /\ link = "connected" \/ Indicated("disconnected")
              => link' = "connected" \/ Indicated("disconnected")'
<1> DEFINE n == Len(indications) + 1
<1>s. Starting(EventTask)' <=> Starting(EventTask)
  BY DEF Offer, LinkUp, LinkLost, vars, Starting
<1>1. CASE Offer
  <2>1. /\ link = "none" /\ link' = "offered" /\ indications' = Append(indications, "available")
    BY <1>1 DEF Offer
  <2>2. ~Indicated("available")
    BY <2>1 DEF LinkInv, Indicated
  <2> HIDE DEF LinkTypeOK
  <2>q. /\ indications'[n] = "available"
        /\ \A i \in DOMAIN indications : indications'[i] = indications[i]
        /\ \A i \in DOMAIN indications : i \in DOMAIN indications' /\ i < n
        /\ \A i \in DOMAIN indications' : i \in DOMAIN indications \/ i = n
        /\ \A i : Indicated(i)' <=> Indicated(i) \/ i = "available"
    BY <2>1, Queued, Zenon
  <2> HIDE DEF n
  <2>3. \A i \in DOMAIN indications' : indications'[i] = "available" => i = n
    BY <2>2, <2>q DEF Indicated
  <2>4. ASSUME NEW i \in DOMAIN indications', indications'[i] = "connected"
        PROVE  \E j \in DOMAIN indications' : i < j /\ indications'[j] = "disconnected"
    <3>1. i \in DOMAIN indications /\ indications[i] = "connected"
      BY <2>4, <2>q
    <3>2. PICK j \in DOMAIN indications : i < j /\ indications[j] = "disconnected"
      BY <2>1, <3>1 DEF LinkInv
    <3> QED
      BY <2>q, <3>2
  <2> QED
    BY <1>s, <2>1, <2>q, <2>3, <2>4 DEF LinkInv
<1>2. CASE LinkUp \/ LinkLost
  <2>1. PICK x \in {"connected", "error", "disconnected"} :
          /\ indications' = Append(indications, x)
          /\ \/ link = "accepted" /\ x = "connected" /\ link' = "connected"
             \/ link = "accepted" /\ x = "error" /\ link' = "none"
             \/ link = "connected" /\ x = "disconnected" /\ link' = "none"
    BY <1>2 DEF LinkUp, LinkLost
  <2>q. /\ indications'[n] = x
        /\ \A i \in DOMAIN indications : indications'[i] = indications[i]
        /\ \A i \in DOMAIN indications : i \in DOMAIN indications' /\ i < n
        /\ \A i \in DOMAIN indications' : i \in DOMAIN indications \/ i = n
        /\ \A i : Indicated(i)' <=> Indicated(i) \/ i = x
        /\ n \in DOMAIN indications'
    BY <2>1, Queued
  <2> HIDE DEF n
  <2>2. ~Indicated("available")
    BY <2>1 DEF LinkInv, Indicated
  <2>3. \A i \in DOMAIN indications' : indications'[i] # "available"
    BY <2>1, <2>2, <2>q DEF Indicated
  <2>4. ASSUME NEW i \in DOMAIN indications', indications'[i] = "connected"
        PROVE  \/ link' = "connected"
               \/ \E j \in DOMAIN indications' : i < j /\ indications'[j] = "disconnected"
    <3>1. CASE link = "connected"
      <4>1. x = "disconnected" /\ i \in DOMAIN indications
        BY <2>1, <2>4, <2>q, <3>1
      <4> QED
        BY <2>q, <4>1
    <3>2. CASE link # "connected" /\ i \in DOMAIN indications
      <4>1. PICK j \in DOMAIN indications : i < j /\ indications[j] = "disconnected"
        BY <2>4, <2>q, <3>2 DEF LinkInv
      <4> QED
        BY <2>q, <4>1
    <3>3. CASE link # "connected" /\ i = n
      BY <2>1, <2>4, <2>q, <3>3
    <3> QED
      BY <2>q, <3>1, <3>2, <3>3
  <2>5. link = "connected" \/ Indicated("disconnected")
          => link' = "connected" \/ Indicated("disconnected")'
    BY <2>1, <2>q
  <2> QED
    BY <1>s, <2>3, <2>4, <2>5 DEF LinkInv
<1> QED
  BY <1>1, <1>2

LEMMA IndicationsDelivered ==
  ASSUME LinkTypeOK, LinkInv, NEW x, Deliver(x),
         IF x = "available" THEN link' \in {"accepted", "none"} ELSE link' = link,
         Starting(EventTask)' => x = "connected"
  PROVE  /\ LinkInv'
         /\ x = "connected" => link' = "connected" \/ Indicated("disconnected")'
         /\ x # "disconnected" /\ (link = "connected" \/ Indicated("disconnected"))
              => link' = "connected" \/ Indicated("disconnected")'
<1>q. /\ 1 \in DOMAIN indications /\ indications[1] = x
      /\ \A i \in DOMAIN indications' :
           i + 1 \in DOMAIN indications /\ indications'[i] = indications[i + 1] /\ i + 1 # 1
           /\ i \in Nat
      /\ \A i \in DOMAIN indications : i # 1 =>
           i - 1 \in DOMAIN indications' /\ indications'[i - 1] = indications[i]
           /\ i \in Nat
      /\ \A i : Indicated(i) /\ i # x => Indicated(i)'
  BY Delivered
<1>d. \A i \in DOMAIN indications : i \in Nat
  BY DEF LinkTypeOK
<1>l. x = "available" => link = "offered"
  BY <1>q DEF LinkInv
<1>1. ASSUME NEW i \in DOMAIN indications', indications'[i] = "connected", link' # "connected"
      PROVE  \E j \in DOMAIN indications' : i < j /\ indications'[j] = "disconnected"
  <2>1. link # "connected"
    BY <1>1, <1>l
  <2>2. i + 1 \in DOMAIN indications /\ indications[i + 1] = "connected" /\ i \in Nat
    BY <1>1, <1>q
  <2>3. PICK j \in DOMAIN indications : i + 1 < j /\ indications[j] = "disconnected"
    BY <2>1, <2>2 DEF LinkInv
  <2>4. j \in Nat /\ j # 1 /\ i < j - 1
    BY <1>d, <2>2, <2>3
  <2>5. j - 1 \in DOMAIN indications' /\ indications'[j - 1] = "disconnected"
    BY <1>q, <2>3, <2>4
  <2> QED
    BY <2>4, <2>5
<1>2. ASSUME NEW i \in DOMAIN indications', indications'[i] = "available"
      PROVE  link' = "offered" /\ \A j \in DOMAIN indications' : indications'[j] = "available" => i = j
  <2>1. i + 1 \in DOMAIN indications /\ indications[i + 1] = "available" /\ i + 1 # 1 /\ i \in Nat
    BY <1>2, <1>q
  <2>2. link = "offered" /\ x # "available"
    BY <1>q, <2>1 DEF LinkInv
  <2>3. ASSUME NEW j \in DOMAIN indications', indications'[j] = "available"
        PROVE  i = j
    <3>1. j + 1 \in DOMAIN indications /\ indications[j + 1] = "available" /\ j \in Nat
      BY <1>q, <2>3
    <3>2. i + 1 = j + 1
      BY <2>1, <3>1 DEF LinkInv
    <3> QED
      BY <2>1, <3>1, <3>2
  <2> QED
    BY <2>2, <2>3
<1>3. ASSUME x = "connected"
      PROVE  link' = "connected" \/ Indicated("disconnected")'
  <2>1. CASE link # "connected"
    <3>1. PICK j \in DOMAIN indications : 1 < j /\ indications[j] = "disconnected"
      BY <1>3, <1>q, <2>1 DEF LinkInv
    <3> QED
      BY <1>3, <1>q, <3>1 DEF Indicated
  <2> QED
    BY <1>3, <2>1
<1>4. x # "disconnected" /\ (link = "connected" \/ Indicated("disconnected"))
        => link' = "connected" \/ Indicated("disconnected")'
  BY <1>l, <1>q
<1> QED
  BY <1>1, <1>2, <1>3, <1>4 DEF LinkInv

LEMMA ToToolStep ==
  ReporterTypeInv /\ SettingsInv /\ SlotsInv /\ LinkTypeOK /\ LinkInv /\ ToTool
    /\ [LinkNext]_allVars => LinkInv' /\ ToTool'
<1> SUFFICES ASSUME ReporterTypeInv, SettingsInv, SlotsInv, LinkTypeOK, LinkInv, ToTool,
                    [LinkNext]_allVars
             PROVE  LinkInv' /\ ToTool'
  OBVIOUS
<1> DEFINE Tied == link = "connected" \/ Indicated("disconnected")
<1>1. ASSUME UNCHANGED <<link, indications>>,
             Starting(EventTask)' => Starting(EventTask),
             (timer /\ dest = Tool /\ latest # None)' =>
               (timer /\ dest = Tool /\ latest # None) \/ Tied
      PROVE  LinkInv' /\ ToTool'
  BY <1>1 DEF LinkInv, ToTool, Indicated
<1>2. CASE Enable
  BY <1>1, <1>2 DEF Enable, vars, Starting
<1>3. CASE Stack
  <2>1. UNCHANGED <<timer, dest, latest>>
    BY <1>3 DEF Stack, Offer, LinkUp, LinkLost, vars
  <2>2. LinkInv' /\ (Tied => Tied')
    BY <1>3, IndicationsQueued DEF Stack
  <2> QED
    BY <2>1, <2>2 DEF ToTool
<1>4. CASE LinkAvailable \/ LinkError
  <2>1. UNCHANGED vars
    BY <1>4 DEF LinkAvailable, LinkError
  <2>2. PICK x \in {"available", "error"} :
          Deliver(x) /\ IF x = "available" THEN link' \in {"accepted", "none"} ELSE link' = link
    BY <1>4 DEF LinkAvailable, LinkError
  <2>3. ~Starting(EventTask)'
    BY <2>1, <2>2 DEF Deliver, vars, Starting
  <2>4. LinkInv' /\ (Tied => Tied')
    BY <2>2, <2>3, IndicationsDelivered
  <2> QED
    BY <2>1, <2>4 DEF ToTool, vars
<1>5. CASE LinkConnected
  <2>1. Deliver("connected") /\ link' = link
    BY <1>5 DEF LinkConnected
  <2>2. LinkInv' /\ Tied'
    BY <2>1, IndicationsDelivered
  <2> QED
    BY <2>2 DEF ToTool
<1>6. CASE LinkDisconnected
  <2>1. Deliver("disconnected") /\ link' = link /\ UNCHANGED start
    BY <1>6 DEF LinkDisconnected, Stop, vars
  <2>2. ~Starting(EventTask)'
    BY <2>1 DEF Deliver, Starting
  <2>3. LinkInv'
    BY <2>1, <2>2, IndicationsDelivered
  <2>4. ~timer'
    BY <1>6, Zenon DEF LinkDisconnected, Stop, vars
  <2> QED
    BY <2>3, <2>4 DEF ToTool
<1>7. CASE CoapRequest
  <2>1. UNCHANGED <<link, indications>>
    BY <1>7 DEF CoapRequest
  <2>2. CASE Stop(Coap)
    BY <1>1, <2>1, <2>2 DEF Stop, Starting
  <2>3. ASSUME NEW r \in CoapRequests, Start(Coap, r)
        PROVE  LinkInv' /\ ToTool'
    <3>1. start' = [start EXCEPT ![Coap] = [request |-> r, step |-> 0]] /\ dest' # Tool
      BY <2>3, StartSteps DEF Start
    <3>2. Starting(EventTask)' <=> Starting(EventTask)
      BY <3>1 DEF Starting, ReporterTypeInv
    <3> QED
      BY <1>1, <2>1, <3>1, <3>2
  <2> QED
    BY <1>7, <2>2, <2>3 DEF CoapRequest
<1>8. CASE Reporting
  <2>1. UNCHANGED <<link, indications, timer, dest, latest, start>>
    BY <1>8 DEF Reporting, TimerExpires, Setup, SetupFails, Report, Wake, Read, FilterLine, Send,
       Trace
  <2> QED
    BY <1>1, <2>1 DEF Starting
<1>9. ASSUME NEW c \in Starters, GoOnStarting(c)
      PROVE  LinkInv' /\ ToTool'
  <2>1. UNCHANGED <<link, indications>>
    BY <1>9 DEF GoOnStarting
  <2>2. Starting(EventTask)' => Starting(EventTask)
    <3>1. start \in [Starters -> StartType] /\ Starting(c)
      BY <1>9 DEF ReporterTypeInv, GoOnStarting, ClearMatches, AddMatch, StartTimer
    <3>2. \A d \in Starters \ {c} : start'[d] = start[d]
      BY <1>9, <3>1 DEF GoOnStarting, ClearMatches, AddMatch, StartTimer
    <3> QED
      BY <3>1, <3>2 DEF Starting
  <2>3. CASE ClearMatches(c) \/ AddMatch(c)
    BY <1>1, <2>1, <2>2, <2>3 DEF ClearMatches, AddMatch
  <2>4. CASE StartTimer(c)
    <3>1. UNCHANGED <<dest, latest>> /\ Starting(c)
      BY <2>4 DEF StartTimer
    <3>2. CASE c = EventTask
      <4>1. Tied
        BY <3>1, <3>2 DEF LinkInv
      <4> QED
        BY <1>1, <2>1, <2>2, <4>1
    <3>3. CASE c = Coap
      <4>1. latest # None => dest # Tool
        <5> SUFFICES ASSUME latest # None
                     PROVE  dest # Tool
          OBVIOUS
        <5>1. dest = latest.dest /\ start[Coap].request = latest
          BY <3>1, <3>3 DEF SettingsInv
        <5>2. latest \in CoapRequests
          BY <3>1, <3>3, <5>1 DEF SlotsInv, Own
        <5> QED
          BY <5>1, <5>2
      <4> QED
        BY <1>1, <2>1, <2>2, <3>1, <4>1
    <3> QED
      BY <3>2, <3>3
  <2> QED
    BY <1>9, <2>3, <2>4 DEF GoOnStarting
<1>10. CASE UNCHANGED allVars
  BY <1>1, <1>10 DEF allVars, vars, Starting
<1> QED
  BY <1>2, <1>3, <1>4, <1>5, <1>6, <1>7, <1>8, <1>9, <1>10 DEF LinkNext, LinkCallback

(* The reporter does not go on sending to a tool whose link is lost, for   *)
(* any number of links, requests and stops in any order.                   *)
THEOREM LostToolGetsNoReports == LinkSpec => []NoReportsToLostTool
<1>1. LinkInit => SlotsInv /\ LinkTypeOK /\ LinkInv /\ ToTool
  <2> SUFFICES ASSUME LinkInit
               PROVE  SlotsInv /\ LinkTypeOK /\ LinkInv /\ ToTool
    OBVIOUS
  <2>1. SlotsInv
    BY DEF LinkInit, Init, SlotsInv, Added, Starting, NotStarting
  <2>2. LinkTypeOK
    BY DEF LinkInit, LinkTypeOK
  <2>3. LinkInv /\ ToTool
    BY DEF LinkInit, Init, LinkInv, ToTool, Starting, NotStarting
  <2> QED
    BY <2>1, <2>2, <2>3
<1>2. Spec => [](ReporterTypeInv /\ SettingsInv)
  BY ReporterInvariant, PTL DEF ReporterInv
<1>3. LinkTypeOK /\ ToTool => NoReportsToLostTool
  BY DEF NoReportsToLostTool, ToTool, Indicated
<1> QED
  BY <1>1, <1>2, <1>3, LinksUseReporter, SlotsStep, LinkTypeStep, ToToolStep, PTL DEF LinkSpec
=============================================================================
