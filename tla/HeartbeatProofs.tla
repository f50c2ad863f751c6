--------------------------- MODULE HeartbeatProofs ---------------------------
(***************************************************************************)
(* The heartbeat for every setting: under Timely a responsive client is     *)
(* never timed out, and a silent one is always found out in time.           *)
(***************************************************************************)
EXTENDS Heartbeat, TLAPS

\* A reader that keeps a pong waiting began its message before the pong was next, and
\* a pump is gone only from a closed connection.
PongsWait ==
  /\ reader = "handling" => \A age \in wire : age <= RTT + handling
  /\ reader = "gone" \/ writer = "gone" => ~open

\* What still lies between now and the next pong, if the client is alive.
Round ==
  IF wire # {} THEN \E age \in wire : left + age > RTT + MaxHandle
  ELSE IF writer = "ping" THEN left + writing > MaxWrite + RTT + MaxHandle
  ELSE IF due THEN left + lag > MaxLag + MaxWrite + RTT + MaxHandle
  ELSE left > ticker + MaxLag + MaxWrite + RTT + MaxHandle

\* Why a responsive client stays connected: the read deadline is behind the next pong.
RoundFits ==
  ~silent =>
    /\ open /\ reader # "gone" /\ writer # "gone"
    /\ writer \in {"text", "ping"} => writing <= MaxWrite
    /\ ~due => lag = 0
    /\ Round

\* Why a silent client is found out: the pongs under way are at least as old as the
\* silence, and with none of them left the deadline runs.
SilenceCounts ==
  /\ ~silent => quiet = 0
  /\ silent => \A age \in wire : quiet <= age
  /\ open /\ left > 0 => quiet + left <= RTT + MaxHandle + PongTimeout
  /\ open /\ left = 0 =>
       quiet <= RTT + MaxHandle + PongTimeout
                + (IF reader = "handling" THEN handling ELSE MaxHandle)

-----------------------------------------------------------------------------

\* Types, and the place of the pongs in the reader's work.
LEMMA Typed == Spec => [](TypeOK /\ PongsWait)
<1> USE HeartbeatAssumption DEF writerVars, readerVars, clientVars
<1>1. Init => TypeOK /\ PongsWait
  <2> SUFFICES ASSUME Init PROVE TypeOK /\ PongsWait
    OBVIOUS
  <2>1. open \in BOOLEAN /\ silent \in BOOLEAN /\ due \in BOOLEAN
    BY Zenon DEF Init
  <2>2. PongsWait
    BY DEF Init, PongsWait
  <2>. QED
    BY <2>1, <2>2 DEF Init, TypeOK
<1>2. TypeOK /\ PongsWait /\ [Next]_vars => TypeOK' /\ PongsWait'
  <2> SUFFICES ASSUME TypeOK, PongsWait, [Next]_vars
               PROVE  TypeOK' /\ PongsWait'
    OBVIOUS
  <2>1. CASE TickFires
    BY <2>1 DEF TickFires, TypeOK, PongsWait
  <2>2. CASE WriteText
    BY <2>2 DEF WriteText, TypeOK, PongsWait
  <2>3. CASE WritePing
    <3>1. open' \in BOOLEAN /\ silent' \in BOOLEAN /\ due' \in BOOLEAN
      BY <2>3, Zenon DEF WritePing, TypeOK
    <3>2. PongsWait'
      BY <2>3 DEF WritePing, TypeOK, PongsWait
    <3>. QED
      BY <2>3, <3>1, <3>2 DEF WritePing, TypeOK
  <2>4. CASE WriteEnds
    BY <2>4 DEF WriteEnds, TypeOK, PongsWait
  <2>5. CASE WriteFails
    <3>1. open' \in BOOLEAN /\ silent' \in BOOLEAN /\ due' \in BOOLEAN
      BY <2>5, Zenon DEF WriteFails, TypeOK
    <3>2. PongsWait'
      BY <2>5 DEF WriteFails, TypeOK, PongsWait
    <3>. QED
      BY <2>5, <3>1, <3>2 DEF WriteFails, TypeOK
  <2>6. CASE WriterStops
    BY <2>6 DEF WriterStops, TypeOK, PongsWait
  <2>7. CASE HandleMessage
    BY <2>7 DEF HandleMessage, TypeOK, PongsWait
  <2>8. CASE MessageHandled
    BY <2>8 DEF MessageHandled, TypeOK, PongsWait
  <2>9. CASE Pong
    BY <2>9 DEF Pong, TypeOK, PongsWait
  <2>10. CASE ReadFails
    BY <2>10 DEF ReadFails, TypeOK, PongsWait
  <2>11. CASE FallSilent
    BY <2>11 DEF FallSilent, TypeOK, PongsWait
  <2>12. CASE TimePasses
    BY <2>12 DEF TimePasses, NothingOverdue, ClientKeepsUp, TypeOK, PongsWait
  <2>13. CASE UNCHANGED vars
    BY <2>13 DEF vars, TypeOK, PongsWait
  <2>. QED
    BY <2>1, <2>2, <2>3, <2>4, <2>5, <2>6, <2>7, <2>8, <2>9, <2>10, <2>11, <2>12, <2>13 DEF Next, Writer, Reader
<1>. QED
  BY <1>1, <1>2, PTL DEF Spec

\* Type correctness of the heartbeat, for every setting of the durations.
THEOREM TypeCorrect == Spec => []TypeOK
BY Typed, PTL

\* One step keeps the deadline behind the next pong.
LEMMA RoundStep ==
  ASSUME Timely, TypeOK, PongsWait, RoundFits, [Next]_vars
  PROVE  RoundFits'
<1> USE HeartbeatAssumption DEF writerVars, readerVars, clientVars
<1>1. CASE TickFires
  BY <1>1 DEF TickFires, TypeOK, PongsWait, RoundFits, Round, Timely
<1>2. CASE WriteText
  BY <1>2 DEF WriteText, TypeOK, PongsWait, RoundFits, Round, Timely
<1>3. CASE WritePing
  BY <1>3 DEF WritePing, TypeOK, PongsWait, RoundFits, Round, Timely
<1>4. CASE WriteEnds
  BY <1>4 DEF WriteEnds, TypeOK, PongsWait, RoundFits, Round, Timely
<1>5. CASE WriteFails
  BY <1>5 DEF WriteFails, TypeOK, PongsWait, RoundFits, Round, Timely
<1>6. CASE WriterStops
  BY <1>6 DEF WriterStops, TypeOK, PongsWait, RoundFits, Round, Timely
<1>7. CASE HandleMessage
  BY <1>7 DEF HandleMessage, TypeOK, PongsWait, RoundFits, Round, Timely
<1>8. CASE MessageHandled
  BY <1>8 DEF MessageHandled, TypeOK, PongsWait, RoundFits, Round, Timely
<1>9. CASE Pong
  <2> SUFFICES ASSUME ~silent PROVE RoundFits'
    BY <1>9 DEF Pong, RoundFits
  <2>1. left' = PongTimeout /\ UNCHANGED <<open, reader, writer, writing, due, lag, ticker, silent>>
    BY <1>9 DEF Pong
  <2>2. wire' \subseteq wire
    BY <1>9 DEF Pong
  <2>3. Round'
    <3>1. CASE wire' # {}
      <4> PICK age \in wire' : TRUE
        BY <3>1
      <4>1. age \in Nat
        BY <2>2 DEF TypeOK
      <4>2. left' + age > RTT + MaxHandle
        BY <2>1, <4>1 DEF Timely
      <4>. QED
        BY <4>1, <4>2 DEF Round
    <3>2. CASE wire' = {}
      BY <2>1, <3>2 DEF Round, TypeOK, Timely
    <3>. QED
      BY <3>1, <3>2
  <2>. QED
    BY <2>1, <2>3 DEF RoundFits
<1>10. CASE ReadFails
  BY <1>10 DEF ReadFails, TypeOK, PongsWait, RoundFits, Round, Timely
<1>11. CASE FallSilent
  BY <1>11 DEF FallSilent, TypeOK, PongsWait, RoundFits, Round, Timely
<1>12. CASE TimePasses
  <2> SUFFICES ASSUME ~silent PROVE RoundFits'
    BY <1>12 DEF TimePasses, RoundFits
  <2> USE <1>12 DEF TimePasses, NothingOverdue, ClientKeepsUp
  <2>1. left > 0 /\ left' = left - 1
    BY DEF TypeOK, PongsWait, RoundFits, Round
  <2>2. CASE wire # {}
    <3>1. PICK age \in wire : left + age > RTT + MaxHandle
      BY <2>2 DEF RoundFits, Round
    <3>2. age + 1 \in wire' /\ age \in Nat
      BY DEF TypeOK
    <3>3. left' + (age + 1) > RTT + MaxHandle
      BY <2>1, <3>1, <3>2 DEF TypeOK
    <3>4. Round'
      BY <3>2, <3>3 DEF Round
    <3>. QED
      BY <3>4 DEF RoundFits, TypeOK
  <2>3. CASE wire = {}
    <3>1. wire' = {}
      BY <2>3
    <3>. QED
      BY <2>1, <2>3, <3>1 DEF RoundFits, Round, TypeOK
  <2>. QED
    BY <2>2, <2>3
<1>13. CASE UNCHANGED vars
  BY <1>13 DEF vars, TypeOK, PongsWait, RoundFits, Round, Timely
<1>. QED
  BY <1>1, <1>2, <1>3, <1>4, <1>5, <1>6, <1>7, <1>8, <1>9, <1>10, <1>11, <1>12, <1>13 DEF Next, Writer, Reader

\* A client that answers every ping is never disconnected by the heartbeat, wherever the
\* pumps are when ticks and pongs come, if a round fits in the read deadline.
THEOREM ResponsiveKept == Timely => (Spec => []ResponsiveStaysOpen)
<1> USE HeartbeatAssumption DEF writerVars, readerVars, clientVars
<1> SUFFICES ASSUME Timely PROVE Spec => []ResponsiveStaysOpen
  OBVIOUS
<1>1. Init => RoundFits
  BY DEF Init, RoundFits, Round, Timely
<1>2. TypeOK /\ PongsWait /\ RoundFits /\ [Next]_vars => RoundFits'
  BY RoundStep
<1>3. RoundFits => ResponsiveStaysOpen
  BY DEF RoundFits, ResponsiveStaysOpen
<1>. QED
  BY <1>1, <1>2, <1>3, Typed, PTL DEF Spec

\* One step keeps the account of the silence.
LEMMA SilenceStep ==
  ASSUME TypeOK, PongsWait, SilenceCounts, [Next]_vars
  PROVE  SilenceCounts'
<1> USE HeartbeatAssumption DEF writerVars, readerVars, clientVars
<1>1. CASE TickFires
  BY <1>1 DEF TickFires, TypeOK, PongsWait, SilenceCounts
<1>2. CASE WriteText
  BY <1>2 DEF WriteText, TypeOK, PongsWait, SilenceCounts
<1>3. CASE WritePing
  BY <1>3 DEF WritePing, TypeOK, PongsWait, SilenceCounts
<1>4. CASE WriteEnds
  BY <1>4 DEF WriteEnds, TypeOK, PongsWait, SilenceCounts
<1>5. CASE WriteFails
  BY <1>5 DEF WriteFails, TypeOK, PongsWait, SilenceCounts
<1>6. CASE WriterStops
  BY <1>6 DEF WriterStops, TypeOK, PongsWait, SilenceCounts
<1>7. CASE HandleMessage
  BY <1>7 DEF HandleMessage, TypeOK, PongsWait, SilenceCounts
<1>8. CASE MessageHandled
  BY <1>8 DEF MessageHandled, TypeOK, PongsWait, SilenceCounts
<1>9. CASE Pong
  BY <1>9 DEF Pong, TypeOK, PongsWait, SilenceCounts
<1>10. CASE ReadFails
  BY <1>10 DEF ReadFails, TypeOK, PongsWait, SilenceCounts
<1>11. CASE FallSilent
  BY <1>11 DEF FallSilent, TypeOK, PongsWait, SilenceCounts
<1>12. CASE TimePasses
  BY <1>12 DEF TimePasses, NothingOverdue, ClientKeepsUp, TypeOK, PongsWait, SilenceCounts
<1>13. CASE UNCHANGED vars
  BY <1>13 DEF vars, TypeOK, PongsWait, SilenceCounts
<1>. QED
  BY <1>1, <1>2, <1>3, <1>4, <1>5, <1>6, <1>7, <1>8, <1>9, <1>10, <1>11, <1>12, <1>13 DEF Next, Writer, Reader

\* A silent client is found out in bounded time, for every setting, however long writes
\* block and whatever else the client still sends.
THEOREM DeadAlwaysNoticed == Spec => []DeadIsNoticed
<1> USE HeartbeatAssumption DEF writerVars, readerVars, clientVars
<1>1. Init => SilenceCounts
  BY DEF Init, SilenceCounts
<1>2. TypeOK /\ PongsWait /\ SilenceCounts /\ [Next]_vars => SilenceCounts'
  BY SilenceStep
<1>3. TypeOK /\ SilenceCounts => DeadIsNoticed
  BY DEF TypeOK, SilenceCounts, DeadIsNoticed
<1>. QED
  BY <1>1, <1>2, <1>3, Typed, PTL DEF Spec

=============================================================================
