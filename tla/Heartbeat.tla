------------------------------ MODULE Heartbeat ------------------------------
(***************************************************************************)
(* The heartbeat of one connection (readPump and writePump of               *)
(* internal/transport/ws/connection.go): the write pump pings on a ticker,  *)
(* and the read pump gives up when the read deadline passes, which only a   *)
(* pong extends.                                                            *)
(*                                                                          *)
(* Time advances in ticks of a clock and every timer is modelled by the     *)
(* time left.  Both pumps also do other work that keeps them away from the  *)
(* heartbeat: the writer is in the middle of a message when the ticker      *)
(* fires, and the reader is in handleMessage while a pong waits.            *)
(***************************************************************************)
EXTENDS Integers

CONSTANTS
  PingInterval, \* Config.PingInterval
  PongTimeout,  \* Config.PongTimeout
  WriteWait,    \* writeWait
  MaxWrite,     \* how long a write to a live client takes
  MaxLag,       \* how long a tick waits for the writer, if the client is alive
  RTT,          \* from the end of the ping's write to its pong being next to read
  MaxHandle     \* how long handleMessage takes, for the messages one read brings in

ASSUME HeartbeatAssumption ==
  /\ PingInterval \in Nat \ {0} /\ PongTimeout \in Nat \ {0}
  /\ WriteWait \in Nat /\ MaxWrite \in Nat /\ MaxWrite < WriteWait
  /\ MaxLag \in Nat /\ RTT \in Nat /\ MaxHandle \in Nat

VARIABLES
  open,    \* FALSE once Close has begun
  left,    \* time left to the read deadline
  ticker,  \* time left until the ping ticker fires
  due,     \* ticker.C holds a tick
  lag,     \* how long that tick has been waiting
  writer,  \* the write pump: in its select, in a write of either kind, or gone
  writing, \* how long that write has taken
  reader,  \* the read pump: in ReadMessage, in handleMessage, or gone
  handling,\* how long handleMessage has taken
  wire,    \* the pings and pongs under way, by the time since their write ended
  silent,  \* the client no longer answers
  quiet    \* history: for how long

vars == <<open, left, ticker, due, lag, writer, writing, reader, handling, wire, silent, quiet>>

writerVars == <<writer, writing, due, lag, ticker>>
readerVars == <<reader, handling, left>>
clientVars == <<silent, quiet>>

Init ==
  /\ open = TRUE /\ left = PongTimeout
  /\ ticker = PingInterval /\ due = FALSE /\ lag = 0
  /\ writer = "select" /\ writing = 0
  /\ reader = "reading" /\ handling = 0
  /\ wire = {} /\ silent = FALSE /\ quiet = 0

-----------------------------------------------------------------------------
(***************************************************************************)
(* The write pump                                                           *)
(***************************************************************************)

\* The ticker's channel holds one tick; a second one is dropped.
TickFires ==
  /\ open /\ ticker = 0
  /\ ticker' = PingInterval /\ due' = TRUE
  /\ UNCHANGED <<open, lag, writer, writing, readerVars, wire, clientVars>>

WriteText ==
  /\ open /\ writer = "select"
  /\ writer' = "text" /\ writing' = 0
  /\ UNCHANGED <<open, ticker, due, lag, readerVars, wire, clientVars>>

WritePing ==
  /\ open /\ writer = "select" /\ due
  /\ writer' = "ping" /\ writing' = 0
  /\ due' = FALSE /\ lag' = 0
  /\ UNCHANGED <<open, ticker, readerVars, wire, clientVars>>

\* The write succeeds.  A silent client swallows the ping.
WriteEnds ==
  /\ open /\ writer \in {"text", "ping"}
  /\ wire' = IF writer = "ping" /\ ~silent THEN wire \cup {0} ELSE wire
  /\ writer' = "select" /\ writing' = 0
  /\ UNCHANGED <<open, due, lag, ticker, readerVars, clientVars>>

\* The write fails, by its deadline or because the socket is closed: the pump returns
\* and its deferred Close runs.
WriteFails ==
  /\ writer \in {"text", "ping"} /\ (writing = WriteWait \/ ~open)
  /\ writer' = "gone" /\ writing' = 0 /\ open' = FALSE
  /\ UNCHANGED <<due, lag, ticker, readerVars, wire, clientVars>>

\* Mutant: the select has no case for the closed channel.
WriterWaitsForWork ==
  /\ FALSE /\ UNCHANGED vars

\* The select finds the channel closed.
WriterStops ==
  /\ ~open /\ writer = "select"
  /\ writer' = "gone"
  /\ UNCHANGED <<open, writing, due, lag, ticker, readerVars, wire, clientVars>>

-----------------------------------------------------------------------------
(***************************************************************************)
(* The read pump                                                            *)
(***************************************************************************)

\* Mutant: any message counts as a sign of life.
AnyMessageCounts ==
  /\ open /\ reader = "reading" /\ left > 0
  /\ \A age \in wire : age < RTT
  /\ reader' = "handling" /\ handling' = 0 /\ left' = PongTimeout
  /\ UNCHANGED <<open, writerVars, wire, clientVars>>

\* ReadMessage returns a message that is ahead of every pong.  A client that does not
\* answer pings may still send.
HandleMessage ==
  /\ open /\ reader = "reading" /\ left > 0
  /\ \A age \in wire : age < RTT
  /\ reader' = "handling" /\ handling' = 0
  /\ UNCHANGED <<open, left, writerVars, wire, clientVars>>

MessageHandled ==
  /\ reader = "handling"
  /\ reader' = "reading" /\ handling' = 0
  /\ UNCHANGED <<open, left, writerVars, wire, clientVars>>

\* Mutant: the pong handler does not move the deadline.
PongIgnored ==
  /\ open /\ reader = "reading"
  /\ \E age \in wire : wire' = wire \ {age}
  /\ UNCHANGED <<open, readerVars, writerVars, clientVars>>

\* The pong handler, which ReadMessage calls, sets the deadline anew.
Pong ==
  /\ open /\ reader = "reading"
  /\ \E age \in wire : wire' = wire \ {age}
  /\ left' = PongTimeout
  /\ UNCHANGED <<open, reader, handling, writerVars, clientVars>>

\* ReadMessage fails, by its deadline or because the socket is closed: the pump returns
\* and its deferred Close runs.
ReadFails ==
  /\ reader = "reading" /\ (left = 0 \/ ~open)
  /\ reader' = "gone" /\ open' = FALSE
  /\ UNCHANGED <<handling, left, writerVars, wire, clientVars>>

-----------------------------------------------------------------------------
(***************************************************************************)
(* The client and the clock                                                 *)
(***************************************************************************)

\* The client hangs, or its network is gone; what is under way may be lost.
FallSilent ==
  /\ open /\ ~silent
  /\ silent' = TRUE
  /\ wire' \in {wire, {}}
  /\ UNCHANGED <<open, readerVars, writerVars, quiet>>

\* A live client takes what is written to it, and lets the writer get to a due tick.
ClientKeepsUp ==
  /\ writer \in {"text", "ping"} => writing < MaxWrite
  /\ due /\ writer # "ping" => lag < MaxLag

\* Nothing that is to happen by now is still to happen.
NothingOverdue ==
  /\ ticker > 0
  /\ writer \in {"text", "ping"} => writing < WriteWait
  /\ reader = "handling" => handling < MaxHandle
  /\ reader = "reading" => left > 0 /\ \A age \in wire : age < RTT
  /\ ~silent => ClientKeepsUp

TimePasses ==
  /\ open /\ NothingOverdue
  /\ left' = IF left = 0 THEN 0 ELSE left - 1
  /\ ticker' = ticker - 1
  /\ lag' = IF due /\ lag < MaxLag THEN lag + 1 ELSE lag
  /\ writing' = IF writer \in {"text", "ping"} THEN writing + 1 ELSE writing
  /\ handling' = IF reader = "handling" THEN handling + 1 ELSE handling
  /\ wire' = {age + 1 : age \in wire}
  /\ quiet' = IF silent THEN quiet + 1 ELSE quiet
  /\ UNCHANGED <<open, due, writer, reader, silent>>

Writer == TickFires \/ WriteText \/ WritePing \/ WriteEnds \/ WriteFails \/ WriterStops

Reader == HandleMessage \/ MessageHandled \/ Pong \/ ReadFails

Next == Writer \/ Reader \/ FallSilent \/ TimePasses

Spec == Init /\ [][Next]_vars

\* The runtime schedules both pumps and the ticker, time goes on, and handleMessage
\* returns; nothing is assumed of the client.
FairSpec ==
  /\ Spec
  /\ WF_vars(TickFires) /\ WF_vars(WriteFails) /\ WF_vars(WriterStops)
  /\ WF_vars(MessageHandled) /\ WF_vars(Pong) /\ WF_vars(ReadFails)
  /\ WF_vars(TimePasses)

-----------------------------------------------------------------------------
(***************************************************************************)
(* Properties                                                               *)
(***************************************************************************)

TypeOK ==
  /\ open \in BOOLEAN /\ silent \in BOOLEAN /\ due \in BOOLEAN
  /\ left \in 0..PongTimeout /\ ticker \in 0..PingInterval
  /\ lag \in 0..MaxLag /\ writing \in 0..WriteWait /\ handling \in 0..MaxHandle
  /\ writer \in {"select", "text", "ping", "gone"}
  /\ reader \in {"reading", "handling", "gone"}
  /\ wire \subseteq 0..(RTT + MaxHandle) /\ quiet \in Nat

\* A client that answers every ping is not disconnected by the heartbeat, wherever the
\* two pumps happen to be when the ticker fires and when the pong arrives (readPump,
\* writePump).  This needs Timely, below.
ResponsiveStaysOpen == ~silent => open

\* The settings under which it holds: a whole round, from one tick to the pong that
\* answers the next, fits in the read deadline.
Timely == PingInterval + MaxLag + MaxWrite + RTT + MaxHandle < PongTimeout

\* A client that no longer answers is found out in bounded time, although writes to it
\* may block and its last pongs may still be under way: after them the deadline runs.
DeadIsNoticed == open => quiet <= RTT + MaxHandle + PongTimeout + MaxHandle

\* The goroutines of a dead connection do not outlive it: both pumps return.
PumpsEnd == silent ~> reader = "gone" /\ writer = "gone"

=============================================================================
