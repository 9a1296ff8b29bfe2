----------------------------- MODULE Lifecycle -----------------------------
(***************************************************************************)
(* One run of the server process, from main through App.Run and shutdown   *)
(* to its end: the main goroutine, the two server goroutines, the clients  *)
(* they serve, the two Kafka consumers and the drain goroutine of the log  *)
(* handler, which everyone feeds through slog.  Log records are not told   *)
(* apart; the channel is the number of records in it.                      *)
(***************************************************************************)
EXTENDS Naturals, Sequences

CONSTANTS
  Clients,     \* clients, each with at most one request in flight
  BufferSize   \* capacity of the log handler's channel

Servers == {"grpc", "http"}
Consumers == {"consumer", "logConsumer"}

ASSUME LifecycleAssumption == BufferSize \in Nat \ {0}

\* What LOG_LEVEL can enable of the two levels this part of the program logs at.
LogLevels == {{}, {"error"}, {"info", "error"}}

\* Mutant of CloseOrder: the log producer goes before the handler that uses it.
CloseOrderSwapped ==
  <<"consumer", "logConsumer", "logProducer", "producer", "logHandler", "cache", "db">>

\* What Dependencies.Close closes, in order.
CloseOrder ==
  <<"consumer", "logConsumer", "logHandler", "producer", "logProducer", "cache", "db">>
Resources == {CloseOrder[n] : n \in DOMAIN CloseOrder}

VARIABLES
  main,         \* where the main goroutine is
  pos,          \* how far Dependencies.Close has come in CloseOrder
  return,       \* where main goes on when Dependencies.Close returns
  signalled,    \* SIGINT or SIGTERM has been delivered
  shutdownErr,  \* http.Shutdown ran into its 30 seconds
  server,       \* the goroutines of startGRPC and startHTTP
  stopping,     \* servers told to stop
  errCh,        \* startup errors nobody has received, by server
  client,       \* what the server is doing for each client
  consumer,     \* the goroutines of Consumer.Consume
  logger,       \* levels the default slog handler passes on to Kafka
  queue,        \* records in the log handler's channel
  drain,        \* the log handler's drain goroutine
  closed,       \* resources closed
  outcome       \* how the process ended, or running; no goroutine moves after

logging == <<logger, queue, drain>>
mainVars == <<main, pos, return, shutdownErr>>
others == <<server, stopping, errCh, client, consumer>>
vars == <<mainVars, signalled, others, logging, closed, outcome>>

\* The type of every variable; main only ever is at a line of its functions.
TypeOK ==
  /\ main \in {"init", "setLogger", "start", "notify", "select", "logDown", "httpStop",
               "httpWait", "grpcStop", "grpcWait", "closing", "draining", "logExited",
               "logFailed", "exit", "end"}
  /\ pos \in 1 .. Len(CloseOrder) + 1
  /\ return \in {"logExited", "logFailed", "end"}
  /\ signalled \in BOOLEAN /\ shutdownErr \in BOOLEAN
  /\ server \in [Servers -> {"off", "begun", "binding", "serving", "gone"}]
  /\ stopping \subseteq Servers
  /\ errCh \in Seq(Servers)
  /\ client \in [Clients -> {"none", "http", "httpLog", "grpc"}]
  /\ consumer \in [Consumers -> {"off", "reading", "info", "error"}]
  /\ logger \in LogLevels
  /\ queue \in 0 .. BufferSize
  /\ drain \in {"off", "idle", "publishing", "gone"}
  /\ closed \subseteq Resources
  /\ outcome \in {"running", "exit0", "exit1", "killed", "panic"}

InFlight(kinds) == {c \in Clients : client[c] \in kinds}

-----------------------------------------------------------------------------
(* The log handler *)

\* Mutant of Slog: a full channel makes the caller wait.
SlogBlocks(level) ==
  \/ level \notin logger /\ UNCHANGED <<queue, outcome>>
  \/ /\ level \in logger
     /\ \/ /\ "logHandler" \notin closed /\ queue < BufferSize
           /\ queue' = queue + 1
           /\ UNCHANGED outcome
        \/ "logHandler" \in closed /\ outcome' = "panic" /\ UNCHANGED queue

\* Mutant of Slog: records pile up in a slice instead of a channel.
SlogUnbounded(level) ==
  \/ level \notin logger /\ UNCHANGED <<queue, outcome>>
  \/ level \in logger /\ queue' = queue + 1 /\ UNCHANGED outcome

\* A slog call: TeeHandler passes the record to KafkaHandler.Handle, which
\* drops it when the channel is full.  A send on a closed channel panics, in a
\* select with a default too, and the process dies: an HTTP handler's panic is
\* recovered by net/http, but reported through the same slog handler.
Slog(level) ==
  \/ level \notin logger /\ UNCHANGED <<queue, outcome>>
  \/ /\ level \in logger
     /\ \/ /\ "logHandler" \notin closed
           /\ queue' = IF queue < BufferSize THEN queue + 1 ELSE queue
           /\ UNCHANGED outcome
        \/ "logHandler" \in closed /\ outcome' = "panic" /\ UNCHANGED queue

Silent == UNCHANGED <<queue, outcome>>

\* The drain goroutine takes a record, publishes it, whatever becomes of it,
\* and ends with the channel closed and empty.
DrainTake ==
  /\ outcome = "running" /\ drain = "idle" /\ queue > 0
  /\ queue' = queue - 1
  /\ drain' = "publishing"
  /\ UNCHANGED <<mainVars, signalled, others, logger, closed, outcome>>

DrainPublish ==
  /\ outcome = "running" /\ drain = "publishing"
  /\ drain' = "idle"
  /\ UNCHANGED <<mainVars, signalled, others, logger, queue, closed, outcome>>

DrainEnd ==
  /\ outcome = "running" /\ drain = "idle" /\ queue = 0 /\ "logHandler" \in closed
  /\ drain' = "gone"
  /\ UNCHANGED <<mainVars, signalled, others, logger, queue, closed, outcome>>

Drain == DrainTake \/ DrainPublish \/ DrainEnd

-----------------------------------------------------------------------------
(* Starting up *)

Goto(from, to) == outcome = "running" /\ main = from /\ main' = to

\* NewDependencies starts the consumers last; main's logger is still stdout.
NewDependencies ==
  /\ \/ /\ Goto("init", "setLogger")
        /\ consumer' = [c \in Consumers |-> "info"]
        /\ UNCHANGED outcome
     \/ Goto("init", "end") /\ outcome' = "exit1" /\ UNCHANGED consumer
  /\ UNCHANGED <<pos, return, shutdownErr, signalled, server, stopping, errCh, client,
                 logging, closed>>

\* The default logger, so far stdout alone, is teed to Kafka.
SetLogger ==
  /\ Goto("setLogger", "start")
  /\ logger' \in LogLevels
  /\ drain' = "idle"
  /\ UNCHANGED <<pos, return, shutdownErr, signalled, others, queue, closed, outcome>>

Start ==
  /\ Goto("start", "notify")
  /\ server' = [s \in Servers |-> "begun"]
  /\ UNCHANGED <<pos, return, shutdownErr, signalled, stopping, errCh, client, consumer,
                 logging, closed, outcome>>

Notify ==
  /\ Goto("notify", "select")
  /\ UNCHANGED <<pos, return, shutdownErr, signalled, others, logging, closed, outcome>>

\* A signal: fatal before signal.Notify, kept in quit's one slot after it.
Signal ==
  /\ outcome = "running" /\ ~signalled
  /\ signalled' = TRUE
  /\ IF main \in {"init", "setLogger", "start", "notify"}
     THEN outcome' = "killed"
     ELSE UNCHANGED outcome
  /\ UNCHANGED <<mainVars, others, logging, closed>>

-----------------------------------------------------------------------------
(* The servers and their clients *)

Server(s, from, to) ==
  /\ outcome = "running" /\ server[s] = from
  /\ server' = [server EXCEPT ![s] = to]
  /\ UNCHANGED <<mainVars, signalled, stopping, client, consumer, logger, drain, closed>>

ServerLogs(s) == Server(s, "begun", "binding") /\ Slog("info") /\ UNCHANGED errCh

ServerBinds(s) ==
  Server(s, "binding", "serving") /\ s \notin stopping /\ Silent /\ UNCHANGED errCh

\* Mutant of ServerFails: the goroutine tries again after an error.
ServerFailsRetries(s) ==
  /\ Server(s, "binding", "binding") \/ Server(s, "serving", "binding")
  /\ Len(errCh) < 2
  /\ errCh' = Append(errCh, s)
  /\ Silent

\* Listening or serving fails; the goroutine reports it and ends.
ServerFails(s) ==
  /\ Server(s, "binding", "gone") \/ Server(s, "serving", "gone")
  /\ Len(errCh) < 2
  /\ errCh' = Append(errCh, s)
  /\ Silent

\* The server was told to stop.  Only gRPC takes it for an error, and only
\* when it was stopped before Serve.
ServerEnds(s) ==
  /\ s \in stopping
  /\ Server(s, "serving", "gone") \/ (s = "http" /\ Server(s, "binding", "gone"))
  /\ Silent /\ UNCHANGED errCh

Client(c, from, to) ==
  /\ outcome = "running" /\ client[c] = from
  /\ client' = [client EXCEPT ![c] = to]
  /\ UNCHANGED <<mainVars, signalled, server, stopping, errCh, consumer, logger, drain, closed>>

Call(c, s) == Client(c, "none", s) /\ server[s] = "serving" /\ s \notin stopping /\ Silent
HttpHandled(c) == Client(c, "http", "httpLog") /\ Silent
HttpLogs(c) == Client(c, "httpLog", "none") /\ Slog("info")
GrpcHandled(c) == Client(c, "grpc", "none") /\ Silent

-----------------------------------------------------------------------------
(* Consumer.Consume, with a context nobody cancels: a closed reader makes  *)
(* ReadMessage fail at once, which is logged, and the loop goes on.        *)

Consumer(c, from, to) ==
  /\ outcome = "running" /\ consumer[c] = from
  /\ consumer' = [consumer EXCEPT ![c] = to]
  /\ UNCHANGED <<mainVars, signalled, server, stopping, errCh, client, logger, drain, closed>>

ConsumerReads(c) ==
  /\ \/ Consumer(c, "reading", "error")  \* reading or handling it failed
     \/ c = "consumer" /\ c \notin closed /\ Consumer(c, "reading", "info")
  /\ Silent

ConsumerLogs(c) ==
  \E level \in {"info", "error"} : Consumer(c, level, "reading") /\ Slog(level)

-----------------------------------------------------------------------------
(* Shutting down *)

OnSignal ==
  /\ Goto("select", "logDown")
  /\ signalled
  /\ UNCHANGED <<pos, return, shutdownErr, signalled, others, logging, closed, outcome>>

BeginClose(then) == pos' = 1 /\ return' = then

\* Mutant of OnError: closing is left to main's deferred Close.
OnErrorDefers ==
  /\ Goto("select", "logFailed")
  /\ errCh # <<>>
  /\ errCh' = Tail(errCh)
  /\ Slog("error")
  /\ UNCHANGED <<pos, return, shutdownErr, signalled, server, stopping, client, consumer, logger,
                 drain, closed>>

\* A server could not start: close everything, without stopping the other one.
OnError ==
  /\ Goto("select", "closing")
  /\ errCh # <<>>
  /\ errCh' = Tail(errCh)
  /\ BeginClose("logFailed")
  /\ Slog("error")
  /\ UNCHANGED <<shutdownErr, signalled, server, stopping, client, consumer, logger, drain, closed>>

LogDown ==
  /\ Goto("logDown", "httpStop")
  /\ Slog("info")
  /\ UNCHANGED <<pos, return, shutdownErr, signalled, others, logger, drain, closed>>

Stop(s, from, to) ==
  /\ Goto(from, to)
  /\ stopping' = stopping \cup {s}
  /\ UNCHANGED <<pos, return, shutdownErr, signalled, server, errCh, client, consumer,
                 logging, closed, outcome>>

\* http.Shutdown closes the listener and waits for the handlers, 30 seconds.
HttpStop == Stop("http", "httpStop", "httpWait")

HttpIdle ==
  /\ Goto("httpWait", "grpcStop")
  /\ InFlight({"http", "httpLog"}) = {}
  /\ UNCHANGED <<pos, return, shutdownErr, signalled, others, logging, closed, outcome>>

\* Mutant of HttpTimeout: Shutdown is called with the background context.
HttpTimeoutNever == FALSE /\ UNCHANGED vars

HttpTimeout ==
  /\ Goto("httpWait", "grpcStop")
  /\ InFlight({"http", "httpLog"}) # {}
  /\ shutdownErr' = TRUE
  /\ UNCHANGED <<pos, return, signalled, others, logging, closed, outcome>>

\* GracefulStop waits for the RPCs in flight, however long they take.
GrpcStop == Stop("grpc", "grpcStop", "grpcWait")

\* Mutant of GrpcIdle: Stop instead of GracefulStop.
GrpcIdleAtOnce ==
  /\ Goto("grpcWait", "closing")
  /\ BeginClose("logExited")
  /\ UNCHANGED <<shutdownErr, signalled, others, logging, closed, outcome>>

GrpcIdle ==
  /\ Goto("grpcWait", "closing")
  /\ InFlight({"grpc"}) = {}
  /\ BeginClose("logExited")
  /\ UNCHANGED <<shutdownErr, signalled, others, logging, closed, outcome>>

\* Dependencies.Close, one resource at a time; an error is logged.
CloseNext ==
  /\ outcome = "running" /\ main = "closing" /\ pos <= Len(CloseOrder)
  /\ CloseOrder[pos] # "logHandler"
  /\ closed' = closed \cup {CloseOrder[pos]}
  /\ pos' = pos + 1
  /\ Silent \/ Slog("error")
  /\ UNCHANGED <<main, return, shutdownErr, signalled, others, logger, drain>>

\* KafkaHandler.Close: close the channel, which panics the second time, ...
CloseLogHandler ==
  /\ pos <= Len(CloseOrder) /\ CloseOrder[pos] = "logHandler"
  /\ Goto("closing", "draining")
  /\ IF "logHandler" \in closed THEN outcome' = "panic" ELSE UNCHANGED outcome
  /\ closed' = closed \cup {"logHandler"}
  /\ UNCHANGED <<pos, return, shutdownErr, signalled, others, logging>>

\* ... and wait for the drain goroutine.
WaitForDrain ==
  /\ Goto("draining", "closing")
  /\ drain = "gone"
  /\ pos' = pos + 1
  /\ UNCHANGED <<return, shutdownErr, signalled, others, logging, closed, outcome>>

CloseDone ==
  /\ pos = Len(CloseOrder) + 1
  /\ Goto("closing", return)
  /\ UNCHANGED <<pos, return, shutdownErr, signalled, others, logging, closed, outcome>>

\* "server exited", the last line of shutdown; main returns through its
\* deferred second Close, or reports the error.
LogExited ==
  /\ \/ Goto("logExited", "closing") /\ ~shutdownErr /\ BeginClose("end")
     \/ Goto("logExited", "logFailed") /\ shutdownErr /\ UNCHANGED <<pos, return>>
  /\ Slog("info")
  /\ UNCHANGED <<shutdownErr, signalled, others, logger, drain, closed>>

LogFailed ==
  /\ Goto("logFailed", "exit")
  /\ Slog("error")
  /\ UNCHANGED <<pos, return, shutdownErr, signalled, others, logger, drain, closed>>

\* os.Exit(1), or main returns.
Exit ==
  /\ outcome = "running" /\ main \in {"exit", "end"}
  /\ outcome' = IF main = "exit" THEN "exit1" ELSE "exit0"
  /\ UNCHANGED <<mainVars, signalled, others, logging, closed>>

-----------------------------------------------------------------------------
Init ==
  /\ main = "init" /\ pos = 1 /\ return = "end"
  /\ signalled = FALSE /\ shutdownErr = FALSE
  /\ server = [s \in Servers |-> "off"] /\ stopping = {}
  /\ errCh = <<>>
  /\ client = [c \in Clients |-> "none"]
  /\ consumer = [c \in Consumers |-> "off"]
  /\ logger = {} /\ queue = 0 /\ drain = "off"
  /\ closed = {}
  /\ outcome = "running"

Main ==
  \/ NewDependencies \/ SetLogger \/ Start \/ Notify
  \/ OnSignal \/ OnError \/ LogDown \/ HttpStop \/ HttpIdle \/ HttpTimeout
  \/ GrpcStop \/ GrpcIdle
  \/ CloseNext \/ CloseLogHandler \/ WaitForDrain \/ CloseDone
  \/ LogExited \/ LogFailed \/ Exit

Serve(s) == ServerLogs(s) \/ ServerBinds(s) \/ ServerFails(s) \/ ServerEnds(s)

Request(c) == (\E s \in Servers : Call(c, s)) \/ HttpHandled(c) \/ HttpLogs(c) \/ GrpcHandled(c)

Consume(c) == ConsumerReads(c) \/ ConsumerLogs(c)

Next ==
  \/ Main \/ Signal \/ Drain
  \/ \E s \in Servers : Serve(s)
  \/ \E c \in Clients : Request(c)
  \/ \E c \in Consumers : Consume(c)

Spec == Init /\ [][Next]_vars

\* The main and the drain goroutine are scheduled, publishing and every RPC
\* end; nothing is assumed of HTTP handlers or of consumers.
FairSpec ==
  /\ Spec
  /\ WF_vars(Main) /\ WF_vars(Drain)
  /\ \A c \in Clients : WF_vars(GrpcHandled(c))

-----------------------------------------------------------------------------
(* Properties *)

\* Dependencies.Close leaves no log record behind: when the log producer is
\* closed the channel is empty and the drain goroutine has ended, though
\* requests and consumers log until then.
Flushed == "logProducer" \in closed => drain = "gone" /\ queue = 0

\* After a signal nothing is closed under a request: every RPC has ended, and
\* an HTTP request is still running only if it outlasted the 30 seconds.
DrainedBeforeClose ==
  ("http" \in stopping /\ closed # {})
    => InFlight({"grpc"}) = {} /\ (InFlight({"http", "httpLog"}) # {} => shutdownErr)

\* The process reports a failure only for one, and with everything closed, though
\* os.Exit skips main's deferred Close: NewDependencies failed and nothing runs
\* yet, a server gave up, or the 30 seconds ran out.
GaveUp == \E s \in Servers : server[s] = "gone" /\ s \notin stopping
FailsClosed ==
  outcome = "exit1" =>
    \/ main = "end" /\ \A c \in Consumers : consumer[c] = "off"
    \/ closed = Resources /\ (shutdownErr \/ GaveUp)

\* No server goroutine ever waits to report its error, even after main has
\* stopped receiving: errCh has room for both.
NoSenderBlocked == \A s \in Servers : server[s] \in {"binding", "serving"} => Len(errCh) < 2

\* A signal ends the process, and so does a server that could not start or gave
\* up, whatever HTTP handlers and consumers do: no process goes on serving with
\* its dependencies closed.
ShutdownEnds == (signalled \/ errCh # <<>>) ~> (outcome # "running")

\* Handle() is non-blocking: whoever is about to log can do so at once, however
\* full the channel, and wherever the drain goroutine and Kafka are.
LoggingNeverBlocks ==
  outcome = "running" =>
    /\ \A c \in Clients : client[c] = "httpLog" => ENABLED HttpLogs(c)
    /\ \A c \in Consumers : consumer[c] \in {"info", "error"} => ENABLED ConsumerLogs(c)
    /\ main = "logDown" => ENABLED LogDown

\* What keeps the three invariants: where main is tells which servers are told
\* to stop, what may be in flight and what is closed; the drain goroutine ends
\* with an empty channel nobody can fill again; a server reports one error.
Early == {"init", "setLogger", "start"}
Serving == {"notify", "select", "logDown", "httpStop"}
Closing == {"closing", "draining", "logExited", "logFailed", "exit", "end"}
Unsent(s) == IF server[s] = "gone" THEN 0 ELSE 1

LogInv ==
  /\ main \notin Closing => closed = {}
  /\ main \in {"init", "setLogger"} => drain = "off"
  /\ drain = "gone" => queue = 0 /\ "logHandler" \in closed
  /\ "logProducer" \in closed => drain = "gone"
  /\ main = "draining" => pos = 3
  /\ (main = "closing" /\ pos > 3) => drain = "gone"

StopInv ==
  /\ main \in Early \cup Serving => stopping = {}
  /\ main \in {"httpWait", "grpcStop"} => stopping = {"http"}
  /\ main = "grpcWait" => stopping = Servers
  /\ main \in Closing => stopping \in {{}, Servers}
  /\ (main \in {"grpcStop", "grpcWait"} \cup Closing /\ "http" \in stopping /\ ~shutdownErr)
       => \A c \in Clients : client[c] \notin {"http", "httpLog"}
  /\ (main \in Closing /\ "http" \in stopping) => \A c \in Clients : client[c] # "grpc"

ErrInv ==
  /\ main \in Early => \A s \in Servers : server[s] = "off"
  /\ Len(errCh) + Unsent("grpc") + Unsent("http") <= 2

\* What keeps FailsClosed: how far Dependencies.Close has come, why main fails,
\* and that the deferred Close, the second one, never gets past the log handler.
ExitInv ==
  /\ \A n \in DOMAIN errCh : server[errCh[n]] = "gone"
  /\ main = "init" => \A c \in Consumers : consumer[c] = "off"
  /\ main = "closing" => \A n \in 1 .. pos - 1 : CloseOrder[n] \in closed
  /\ main = "draining" => \A n \in 1 .. 3 : CloseOrder[n] \in closed
  /\ main \in {"logExited", "logFailed", "exit"} => closed = Resources
  /\ (main = "closing" /\ return = "end") => pos <= 3 /\ closed = Resources
  /\ (main = "draining" /\ return = "end") => outcome # "running"
  /\ main = "end" => outcome = "exit1" /\ \A c \in Consumers : consumer[c] = "off"
  /\ (main \in {"logFailed", "exit"} \/ (main \in {"closing", "draining"} /\ return = "logFailed"))
       => shutdownErr \/ (stopping = {} /\ \E s \in Servers : server[s] = "gone")
  /\ outcome = "exit1" => main \in {"exit", "end"}
  /\ outcome # "exit0"

LifecycleInv == TypeOK /\ LogInv /\ StopInv /\ ErrInv

-----------------------------------------------------------------------------
(* What the comments say and the code does not do *)

\* Run "shuts everything down gracefully": no goroutine panics on the way.
NoPanic == outcome # "panic"
=============================================================================
