-------------------------- MODULE LifecycleProofs --------------------------
(***************************************************************************)
(* What shutting the server down guarantees, for any number of clients,    *)
(* any size of the log channel and any log level.                          *)
(***************************************************************************)
EXTENDS Lifecycle, TLAPS

\* The places of the log handler and the log producer in Dependencies.Close.
LEMMA Order ==
  /\ Len(CloseOrder) = 7
  /\ \A n \in 1 .. 7 :
       /\ CloseOrder[n] \in Resources
       /\ CloseOrder[n] = "logHandler" <=> n = 3
       /\ CloseOrder[n] = "logProducer" <=> n = 5
BY DEF CloseOrder, Resources

LEMMA InitInv == Init => LifecycleInv
<1> SUFFICES ASSUME Init PROVE LifecycleInv
  OBVIOUS
<1>1. TypeOK
  <2>1. pos \in 1 .. Len(CloseOrder) + 1
    BY Order DEF Init
  <2>2. queue \in 0 .. BufferSize
    BY LifecycleAssumption DEF Init
  <2>3. signalled \in BOOLEAN /\ shutdownErr \in BOOLEAN
    BY DEF Init
  <2>4. errCh \in Seq(Servers)
    BY DEF Init
  <2> QED BY <2>1, <2>2, <2>3, <2>4 DEF Init, TypeOK, LogLevels
<1>2. LogInv
  BY DEF Init, LogInv, Closing
<1>3. StopInv
  BY DEF Init, StopInv, Early, Serving, Closing, Servers
<1>4. ErrInv
  BY DEF Init, ErrInv, Unsent, Servers
<1> QED BY <1>1, <1>2, <1>3, <1>4 DEF LifecycleInv

\* Every step keeps the types.
LEMMA TypeStep ==
  ASSUME TypeOK, LogInv, [Next]_vars
  PROVE  TypeOK'
<1> USE Order, LifecycleAssumption DEF TypeOK, LogLevels
<1>1. ASSUME NewDependencies PROVE TypeOK'
  BY <1>1 DEF NewDependencies, mainVars, others, logging, Goto
<1>2. ASSUME SetLogger PROVE TypeOK'
  BY <1>2 DEF SetLogger, mainVars, others, logging, Goto
<1>3. ASSUME Start PROVE TypeOK'
  BY <1>3 DEF Start, mainVars, others, logging, Goto
<1>4. ASSUME Notify PROVE TypeOK'
  BY <1>4 DEF Notify, mainVars, others, logging, Goto
<1>5. ASSUME OnSignal PROVE TypeOK'
  BY <1>5 DEF OnSignal, mainVars, others, logging, Goto
<1>6. ASSUME OnError PROVE TypeOK'
  BY <1>6 DEF OnError, mainVars, others, logging, Goto, Slog, BeginClose
<1>7. ASSUME LogDown PROVE TypeOK'
  BY <1>7 DEF LogDown, mainVars, others, logging, Goto, Slog
<1>8. ASSUME HttpStop PROVE TypeOK'
  BY <1>8 DEF HttpStop, mainVars, others, logging, Goto, Stop, Servers
<1>9. ASSUME HttpIdle PROVE TypeOK'
  BY <1>9 DEF HttpIdle, mainVars, others, logging, Goto, InFlight
<1>10. ASSUME HttpTimeout PROVE TypeOK'
  BY <1>10 DEF HttpTimeout, mainVars, others, logging, Goto, InFlight
<1>11. ASSUME GrpcStop PROVE TypeOK'
  BY <1>11 DEF GrpcStop, mainVars, others, logging, Goto, Stop, Servers
<1>12. ASSUME GrpcIdle PROVE TypeOK'
  BY <1>12 DEF GrpcIdle, mainVars, others, logging, Goto, BeginClose, InFlight
<1>13. ASSUME CloseNext PROVE TypeOK'
  BY <1>13 DEF CloseNext, mainVars, others, logging, Goto, Slog, Silent
<1>14. ASSUME CloseLogHandler PROVE TypeOK'
  BY <1>14 DEF CloseLogHandler, mainVars, others, logging, Goto
<1>15. ASSUME WaitForDrain PROVE TypeOK'
  BY <1>15 DEF WaitForDrain, mainVars, others, logging, Goto, LogInv
<1>16. ASSUME CloseDone PROVE TypeOK'
  BY <1>16 DEF CloseDone, mainVars, others, logging, Goto
<1>17. ASSUME LogExited PROVE TypeOK'
  BY <1>17 DEF LogExited, mainVars, others, logging, Goto, Slog, BeginClose
<1>18. ASSUME LogFailed PROVE TypeOK'
  BY <1>18 DEF LogFailed, mainVars, others, logging, Goto, Slog
<1>19. ASSUME Exit PROVE TypeOK'
  BY <1>19 DEF Exit, mainVars, others, logging, Goto
<1>20. ASSUME Signal PROVE TypeOK'
  BY <1>20 DEF Signal, mainVars, others, logging
<1>21. ASSUME Drain PROVE TypeOK'
  <2>1. ASSUME DrainTake PROVE TypeOK'
    BY <2>1 DEF DrainTake, mainVars, others
  <2>2. ASSUME DrainPublish PROVE TypeOK'
    BY <2>2 DEF DrainPublish, mainVars, others
  <2>3. ASSUME DrainEnd PROVE TypeOK'
    BY <2>3 DEF DrainEnd, mainVars, others
  <2> QED BY <1>21, <2>1, <2>2, <2>3 DEF Drain
<1>22. ASSUME NEW s \in Servers, Serve(s) PROVE TypeOK'
  <2>1. ASSUME ServerLogs(s) PROVE TypeOK'
    BY <2>1 DEF ServerLogs, Server, Slog, Silent, mainVars
  <2>2. ASSUME ServerBinds(s) PROVE TypeOK'
    BY <2>2 DEF ServerBinds, Server, Slog, Silent, mainVars
  <2>3. ASSUME ServerFails(s) PROVE TypeOK'
    BY <2>3 DEF ServerFails, Server, Slog, Silent, mainVars
  <2>4. ASSUME ServerEnds(s) PROVE TypeOK'
    BY <2>4 DEF ServerEnds, Server, Slog, Silent, mainVars
  <2> QED BY <1>22, <2>1, <2>2, <2>3, <2>4 DEF Serve
<1>23. ASSUME NEW c \in Clients, Request(c) PROVE TypeOK'
  <2>1. ASSUME NEW s \in Servers, Call(c, s) PROVE TypeOK'
    BY <2>1 DEF Call, Client, Silent, mainVars, Servers
  <2>2. ASSUME HttpHandled(c) PROVE TypeOK'
    BY <2>2 DEF HttpHandled, Client, Slog, Silent, mainVars
  <2>3. ASSUME HttpLogs(c) PROVE TypeOK'
    BY <2>3 DEF HttpLogs, Client, Slog, Silent, mainVars
  <2>4. ASSUME GrpcHandled(c) PROVE TypeOK'
    BY <2>4 DEF GrpcHandled, Client, Slog, Silent, mainVars
  <2> QED BY <1>23, <2>1, <2>2, <2>3, <2>4 DEF Request
<1>24. ASSUME NEW c \in Consumers, Consume(c) PROVE TypeOK'
  <2>1. ASSUME ConsumerReads(c) PROVE TypeOK'
    BY <2>1 DEF ConsumerReads, Consumer, Slog, Silent, mainVars
  <2>2. ASSUME ConsumerLogs(c) PROVE TypeOK'
    BY <2>2 DEF ConsumerLogs, Consumer, Slog, Silent, mainVars
  <2> QED BY <1>24, <2>1, <2>2 DEF Consume
<1>25. ASSUME UNCHANGED vars PROVE TypeOK'
  BY <1>25 DEF vars, mainVars, others, logging
<1> QED BY <1>1, <1>2, <1>3, <1>4, <1>5, <1>6, <1>7, <1>8, <1>9, <1>10, <1>11,
       <1>12, <1>13, <1>14, <1>15, <1>16, <1>17, <1>18, <1>19, <1>20, <1>21,
       <1>22, <1>23, <1>24, <1>25 DEF Next, Main

\* Every step keeps what is known of the log channel.
LEMMA LogStep ==
  ASSUME TypeOK, LogInv, [Next]_vars
  PROVE  LogInv'
<1> USE Order, LifecycleAssumption DEF TypeOK, LogInv, Closing
<1>1. ASSUME NewDependencies PROVE LogInv'
  BY <1>1 DEF NewDependencies, mainVars, others, logging, Goto
<1>2. ASSUME SetLogger PROVE LogInv'
  BY <1>2 DEF SetLogger, mainVars, others, logging, Goto
<1>3. ASSUME Start PROVE LogInv'
  BY <1>3 DEF Start, mainVars, others, logging, Goto
<1>4. ASSUME Notify PROVE LogInv'
  BY <1>4 DEF Notify, mainVars, others, logging, Goto
<1>5. ASSUME OnSignal PROVE LogInv'
  BY <1>5 DEF OnSignal, mainVars, others, logging, Goto
<1>6. ASSUME OnError PROVE LogInv'
  BY <1>6 DEF OnError, mainVars, others, logging, Goto, Slog, BeginClose
<1>7. ASSUME LogDown PROVE LogInv'
  BY <1>7 DEF LogDown, mainVars, others, logging, Goto, Slog
<1>8. ASSUME HttpStop PROVE LogInv'
  BY <1>8 DEF HttpStop, mainVars, others, logging, Goto, Stop, Servers
<1>9. ASSUME HttpIdle PROVE LogInv'
  BY <1>9 DEF HttpIdle, mainVars, others, logging, Goto, InFlight
<1>10. ASSUME HttpTimeout PROVE LogInv'
  BY <1>10 DEF HttpTimeout, mainVars, others, logging, Goto, InFlight
<1>11. ASSUME GrpcStop PROVE LogInv'
  BY <1>11 DEF GrpcStop, mainVars, others, logging, Goto, Stop, Servers
<1>12. ASSUME GrpcIdle PROVE LogInv'
  BY <1>12 DEF GrpcIdle, mainVars, others, logging, Goto, BeginClose, InFlight
<1>13. ASSUME CloseNext PROVE LogInv'
  BY <1>13 DEF CloseNext, mainVars, others, logging, Goto, Slog, Silent
<1>14. ASSUME CloseLogHandler PROVE LogInv'
  BY <1>14 DEF CloseLogHandler, mainVars, others, logging, Goto
<1>15. ASSUME WaitForDrain PROVE LogInv'
  BY <1>15 DEF WaitForDrain, mainVars, others, logging, Goto
<1>16. ASSUME CloseDone PROVE LogInv'
  BY <1>16 DEF CloseDone, mainVars, others, logging, Goto
<1>17. ASSUME LogExited PROVE LogInv'
  BY <1>17 DEF LogExited, mainVars, others, logging, Goto, Slog, BeginClose
<1>18. ASSUME LogFailed PROVE LogInv'
  BY <1>18 DEF LogFailed, mainVars, others, logging, Goto, Slog
<1>19. ASSUME Exit PROVE LogInv'
  BY <1>19 DEF Exit, mainVars, others, logging, Goto
<1>20. ASSUME Signal PROVE LogInv'
  BY <1>20 DEF Signal, mainVars, others, logging
<1>21. ASSUME Drain PROVE LogInv'
  <2>1. ASSUME DrainTake PROVE LogInv'
    BY <2>1 DEF DrainTake, mainVars, others
  <2>2. ASSUME DrainPublish PROVE LogInv'
    BY <2>2 DEF DrainPublish, mainVars, others
  <2>3. ASSUME DrainEnd PROVE LogInv'
    BY <2>3 DEF DrainEnd, mainVars, others
  <2> QED BY <1>21, <2>1, <2>2, <2>3 DEF Drain
<1>22. ASSUME NEW s \in Servers, Serve(s) PROVE LogInv'
  <2>1. ASSUME ServerLogs(s) PROVE LogInv'
    BY <2>1 DEF ServerLogs, Server, Slog, Silent, mainVars
  <2>2. ASSUME ServerBinds(s) PROVE LogInv'
    BY <2>2 DEF ServerBinds, Server, Slog, Silent, mainVars
  <2>3. ASSUME ServerFails(s) PROVE LogInv'
    BY <2>3 DEF ServerFails, Server, Slog, Silent, mainVars
  <2>4. ASSUME ServerEnds(s) PROVE LogInv'
    BY <2>4 DEF ServerEnds, Server, Slog, Silent, mainVars
  <2> QED BY <1>22, <2>1, <2>2, <2>3, <2>4 DEF Serve
<1>23. ASSUME NEW c \in Clients, Request(c) PROVE LogInv'
  <2>1. ASSUME NEW s \in Servers, Call(c, s) PROVE LogInv'
    BY <2>1 DEF Call, Client, Silent, mainVars, Servers
  <2>2. ASSUME HttpHandled(c) PROVE LogInv'
    BY <2>2 DEF HttpHandled, Client, Slog, Silent, mainVars
  <2>3. ASSUME HttpLogs(c) PROVE LogInv'
    BY <2>3 DEF HttpLogs, Client, Slog, Silent, mainVars
  <2>4. ASSUME GrpcHandled(c) PROVE LogInv'
    BY <2>4 DEF GrpcHandled, Client, Slog, Silent, mainVars
  <2> QED BY <1>23, <2>1, <2>2, <2>3, <2>4 DEF Request
<1>24. ASSUME NEW c \in Consumers, Consume(c) PROVE LogInv'
  <2>1. ASSUME ConsumerReads(c) PROVE LogInv'
    BY <2>1 DEF ConsumerReads, Consumer, Slog, Silent, mainVars
  <2>2. ASSUME ConsumerLogs(c) PROVE LogInv'
    BY <2>2 DEF ConsumerLogs, Consumer, Slog, Silent, mainVars
  <2> QED BY <1>24, <2>1, <2>2 DEF Consume
<1>25. ASSUME UNCHANGED vars PROVE LogInv'
  BY <1>25 DEF vars, mainVars, others, logging
<1> QED BY <1>1, <1>2, <1>3, <1>4, <1>5, <1>6, <1>7, <1>8, <1>9, <1>10, <1>11,
       <1>12, <1>13, <1>14, <1>15, <1>16, <1>17, <1>18, <1>19, <1>20, <1>21,
       <1>22, <1>23, <1>24, <1>25 DEF Next, Main

\* Every step keeps what is known of the servers being stopped.
LEMMA StopStep ==
  ASSUME TypeOK, StopInv, [Next]_vars
  PROVE  StopInv'
<1> USE Order, LifecycleAssumption DEF TypeOK, StopInv, Servers, Early, Serving, Closing
<1>1. ASSUME NewDependencies PROVE StopInv'
  BY <1>1 DEF NewDependencies, mainVars, others, logging, Goto
<1>2. ASSUME SetLogger PROVE StopInv'
  BY <1>2 DEF SetLogger, mainVars, others, logging, Goto
<1>3. ASSUME Start PROVE StopInv'
  BY <1>3 DEF Start, mainVars, others, logging, Goto
<1>4. ASSUME Notify PROVE StopInv'
  BY <1>4 DEF Notify, mainVars, others, logging, Goto
<1>5. ASSUME OnSignal PROVE StopInv'
  BY <1>5 DEF OnSignal, mainVars, others, logging, Goto
<1>6. ASSUME OnError PROVE StopInv'
  BY <1>6 DEF OnError, mainVars, others, logging, Goto, Slog, BeginClose
<1>7. ASSUME LogDown PROVE StopInv'
  BY <1>7 DEF LogDown, mainVars, others, logging, Goto, Slog
<1>8. ASSUME HttpStop PROVE StopInv'
  BY <1>8 DEF HttpStop, mainVars, others, logging, Goto, Stop, Servers
<1>9. ASSUME HttpIdle PROVE StopInv'
  BY <1>9 DEF HttpIdle, mainVars, others, logging, Goto, InFlight
<1>10. ASSUME HttpTimeout PROVE StopInv'
  BY <1>10 DEF HttpTimeout, mainVars, others, logging, Goto, InFlight
<1>11. ASSUME GrpcStop PROVE StopInv'
  BY <1>11 DEF GrpcStop, mainVars, others, logging, Goto, Stop, Servers
<1>12. ASSUME GrpcIdle PROVE StopInv'
  BY <1>12 DEF GrpcIdle, mainVars, others, logging, Goto, BeginClose, InFlight
<1>13. ASSUME CloseNext PROVE StopInv'
  BY <1>13 DEF CloseNext, mainVars, others, logging, Goto, Slog, Silent
<1>14. ASSUME CloseLogHandler PROVE StopInv'
  BY <1>14 DEF CloseLogHandler, mainVars, others, logging, Goto
<1>15. ASSUME WaitForDrain PROVE StopInv'
  BY <1>15 DEF WaitForDrain, mainVars, others, logging, Goto
<1>16. ASSUME CloseDone PROVE StopInv'
  BY <1>16 DEF CloseDone, mainVars, others, logging, Goto
<1>17. ASSUME LogExited PROVE StopInv'
  BY <1>17 DEF LogExited, mainVars, others, logging, Goto, Slog, BeginClose
<1>18. ASSUME LogFailed PROVE StopInv'
  BY <1>18 DEF LogFailed, mainVars, others, logging, Goto, Slog
<1>19. ASSUME Exit PROVE StopInv'
  BY <1>19 DEF Exit, mainVars, others, logging, Goto
<1>20. ASSUME Signal PROVE StopInv'
  BY <1>20 DEF Signal, mainVars, others, logging
<1>21. ASSUME Drain PROVE StopInv'
  <2>1. ASSUME DrainTake PROVE StopInv'
    BY <2>1 DEF DrainTake, mainVars, others
  <2>2. ASSUME DrainPublish PROVE StopInv'
    BY <2>2 DEF DrainPublish, mainVars, others
  <2>3. ASSUME DrainEnd PROVE StopInv'
    BY <2>3 DEF DrainEnd, mainVars, others
  <2> QED BY <1>21, <2>1, <2>2, <2>3 DEF Drain
<1>22. ASSUME NEW s \in Servers, Serve(s) PROVE StopInv'
  <2>1. ASSUME ServerLogs(s) PROVE StopInv'
    BY <2>1 DEF ServerLogs, Server, Slog, Silent, mainVars
  <2>2. ASSUME ServerBinds(s) PROVE StopInv'
    BY <2>2 DEF ServerBinds, Server, Slog, Silent, mainVars
  <2>3. ASSUME ServerFails(s) PROVE StopInv'
    <3>1. main' = main /\ stopping' = stopping /\ client' = client /\ shutdownErr' = shutdownErr
      BY <2>3 DEF ServerFails, Server, mainVars
    <3> QED BY <3>1
  <2>4. ASSUME ServerEnds(s) PROVE StopInv'
    <3>1. main' = main /\ stopping' = stopping /\ client' = client /\ shutdownErr' = shutdownErr
      BY <2>4 DEF ServerEnds, Server, mainVars
    <3> QED BY <3>1
  <2> QED BY <1>22, <2>1, <2>2, <2>3, <2>4 DEF Serve
<1>23. ASSUME NEW c \in Clients, Request(c) PROVE StopInv'
  <2>1. ASSUME NEW s \in Servers, Call(c, s) PROVE StopInv'
    BY <2>1 DEF Call, Client, Silent, mainVars, Servers
  <2>2. ASSUME HttpHandled(c) PROVE StopInv'
    BY <2>2 DEF HttpHandled, Client, Slog, Silent, mainVars
  <2>3. ASSUME HttpLogs(c) PROVE StopInv'
    BY <2>3 DEF HttpLogs, Client, Slog, Silent, mainVars
  <2>4. ASSUME GrpcHandled(c) PROVE StopInv'
    BY <2>4 DEF GrpcHandled, Client, Slog, Silent, mainVars
  <2> QED BY <1>23, <2>1, <2>2, <2>3, <2>4 DEF Request
<1>24. ASSUME NEW c \in Consumers, Consume(c) PROVE StopInv'
  <2>1. ASSUME ConsumerReads(c) PROVE StopInv'
    BY <2>1 DEF ConsumerReads, Consumer, Slog, Silent, mainVars
  <2>2. ASSUME ConsumerLogs(c) PROVE StopInv'
    BY <2>2 DEF ConsumerLogs, Consumer, Slog, Silent, mainVars
  <2> QED BY <1>24, <2>1, <2>2 DEF Consume
<1>25. ASSUME UNCHANGED vars PROVE StopInv'
  BY <1>25 DEF vars, mainVars, others, logging
<1> QED BY <1>1, <1>2, <1>3, <1>4, <1>5, <1>6, <1>7, <1>8, <1>9, <1>10, <1>11,
       <1>12, <1>13, <1>14, <1>15, <1>16, <1>17, <1>18, <1>19, <1>20, <1>21,
       <1>22, <1>23, <1>24, <1>25 DEF Next, Main

\* Every step keeps room for the errors still to come.
LEMMA ErrStep ==
  ASSUME TypeOK, ErrInv, [Next]_vars
  PROVE  ErrInv'
<1> USE Order, LifecycleAssumption DEF TypeOK, ErrInv, Unsent, Servers, Early
<1>1. ASSUME NewDependencies PROVE ErrInv'
  BY <1>1 DEF NewDependencies, mainVars, others, logging, Goto
<1>2. ASSUME SetLogger PROVE ErrInv'
  BY <1>2 DEF SetLogger, mainVars, others, logging, Goto
<1>3. ASSUME Start PROVE ErrInv'
  BY <1>3 DEF Start, mainVars, others, logging, Goto
<1>4. ASSUME Notify PROVE ErrInv'
  BY <1>4 DEF Notify, mainVars, others, logging, Goto
<1>5. ASSUME OnSignal PROVE ErrInv'
  BY <1>5 DEF OnSignal, mainVars, others, logging, Goto
<1>6. ASSUME OnError PROVE ErrInv'
  <2>1. /\ errCh # <<>> /\ errCh' = Tail(errCh) /\ errCh \in Seq(Servers)
        /\ server' = server /\ main' \notin Early
    BY <1>6 DEF OnError, Goto
  <2>2. Len(errCh') \in Nat /\ Len(errCh) \in Nat /\ Len(errCh') < Len(errCh)
    BY <2>1
  <2>3. Unsent("grpc")' = Unsent("grpc") /\ Unsent("http")' = Unsent("http")
    BY <2>1
  <2>4. Unsent("grpc") \in 0 .. 1 /\ Unsent("http") \in 0 .. 1
    OBVIOUS
  <2>5. Len(errCh) + Unsent("grpc") + Unsent("http") <= 2
    OBVIOUS
  <2> HIDE DEF Unsent
  <2>6. Len(errCh') + Unsent("grpc")' + Unsent("http")' <= 2
    BY <2>2, <2>3, <2>4, <2>5
  <2> QED BY <2>1, <2>6
<1>7. ASSUME LogDown PROVE ErrInv'
  BY <1>7 DEF LogDown, mainVars, others, logging, Goto, Slog
<1>8. ASSUME HttpStop PROVE ErrInv'
  BY <1>8 DEF HttpStop, mainVars, others, logging, Goto, Stop, Servers
<1>9. ASSUME HttpIdle PROVE ErrInv'
  BY <1>9 DEF HttpIdle, mainVars, others, logging, Goto, InFlight
<1>10. ASSUME HttpTimeout PROVE ErrInv'
  BY <1>10 DEF HttpTimeout, mainVars, others, logging, Goto, InFlight
<1>11. ASSUME GrpcStop PROVE ErrInv'
  BY <1>11 DEF GrpcStop, mainVars, others, logging, Goto, Stop, Servers
<1>12. ASSUME GrpcIdle PROVE ErrInv'
  BY <1>12 DEF GrpcIdle, mainVars, others, logging, Goto, BeginClose, InFlight
<1>13. ASSUME CloseNext PROVE ErrInv'
  BY <1>13 DEF CloseNext, mainVars, others, logging, Goto, Slog, Silent
<1>14. ASSUME CloseLogHandler PROVE ErrInv'
  BY <1>14 DEF CloseLogHandler, mainVars, others, logging, Goto
<1>15. ASSUME WaitForDrain PROVE ErrInv'
  BY <1>15 DEF WaitForDrain, mainVars, others, logging, Goto
<1>16. ASSUME CloseDone PROVE ErrInv'
  BY <1>16 DEF CloseDone, mainVars, others, logging, Goto
<1>17. ASSUME LogExited PROVE ErrInv'
  BY <1>17 DEF LogExited, mainVars, others, logging, Goto, Slog, BeginClose
<1>18. ASSUME LogFailed PROVE ErrInv'
  BY <1>18 DEF LogFailed, mainVars, others, logging, Goto, Slog
<1>19. ASSUME Exit PROVE ErrInv'
  BY <1>19 DEF Exit, mainVars, others, logging, Goto
<1>20. ASSUME Signal PROVE ErrInv'
  BY <1>20 DEF Signal, mainVars, others, logging
<1>21. ASSUME Drain PROVE ErrInv'
  <2>1. ASSUME DrainTake PROVE ErrInv'
    BY <2>1 DEF DrainTake, mainVars, others
  <2>2. ASSUME DrainPublish PROVE ErrInv'
    BY <2>2 DEF DrainPublish, mainVars, others
  <2>3. ASSUME DrainEnd PROVE ErrInv'
    BY <2>3 DEF DrainEnd, mainVars, others
  <2> QED BY <1>21, <2>1, <2>2, <2>3 DEF Drain
<1>22. ASSUME NEW s \in Servers, Serve(s) PROVE ErrInv'
  <2>1. ASSUME ServerLogs(s) PROVE ErrInv'
    BY <2>1 DEF ServerLogs, Server, Slog, Silent, mainVars
  <2>2. ASSUME ServerBinds(s) PROVE ErrInv'
    BY <2>2 DEF ServerBinds, Server, Slog, Silent, mainVars
  <2>3. ASSUME ServerFails(s) PROVE ErrInv'
    <3>1. /\ errCh' = Append(errCh, s) /\ errCh \in Seq(Servers)
          /\ server[s] \in {"binding", "serving"} /\ main' = main
          /\ server' = [server EXCEPT ![s] = "gone"]
      BY <2>3 DEF ServerFails, Server, mainVars
    <3>2. Len(errCh') = Len(errCh) + 1 /\ Len(errCh) \in Nat
      BY <3>1
    <3>3. main \notin Early
      BY <3>1
    <3>4. /\ Unsent(s) = 1 /\ Unsent(s)' = 0
          /\ \A o \in Servers \ {s} : Unsent(o)' = Unsent(o) /\ Unsent(o) \in 0 .. 1
      BY <3>1
    <3>5. Len(errCh) + Unsent("grpc") + Unsent("http") <= 2
      OBVIOUS
    <3> HIDE DEF Unsent
    <3>6. Len(errCh') + Unsent("grpc")' + Unsent("http")' <= 2
      BY <3>2, <3>4, <3>5
    <3> QED BY <3>1, <3>3, <3>6
  <2>4. ASSUME ServerEnds(s) PROVE ErrInv'
    <3>1. /\ errCh' = errCh /\ errCh \in Seq(Servers)
          /\ server[s] \in {"binding", "serving"} /\ main' = main
          /\ server' = [server EXCEPT ![s] = "gone"]
      BY <2>4 DEF ServerEnds, Server, mainVars
    <3>2. Len(errCh') = Len(errCh) /\ Len(errCh) \in Nat
      BY <3>1
    <3>3. main \notin Early
      BY <3>1
    <3>4. /\ Unsent(s) = 1 /\ Unsent(s)' = 0
          /\ \A o \in Servers \ {s} : Unsent(o)' = Unsent(o) /\ Unsent(o) \in 0 .. 1
      BY <3>1
    <3>5. Len(errCh) + Unsent("grpc") + Unsent("http") <= 2
      OBVIOUS
    <3> HIDE DEF Unsent
    <3>6. Len(errCh') + Unsent("grpc")' + Unsent("http")' <= 2
      BY <3>2, <3>4, <3>5
    <3> QED BY <3>1, <3>3, <3>6
  <2> QED BY <1>22, <2>1, <2>2, <2>3, <2>4 DEF Serve
<1>23. ASSUME NEW c \in Clients, Request(c) PROVE ErrInv'
  <2>1. ASSUME NEW s \in Servers, Call(c, s) PROVE ErrInv'
    BY <2>1 DEF Call, Client, Silent, mainVars, Servers
  <2>2. ASSUME HttpHandled(c) PROVE ErrInv'
    BY <2>2 DEF HttpHandled, Client, Slog, Silent, mainVars
  <2>3. ASSUME HttpLogs(c) PROVE ErrInv'
    BY <2>3 DEF HttpLogs, Client, Slog, Silent, mainVars
  <2>4. ASSUME GrpcHandled(c) PROVE ErrInv'
    BY <2>4 DEF GrpcHandled, Client, Slog, Silent, mainVars
  <2> QED BY <1>23, <2>1, <2>2, <2>3, <2>4 DEF Request
<1>24. ASSUME NEW c \in Consumers, Consume(c) PROVE ErrInv'
  <2>1. ASSUME ConsumerReads(c) PROVE ErrInv'
    BY <2>1 DEF ConsumerReads, Consumer, Slog, Silent, mainVars
  <2>2. ASSUME ConsumerLogs(c) PROVE ErrInv'
    BY <2>2 DEF ConsumerLogs, Consumer, Slog, Silent, mainVars
  <2> QED BY <1>24, <2>1, <2>2 DEF Consume
<1>25. ASSUME UNCHANGED vars PROVE ErrInv'
  BY <1>25 DEF vars, mainVars, others, logging
<1> QED BY <1>1, <1>2, <1>3, <1>4, <1>5, <1>6, <1>7, <1>8, <1>9, <1>10, <1>11,
       <1>12, <1>13, <1>14, <1>15, <1>16, <1>17, <1>18, <1>19, <1>20, <1>21,
       <1>22, <1>23, <1>24, <1>25 DEF Next, Main

\* Every step keeps what is known of main's way to the end.
LEMMA ExitStep ==
  ASSUME TypeOK, LogInv, StopInv, ErrInv, ExitInv, [Next]_vars
  PROVE  ExitInv'
<1> USE Order, LifecycleAssumption DEF TypeOK, ExitInv
<1>1. ASSUME NewDependencies PROVE ExitInv'
  BY <1>1 DEF NewDependencies, mainVars, others, logging, Goto
<1>2. ASSUME SetLogger PROVE ExitInv'
  BY <1>2 DEF SetLogger, mainVars, others, logging, Goto
<1>3. ASSUME Start PROVE ExitInv'
  <2>1. errCh = <<>>
    <3>1. ASSUME errCh # <<>> PROVE FALSE
      <4>1. 1 \in DOMAIN errCh /\ errCh[1] \in Servers
        BY <3>1
      <4> QED BY <1>3, <4>1 DEF Start, Goto, ErrInv, Early
    <3> QED BY <3>1
  <2> QED BY <1>3, <2>1 DEF Start, mainVars, others, logging, Goto
<1>4. ASSUME Notify PROVE ExitInv'
  BY <1>4 DEF Notify, mainVars, others, logging, Goto
<1>5. ASSUME OnSignal PROVE ExitInv'
  BY <1>5 DEF OnSignal, mainVars, others, logging, Goto
<1>6. ASSUME OnError PROVE ExitInv'
  <2>1. /\ errCh \in Seq(Servers) /\ errCh # <<>>
        /\ stopping' = {} /\ server' = server /\ main' = "closing" /\ pos' = 1
        /\ return' = "logFailed" /\ outcome' \in {"running", "panic"}
    BY <1>6 DEF OnError, Goto, Slog, BeginClose, StopInv, Serving
  <2>2. 1 \in DOMAIN errCh /\ errCh[1] \in Servers
    BY <2>1
  <2>3. \E s \in Servers : server'[s] = "gone"
    BY <2>1, <2>2
  <2>4. \A n \in DOMAIN Tail(errCh) : n + 1 \in DOMAIN errCh /\ Tail(errCh)[n] = errCh[n + 1]
    BY <2>1
  <2>5. \A n \in DOMAIN errCh' : server'[errCh'[n]] = "gone"
    BY <1>6, <2>1, <2>4 DEF OnError
  <2> QED BY <1>6, <2>1, <2>3, <2>5 DEF OnError
<1>7. ASSUME LogDown PROVE ExitInv'
  BY <1>7 DEF LogDown, mainVars, others, logging, Goto, Slog
<1>8. ASSUME HttpStop PROVE ExitInv'
  BY <1>8 DEF HttpStop, mainVars, others, logging, Goto, Stop, Servers
<1>9. ASSUME HttpIdle PROVE ExitInv'
  BY <1>9 DEF HttpIdle, mainVars, others, logging, Goto, InFlight
<1>10. ASSUME HttpTimeout PROVE ExitInv'
  BY <1>10 DEF HttpTimeout, mainVars, others, logging, Goto, InFlight
<1>11. ASSUME GrpcStop PROVE ExitInv'
  BY <1>11 DEF GrpcStop, mainVars, others, logging, Goto, Stop, Servers
<1>12. ASSUME GrpcIdle PROVE ExitInv'
  BY <1>12 DEF GrpcIdle, mainVars, others, logging, Goto, BeginClose, InFlight
<1>13. ASSUME CloseNext PROVE ExitInv'
  BY <1>13 DEF CloseNext, mainVars, others, logging, Goto, Slog, Silent
<1>14. ASSUME CloseLogHandler PROVE ExitInv'
  BY <1>14 DEF CloseLogHandler, mainVars, others, logging, Goto
<1>15. ASSUME WaitForDrain PROVE ExitInv'
  <2>1. pos = 3 /\ pos' = 4 /\ return # "end"
    BY <1>15 DEF WaitForDrain, Goto, LogInv
  <2> QED BY <1>15, <2>1 DEF WaitForDrain, mainVars, others, logging, Goto
<1>16. ASSUME CloseDone PROVE ExitInv'
  <2>1. pos = 8 /\ \A n \in 1 .. 7 : CloseOrder[n] \in closed
    BY <1>16 DEF CloseDone, Goto
  <2>2. closed = Resources
    BY <2>1 DEF Resources, CloseOrder
  <2>3. return # "end"
    BY <1>16, <2>1 DEF CloseDone, Goto
  <2> QED BY <1>16, <2>1, <2>2, <2>3 DEF CloseDone, mainVars, others, logging, Goto
<1>17. ASSUME LogExited PROVE ExitInv'
  BY <1>17 DEF LogExited, mainVars, others, logging, Goto, Slog, BeginClose
<1>18. ASSUME LogFailed PROVE ExitInv'
  BY <1>18 DEF LogFailed, mainVars, others, logging, Goto, Slog
<1>19. ASSUME Exit PROVE ExitInv'
  BY <1>19 DEF Exit, mainVars, others, logging, Goto
<1>20. ASSUME Signal PROVE ExitInv'
  BY <1>20 DEF Signal, mainVars, others, logging
<1>21. ASSUME Drain PROVE ExitInv'
  <2>1. ASSUME DrainTake PROVE ExitInv'
    BY <2>1 DEF DrainTake, mainVars, others
  <2>2. ASSUME DrainPublish PROVE ExitInv'
    BY <2>2 DEF DrainPublish, mainVars, others
  <2>3. ASSUME DrainEnd PROVE ExitInv'
    BY <2>3 DEF DrainEnd, mainVars, others
  <2> QED BY <1>21, <2>1, <2>2, <2>3 DEF Drain
<1>22. ASSUME NEW s \in Servers, Serve(s) PROVE ExitInv'
  <2>1. ASSUME ServerLogs(s) PROVE ExitInv'
    BY <2>1 DEF ServerLogs, Server, Slog, Silent, mainVars
  <2>2. ASSUME ServerBinds(s) PROVE ExitInv'
    BY <2>2 DEF ServerBinds, Server, Slog, Silent, mainVars
  <2>3. ASSUME ServerFails(s) PROVE ExitInv'
    BY <2>3 DEF ServerFails, Server, Slog, Silent, mainVars
  <2>4. ASSUME ServerEnds(s) PROVE ExitInv'
    BY <2>4 DEF ServerEnds, Server, Slog, Silent, mainVars
  <2> QED BY <1>22, <2>1, <2>2, <2>3, <2>4 DEF Serve
<1>23. ASSUME NEW c \in Clients, Request(c) PROVE ExitInv'
  <2>1. ASSUME NEW s \in Servers, Call(c, s) PROVE ExitInv'
    BY <2>1 DEF Call, Client, Silent, mainVars, Servers
  <2>2. ASSUME HttpHandled(c) PROVE ExitInv'
    BY <2>2 DEF HttpHandled, Client, Slog, Silent, mainVars
  <2>3. ASSUME HttpLogs(c) PROVE ExitInv'
    BY <2>3 DEF HttpLogs, Client, Slog, Silent, mainVars
  <2>4. ASSUME GrpcHandled(c) PROVE ExitInv'
    BY <2>4 DEF GrpcHandled, Client, Slog, Silent, mainVars
  <2> QED BY <1>23, <2>1, <2>2, <2>3, <2>4 DEF Request
<1>24. ASSUME NEW c \in Consumers, Consume(c) PROVE ExitInv'
  <2>1. ASSUME ConsumerReads(c) PROVE ExitInv'
    BY <2>1 DEF ConsumerReads, Consumer, Slog, Silent, mainVars
  <2>2. ASSUME ConsumerLogs(c) PROVE ExitInv'
    BY <2>2 DEF ConsumerLogs, Consumer, Slog, Silent, mainVars
  <2> QED BY <1>24, <2>1, <2>2 DEF Consume
<1>25. ASSUME UNCHANGED vars PROVE ExitInv'
  BY <1>25 DEF vars, mainVars, others, logging
<1> QED BY <1>1, <1>2, <1>3, <1>4, <1>5, <1>6, <1>7, <1>8, <1>9, <1>10, <1>11,
       <1>12, <1>13, <1>14, <1>15, <1>16, <1>17, <1>18, <1>19, <1>20, <1>21,
       <1>22, <1>23, <1>24, <1>25 DEF Next, Main

\* The types and the three invariants hold throughout.
LEMMA LifecycleAlways == Spec => []LifecycleInv
<1>1. ASSUME LifecycleInv, [Next]_vars PROVE LifecycleInv'
  BY <1>1, TypeStep, LogStep, StopStep, ErrStep DEF LifecycleInv
<1> QED BY <1>1, InitInv, PTL DEF Spec

\* Every variable keeps its type, the log channel its capacity.
THEOREM LifecycleTypeCorrect == Spec => []TypeOK
<1>1. LifecycleInv => TypeOK
  BY DEF LifecycleInv
<1> QED BY <1>1, LifecycleAlways, PTL

\* The log producer is never closed while the drain goroutine has records to
\* publish: KafkaHandler.Close flushes, and nothing is accepted after it.
THEOREM AlwaysFlushed == Spec => []Flushed
<1>1. LifecycleInv => Flushed
  BY DEF LifecycleInv, LogInv, Flushed
<1> QED BY <1>1, LifecycleAlways, PTL

\* After a signal no dependency is closed under a gRPC request, nor under an
\* HTTP request that ends within 30 seconds.
THEOREM AlwaysDrained == Spec => []DrainedBeforeClose
<1>1. ASSUME LifecycleInv, "http" \in stopping, closed # {}
      PROVE  /\ \A c \in Clients : client[c] # "grpc"
             /\ shutdownErr \/ \A c \in Clients : client[c] \notin {"http", "httpLog"}
  <2>1. main \in Closing
    BY <1>1 DEF LifecycleInv, LogInv
  <2> QED BY <1>1, <2>1 DEF LifecycleInv, StopInv
<1>2. LifecycleInv => DrainedBeforeClose
  BY <1>1 DEF DrainedBeforeClose, InFlight
<1> QED BY <1>2, LifecycleAlways, PTL

\* The goroutines of startGRPC and startHTTP never wait on errCh.
THEOREM SendersNeverBlocked == Spec => []NoSenderBlocked
<1>1. ASSUME LifecycleInv, NEW s \in Servers, server[s] \in {"binding", "serving"}
      PROVE  Len(errCh) < 2
  <2>1. errCh \in Seq(Servers) /\ Len(errCh) \in Nat
    BY <1>1 DEF LifecycleInv, TypeOK
  <2>2. Unsent("grpc") \in 0 .. 1 /\ Unsent("http") \in 0 .. 1 /\ Unsent(s) = 1
    BY <1>1 DEF Unsent
  <2>3. Len(errCh) + Unsent("grpc") + Unsent("http") <= 2
    BY <1>1 DEF LifecycleInv, ErrInv
  <2> QED BY <2>1, <2>2, <2>3 DEF Servers
<1>2. LifecycleInv => NoSenderBlocked
  BY <1>1 DEF NoSenderBlocked
<1> QED BY <1>2, LifecycleAlways, PTL

\* The same for main's way to the end.
LEMMA ExitAlways == Spec => []ExitInv
<1>1. Init => ExitInv
  BY DEF Init, ExitInv
<1>2. ASSUME LifecycleInv, ExitInv, [Next]_vars PROVE ExitInv'
  BY <1>2, ExitStep DEF LifecycleInv
<1> QED BY <1>1, <1>2, LifecycleAlways, PTL DEF Spec

\* The process reports failure with everything closed, and only when shutdown
\* timed out or a server gave up that nobody had told to stop; or else right
\* away, when the dependencies could not be made and no goroutine was started.
THEOREM FailsAlwaysClosed == Spec => []FailsClosed
<1>1. ASSUME LifecycleInv, ExitInv PROVE FailsClosed
  <2>1. CASE outcome = "exit1" /\ main = "end"
    BY <1>1, <2>1 DEF ExitInv, FailsClosed
  <2>2. CASE outcome = "exit1" /\ main = "exit"
    BY <1>1, <2>2 DEF ExitInv, FailsClosed, GaveUp
  <2>3. CASE outcome # "exit1"
    BY <2>3 DEF FailsClosed
  <2> QED BY <1>1, <2>1, <2>2, <2>3 DEF ExitInv
<1> QED BY <1>1, LifecycleAlways, ExitAlways, PTL

\* No process of this program exits with status 0: a shutdown without error
\* comes back to main, whose deferred Close closes the log channel again.
THEOREM NoCleanExit == Spec => [](outcome # "exit0")
<1>1. ExitInv => outcome # "exit0"
  BY DEF ExitInv
<1> QED BY <1>1, ExitAlways, PTL

(***************************************************************************)
(* Shutdown makes progress.                                                *)
(***************************************************************************)

\* The steps main still has before it at label l, in Dependencies.Close at
\* position n and to return to r; a step of Close counts two, for the wait in
\* the middle of KafkaHandler.Close.
After(r) == CASE r = "logExited" -> 18 [] r = "logFailed" -> 2 [] r = "end" -> 1
Steps(l, n, r) ==
  CASE l = "init" -> 43 [] l = "setLogger" -> 42 [] l = "start" -> 41 [] l = "notify" -> 40
    [] l = "select" -> 39 [] l = "logDown" -> 38 [] l = "httpStop" -> 37
    [] l = "httpWait" -> 36 [] l = "grpcStop" -> 35 [] l = "grpcWait" -> 34
    [] l = "closing" -> After(r) + 1 + 2 * (8 - n)
    [] l = "draining" -> After(r) + 2 * (8 - n)
    [] l = "logExited" -> 18 [] l = "logFailed" -> 2 [] l \in {"exit", "end"} -> 1

StepsLeft == IF outcome = "running" THEN Steps(main, pos, return) ELSE 0

\* The steps the drain goroutine still has before it once the channel is closed.
DrainLeft == 2 * queue + (CASE drain = "publishing" -> 2 [] drain = "idle" -> 1
                            [] drain \in {"off", "gone"} -> 0)

LEMMA AfterBounds == ASSUME TypeOK PROVE After(return) \in {1, 2, 18} /\ pos \in 1 .. 8
BY Order DEF TypeOK, After

LEMMA StepsBound == ASSUME TypeOK PROVE StepsLeft \in 0 .. 43 /\ (StepsLeft = 0 <=> outcome # "running")
<1>1. After(return) \in {1, 2, 18} /\ pos \in 1 .. 8
  BY AfterBounds
<1>2. main \notin {"closing", "draining"} => Steps(main, pos, return) \in 1 .. 43
  BY DEF TypeOK, Steps
<1>3. main = "closing" => Steps(main, pos, return) \in 1 .. 43
  BY <1>1 DEF Steps
<1>4. main = "draining" => Steps(main, pos, return) \in 1 .. 43
  <2>1. main = "draining" => Steps(main, pos, return) = After(return) + 2 * (8 - pos)
    BY DEF Steps
  <2> QED BY <1>1, <2>1
<1>5. Steps(main, pos, return) \in 1 .. 43
  BY <1>2, <1>3, <1>4
<1> QED BY <1>5 DEF StepsLeft

LEMMA StepsFall ==
  ASSUME TypeOK, TypeOK', outcome = "running",
         outcome' = "running" => Steps(main', pos', return') < Steps(main, pos, return)
  PROVE  StepsLeft' < StepsLeft
<1>1. StepsLeft \in 0 .. 43 /\ StepsLeft # 0
  BY StepsBound
<1> QED BY <1>1 DEF StepsLeft

LEMMA MainFalls ==
  ASSUME TypeOK, TypeOK', Main
  PROVE  StepsLeft' < StepsLeft
<1>0. After(return) \in {1, 2, 18} /\ pos \in 1 .. 8 /\ Len(CloseOrder) = 7
  BY AfterBounds, Order
<1>1. CASE NewDependencies \/ SetLogger \/ Start \/ Notify
  <2>1. outcome = "running" /\ Steps(main', pos', return') < Steps(main, pos, return)
    BY <1>1 DEF NewDependencies, SetLogger, Start, Notify, Goto, Steps
  <2> QED BY <2>1, StepsFall
<1>2. CASE OnSignal \/ LogDown \/ HttpStop \/ HttpIdle \/ HttpTimeout \/ GrpcStop
  <2>1. outcome = "running" /\ Steps(main', pos', return') < Steps(main, pos, return)
    BY <1>2 DEF OnSignal, LogDown, HttpStop, HttpIdle, HttpTimeout, GrpcStop, Stop, Goto, Steps
  <2> QED BY <2>1, StepsFall
<1>3. CASE OnError \/ GrpcIdle
  <2>1. /\ outcome = "running" /\ main \in {"select", "grpcWait"} /\ main' = "closing"
        /\ pos' = 1 /\ return' \in {"logFailed", "logExited"}
    BY <1>3 DEF OnError, GrpcIdle, BeginClose, Goto
  <2>2. After(return') \in {2, 18}
    BY <2>1 DEF After
  <2>3. Steps(main', pos', return') <= 33
    BY <2>1, <2>2 DEF Steps
  <2>4. Steps(main, pos, return) \in {34, 39}
    BY <2>1 DEF Steps
  <2>5. Steps(main', pos', return') = After(return') + 1 + 2 * (8 - 1)
    BY <2>1 DEF Steps
  <2> QED BY <2>1, <2>2, <2>3, <2>4, <2>5, StepsFall
<1>4. CASE CloseNext
  <2>1. /\ outcome = "running" /\ main = "closing" /\ main' = "closing"
        /\ pos' = pos + 1 /\ return' = return
    BY <1>4 DEF CloseNext
  <2>2. /\ Steps(main, pos, return) = After(return) + 1 + 2 * (8 - pos)
        /\ Steps(main', pos', return') = After(return) + 1 + 2 * (8 - (pos + 1))
    BY <2>1 DEF Steps
  <2> QED BY <1>0, <2>1, <2>2, StepsFall
<1>5. CASE CloseLogHandler
  <2>1. /\ outcome = "running" /\ main = "closing" /\ main' = "draining"
        /\ pos' = pos /\ return' = return
    BY <1>5 DEF CloseLogHandler, Goto
  <2>2. /\ Steps(main, pos, return) = After(return) + 1 + 2 * (8 - pos)
        /\ Steps(main', pos', return') = After(return) + 2 * (8 - pos)
    BY <2>1 DEF Steps
  <2> QED BY <1>0, <2>1, <2>2, StepsFall
<1>6. CASE WaitForDrain
  <2>1. /\ outcome = "running" /\ main = "draining" /\ main' = "closing"
        /\ pos' = pos + 1 /\ return' = return
    BY <1>6 DEF WaitForDrain, Goto
  <2>2. /\ Steps(main, pos, return) = After(return) + 2 * (8 - pos)
        /\ Steps(main', pos', return') = After(return) + 1 + 2 * (8 - (pos + 1))
    BY <2>1 DEF Steps
  <2> QED BY <1>0, <2>1, <2>2, StepsFall
<1>7. CASE CloseDone
  <2>1. /\ outcome = "running" /\ main = "closing" /\ pos = 8 /\ main' = return
    BY <1>0, <1>7 DEF CloseDone, Goto
  <2>2. Steps(main, pos, return) = After(return) + 1
    BY <1>0, <2>1 DEF Steps
  <2>3. Steps(main', pos', return') = After(return)
    BY <2>1 DEF Steps, After, TypeOK
  <2> QED BY <1>0, <2>1, <2>2, <2>3, StepsFall
<1>8. CASE LogExited
  <2>1. CASE main' = "closing" /\ pos' = 1 /\ return' = "end"
    <3>1. outcome = "running" /\ main = "logExited"
      BY <1>8 DEF LogExited, Goto
    <3>2. Steps(main, pos, return) = 18 /\ After(return') = 1
      BY <2>1, <3>1 DEF Steps, After
    <3>3. Steps(main', pos', return') = After(return') + 1 + 2 * (8 - 1)
      BY <2>1 DEF Steps
    <3> QED BY <3>1, <3>2, <3>3, StepsFall
  <2>2. CASE main' = "logFailed"
    <3>1. outcome = "running" /\ Steps(main', pos', return') < Steps(main, pos, return)
      BY <1>8, <2>2 DEF LogExited, Goto, Steps
    <3> QED BY <3>1, StepsFall
  <2> QED BY <1>8, <2>1, <2>2 DEF LogExited, Goto, BeginClose
<1>9. CASE LogFailed
  <2>1. outcome = "running" /\ Steps(main', pos', return') < Steps(main, pos, return)
    BY <1>9 DEF LogFailed, Goto, Steps
  <2> QED BY <2>1, StepsFall
<1>10. CASE Exit
  BY <1>10, StepsFall DEF Exit
<1> QED BY <1>1, <1>2, <1>3, <1>4, <1>5, <1>6, <1>7, <1>8, <1>9, <1>10 DEF Main

\* A step of any other goroutine leaves main where it is.
LEMMA MainStays ==
  ASSUME TypeOK, TypeOK', [Next]_vars, ~Main
  PROVE  StepsLeft' <= StepsLeft
<1>1. UNCHANGED mainVars /\ (outcome' = outcome \/ outcome = "running")
  <2>1. CASE Signal \/ Drain \/ UNCHANGED vars
    BY <2>1 DEF Signal, Drain, DrainTake, DrainPublish, DrainEnd, vars, mainVars
  <2>2. ASSUME NEW x \in Servers, Serve(x) PROVE UNCHANGED mainVars /\ outcome = "running"
    BY <2>2 DEF Serve, ServerLogs, ServerBinds, ServerFails, ServerEnds, Server
  <2>3. ASSUME NEW c \in Clients, Request(c) PROVE UNCHANGED mainVars /\ outcome = "running"
    BY <2>3 DEF Request, Call, HttpHandled, HttpLogs, GrpcHandled, Client
  <2>4. ASSUME NEW c \in Consumers, Consume(c) PROVE UNCHANGED mainVars /\ outcome = "running"
    BY <2>4 DEF Consume, ConsumerReads, ConsumerLogs, Consumer
  <2> QED BY <2>1, <2>2, <2>3, <2>4 DEF Next
<1>2. StepsLeft \in 0 .. 43
  BY StepsBound
<1>3. UNCHANGED <<main, pos, return>>
  BY <1>1 DEF mainVars
<1>4. CASE outcome' = outcome
  BY <1>2, <1>3, <1>4 DEF StepsLeft
<1>5. CASE outcome' # "running"
  BY <1>2, <1>5 DEF StepsLeft
<1> QED BY <1>1, <1>4, <1>5

\* Nobody gets a record into a closed channel.
LEMMA ClosedChannel ==
  ASSUME "logHandler" \in closed, NEW level, Slog(level) \/ Silent
  PROVE  queue' = queue
BY DEF Slog, Silent

LEMMA DrainStays ==
  ASSUME LifecycleInv, [Next]_vars, "logHandler" \in closed, ~Drain
  PROVE  queue' = queue /\ drain' = drain
<1> USE ClosedChannel
<1>1. CASE Signal \/ UNCHANGED vars
  BY <1>1 DEF Signal, vars, logging
<1>2. ASSUME NEW x \in Servers, Serve(x) PROVE queue' = queue /\ drain' = drain
  BY <1>2 DEF Serve, ServerLogs, ServerBinds, ServerFails, ServerEnds, Server
<1>3. ASSUME NEW c \in Clients, Request(c) PROVE queue' = queue /\ drain' = drain
  BY <1>3 DEF Request, Call, HttpHandled, HttpLogs, GrpcHandled, Client
<1>4. ASSUME NEW c \in Consumers, Consume(c) PROVE queue' = queue /\ drain' = drain
  BY <1>4 DEF Consume, ConsumerReads, ConsumerLogs, Consumer
<1>5. ~SetLogger
  BY DEF LifecycleInv, LogInv, SetLogger, Goto, Closing
<1>6. CASE NewDependencies \/ Start \/ Notify \/ OnSignal \/ HttpStop \/ HttpIdle \/ HttpTimeout
           \/ GrpcStop \/ GrpcIdle \/ CloseLogHandler \/ WaitForDrain \/ CloseDone \/ Exit
  BY <1>6 DEF NewDependencies, Start, Notify, OnSignal, HttpStop, HttpIdle, HttpTimeout, GrpcStop,
     Stop, GrpcIdle, CloseLogHandler, WaitForDrain, CloseDone, Exit, logging
<1>7. CASE OnError \/ LogDown \/ CloseNext \/ LogExited \/ LogFailed
  BY <1>7 DEF OnError, LogDown, CloseNext, LogExited, LogFailed
<1> QED BY <1>1, <1>2, <1>3, <1>4, <1>5, <1>6, <1>7 DEF Next, Main

LEMMA DrainFalls ==
  ASSUME TypeOK, Drain
  PROVE  DrainLeft' < DrainLeft
<1>1. queue \in Nat
  BY LifecycleAssumption DEF TypeOK
<1>2. CASE DrainTake
  <2>1. /\ DrainLeft = 2 * queue + 1 /\ DrainLeft' = 2 * queue' + 2
        /\ queue' = queue - 1 /\ queue > 0
    BY <1>2 DEF DrainTake, DrainLeft
  <2> QED BY <1>1, <2>1
<1>3. CASE DrainPublish
  <2>1. DrainLeft = 2 * queue + 2 /\ DrainLeft' = 2 * queue' + 1 /\ queue' = queue
    BY <1>3 DEF DrainPublish, DrainLeft
  <2> QED BY <1>1, <2>1
<1>4. CASE DrainEnd
  <2>1. DrainLeft = 2 * queue + 1 /\ DrainLeft' = 2 * queue' + 0 /\ queue' = queue
    BY <1>4 DEF DrainEnd, DrainLeft
  <2> QED BY <1>1, <2>1
<1> QED BY <1>2, <1>3, <1>4 DEF Drain

\* The way to the end of the process is finite, whatever clients, servers and
\* consumers do: main takes at most 43 steps in its life, Dependencies.Close
\* called twice included, and nothing takes it back.  KafkaHandler.Close has to
\* wait for at most 2 * BufferSize + 2 steps of the drain goroutine, as nobody
\* feeds the channel once it is closed.  What ShutdownEnds adds is that these
\* steps are taken.
THEOREM ShutdownProgress ==
  Spec => /\ [](StepsLeft \in 0 .. 43 /\ (StepsLeft = 0 <=> outcome # "running"))
          /\ [](DrainLeft \in 0 .. 2 * BufferSize + 2)
          /\ [][/\ StepsLeft' <= StepsLeft /\ (Main => StepsLeft' < StepsLeft)
                /\ "logHandler" \in closed
                     => DrainLeft' <= DrainLeft /\ (Drain => DrainLeft' < DrainLeft)]_vars
<1> DEFINE Bound1 == StepsLeft \in 0 .. 43 /\ (StepsLeft = 0 <=> outcome # "running")
           Bound2 == DrainLeft \in 0 .. 2 * BufferSize + 2
           Falls == /\ StepsLeft' <= StepsLeft /\ (Main => StepsLeft' < StepsLeft)
                    /\ "logHandler" \in closed
                         => DrainLeft' <= DrainLeft /\ (Drain => DrainLeft' < DrainLeft)
<1>1. LifecycleInv => Bound1
  BY StepsBound DEF LifecycleInv
<1>2. ASSUME LifecycleInv PROVE Bound2
  <2>1. queue \in 0 .. BufferSize /\ BufferSize \in Nat
    BY <1>2, LifecycleAssumption DEF LifecycleInv, TypeOK
  <2>2. PICK d \in 0 .. 2 : DrainLeft = 2 * queue + d
    BY <1>2 DEF LifecycleInv, TypeOK, DrainLeft
  <2> QED BY <2>1, <2>2
<1>3. LifecycleInv => Bound2
  BY <1>2
<1>4. ASSUME LifecycleInv, LifecycleInv', Bound1, Bound1', Bound2, Bound2', [Next]_vars PROVE Falls
  <2>1. StepsLeft' <= StepsLeft
    <3>1. StepsLeft \in 0 .. 43 /\ StepsLeft' \in 0 .. 43
      BY <1>4
    <3> QED BY <1>4, <3>1, MainFalls, MainStays DEF LifecycleInv
  <2>2. Main => StepsLeft' < StepsLeft
    BY <1>4, MainFalls DEF LifecycleInv
  <2>3. Drain => DrainLeft' < DrainLeft
    BY <1>4, DrainFalls DEF LifecycleInv
  <2>4. ASSUME "logHandler" \in closed PROVE DrainLeft' <= DrainLeft
    <3>1. DrainLeft \in Nat /\ DrainLeft' \in Nat
      BY <1>4, LifecycleAssumption
    <3>2. CASE ~Drain
      <4>1. queue' = queue /\ drain' = drain
        BY <1>4, <2>4, <3>2, DrainStays
      <4>2. DrainLeft' = DrainLeft
        BY <4>1 DEF DrainLeft
      <4> QED BY <3>1, <4>2
    <3> QED BY <2>3, <3>1, <3>2
  <2> QED BY <2>1, <2>2, <2>3, <2>4
<1>5. LifecycleInv /\ LifecycleInv' /\ Bound1 /\ Bound1' /\ Bound2 /\ Bound2' /\ [Next]_vars
        => [Falls]_vars
  BY <1>4
<1> HIDE DEF Bound1, Bound2, Falls
<1>6. Spec => []Bound1 /\ []Bound2 /\ [][Falls]_vars
  BY <1>1, <1>3, <1>5, LifecycleAlways, PTL DEF Spec
<1> QED BY <1>6 DEF Bound1, Bound2, Falls
=============================================================================
