---------------------------- MODULE ServerProofs ----------------------------
(***************************************************************************)
(* No server closes the pool or the broker's connection under a request,   *)
(* and no shutdown cuts one unless HTTP's gave up, for any number of       *)
(* requests, attempts and signals.                                         *)
(***************************************************************************)
EXTENDS Server, TLAPS

Serving == {"start", "serving", "http", "grpc", "close", "late"}

(* What is open at each phase in which a request may be under way.         *)
ClientsOpen ==
  /\ phase \in (Startup \cup Serving) \ {"config", "pool"} => "pool" \in open
  /\ phase \in {"exchange", "listen", "indexes"} \cup (Serving \ {"close"}) =>
       "rabbit" \in open

(* Requests come once the goroutines run, and Shutdown waits for those of  *)
(* each server before it goes on.                                          *)
Drained ==
  /\ phase \in Startup \cup {"nil"} =>
       active = {} /\ \A g \in Goroutines : goroutine[g] = "none"
  /\ phase \in {"grpc", "close"} => ~Busy("http")
  /\ phase = "close" => ~Busy("grpc")

ServerInv == TypeOK /\ ClientsOpen /\ Drained
-----------------------------------------------------------------------------
(* A retry loop has attempts left.                                         *)
TriesLeft == tries \in 0 .. (IF phase = "rabbit" THEN MaxRetries ELSE ConnAttempts) - 1

LEMMA InitServerInv ==
  ASSUME Init
  PROVE  ServerInv
<1>1. TriesLeft
  BY CountAssumption DEF Init, TriesLeft
<1>2. /\ phase \in Phases /\ open \in SUBSET Clients /\ signals \in 0 .. MaxSignals
      /\ goroutine \in [Goroutines -> {"none", "ready", "running", "failed", "done"}]
  BY CountAssumption DEF Init, Phases, Startup
<1>3. TypeOK
  BY <1>1, <1>2 DEF Init, TypeOK, TriesLeft
<1>4. ClientsOpen
  BY DEF Init, ClientsOpen, Startup, Serving
<1>5. Drained
  BY DEF Init, Drained, Startup, Serving, Busy
<1> QED
  BY <1>3, <1>4, <1>5 DEF ServerInv

(* The steps of NewServer: it fails, a loop tries again, or it goes on.    *)
LEMMA StartupServerInv ==
  ASSUME ServerInv, StartStep
  PROVE  ServerInv'
<1>1. /\ UNCHANGED <<ctxDone, signals, sigCh, goroutine, active>>
      /\ phase \in Startup \cup {"nil"}
  BY DEF StartStep, signalVars, serveVars, ReadConfig, NewPostgres, PingPostgres,
    ConnectRedis, ConnectMongo, NewRabbitMQClient, EnsureExchange, Listen,
    EnsureLedgerIndexes, StartNil, Startup
<1>2. TriesLeft
  BY DEF ServerInv, TypeOK, TriesLeft
<1>3. active = {} /\ \A g \in Goroutines : goroutine[g] = "none"
  BY <1>1 DEF ServerInv, Drained
<1>4. Drained'
  BY <1>1, <1>3 DEF Drained, Busy
<1>5. ASSUME TriesLeft', ClientsOpen', phase' \in Phases, open' \in SUBSET Clients
      PROVE  ServerInv'
  BY <1>1, <1>4, <1>5 DEF ServerInv, TypeOK, TriesLeft
<1>6. CASE StartupFails
  BY <1>5, <1>6, CountAssumption
  DEF StartupFails, ReturnFromNewServer, TriesLeft, ClientsOpen, ServerInv, TypeOK,
    Phases, Startup, Serving
<1>7. CASE NewPostgres
  <2>1. CASE StartupFails
    BY <1>6, <2>1
  <2>2. CASE tries + 1 < ConnAttempts /\ tries' = tries + 1 /\ UNCHANGED <<phase, open>>
    BY <1>2, <1>5, <1>7, <2>2, CountAssumption
    DEF NewPostgres, TriesLeft, ServerInv, TypeOK, ClientsOpen
  <2>3. CASE Opened("ping", "pool")
    BY <1>5, <1>7, <2>3, CountAssumption
    DEF Opened, TriesLeft, ServerInv, TypeOK, ClientsOpen, Phases, Startup, Serving, Clients
  <2> QED
    BY <1>7, <2>1, <2>2, <2>3 DEF NewPostgres, AttemptFails
<1>8. CASE NewRabbitMQClient
  <2>1. CASE StartupFails
    BY <1>6, <2>1
  <2>2. CASE tries + 1 < MaxRetries /\ tries' = tries + 1 /\ UNCHANGED <<phase, open>>
    BY <1>2, <1>5, <1>8, <2>2, CountAssumption
    DEF NewRabbitMQClient, TriesLeft, ServerInv, TypeOK, ClientsOpen
  <2>3. CASE Opened("exchange", "rabbit")
    BY <1>5, <1>8, <2>3, CountAssumption
    DEF NewRabbitMQClient, Opened, TriesLeft, ServerInv, TypeOK, ClientsOpen, Phases,
      Startup, Serving, Clients
  <2> QED
    BY <1>8, <2>1, <2>2, <2>3 DEF NewRabbitMQClient, AttemptFails
<1>9. CASE ReadConfig \/ StartNil
  BY <1>2, <1>5, <1>9
  DEF ReadConfig, StartNil, TriesLeft, ServerInv, TypeOK, ClientsOpen, Phases, Startup,
    Serving, Ended
<1>10. CASE PingPostgres \/ EnsureExchange
  BY <1>2, <1>5, <1>6, <1>10
  DEF PingPostgres, EnsureExchange, TriesLeft, ServerInv, TypeOK, ClientsOpen, Phases,
    Startup, Serving
<1>11. CASE ConnectRedis \/ ConnectMongo \/ Listen
  <2>1. TriesLeft' \/ StartupFails
    BY <1>11, CountAssumption DEF ConnectRedis, ConnectMongo, Listen, Opened, TriesLeft
  <2>2. \/ StartupFails
        \/ ClientsOpen' /\ phase' \in Phases /\ open' \in SUBSET Clients
    BY <1>11 DEF ConnectRedis, ConnectMongo, Listen, Opened, ServerInv, TypeOK,
      ClientsOpen, Phases, Startup, Serving, Clients
  <2> QED
    BY <1>5, <1>6, <2>1, <2>2
<1>12. CASE EnsureLedgerIndexes
  <2>1. CASE ReturnFromNewServer("start")
    BY <1>5, <1>12, <2>1, CountAssumption
    DEF EnsureLedgerIndexes, ReturnFromNewServer, TriesLeft, ServerInv, TypeOK,
      ClientsOpen, Phases, Startup, Serving
  <2> QED
    BY <1>6, <1>12, <2>1 DEF EnsureLedgerIndexes
<1> QED
  BY <1>7, <1>8, <1>9, <1>10, <1>11, <1>12 DEF StartStep

(* The goroutines, their failures and the signals.                         *)
LEMMA GoroutineServerInv ==
  ASSUME ServerInv,
         \/ Start
         \/ \E g \in Goroutines : phase \notin Ended /\ (Run(g) \/ RunTooLate(g) \/ Fails(g))
  PROVE  ServerInv'
<1>1. /\ UNCHANGED <<phase, tries, open, signalVars, active>>
      /\ phase \notin Startup \cup {"nil"}
      /\ goroutine' \in [Goroutines -> {"none", "ready", "running", "failed", "done"}]
  <2>1. CASE Start
    BY <2>1 DEF Start, Startup
  <2>2. ASSUME NEW g \in Goroutines, Run(g) \/ RunTooLate(g) \/ Fails(g)
        PROVE  <1>1
    BY <2>2 DEF Run, RunTooLate, Fails, Becomes, ServerInv, TypeOK, Drained
  <2> QED
    BY <2>1, <2>2
<1> QED
  BY <1>1 DEF ServerInv, TypeOK, ClientsOpen, Drained, Busy, signalVars

LEMMA SignalServerInv ==
  ASSUME ServerInv,
         NotifySignals \/ TakeFailure \/ Signal \/ CancelContext \/ TakeSignal
  PROVE  ServerInv'
<1>1. /\ UNCHANGED <<tries, open, goroutine, active>>
      /\ phase' = phase \/ (phase = "config" /\ phase' = "killed")
           \/ (phase \in {"start", "serving"} /\ phase' \in {"serving", "aborted", "http"})
  BY DEF NotifySignals, TakeFailure, Signal, CancelContext, TakeSignal, signalVars, serveVars
<1>2. ctxDone' \in BOOLEAN /\ sigCh' \in BOOLEAN /\ signals' \in 0 .. MaxSignals
  <2>1. ctxDone \in BOOLEAN /\ sigCh \in BOOLEAN /\ signals \in 0 .. MaxSignals
    BY DEF ServerInv, TypeOK
  <2>2. CASE Signal
    <3>1. signals' \in 0 .. MaxSignals
      BY <2>1, <2>2, CountAssumption DEF Signal
    <3> QED
      BY <2>1, <2>2, <3>1 DEF Signal
  <2> QED
    BY <2>1, <2>2 DEF NotifySignals, TakeFailure, CancelContext, TakeSignal, signalVars,
      serveVars
<1>3. TriesLeft' /\ phase' \in Phases
  <2>1. TriesLeft /\ phase \in Phases
    BY DEF ServerInv, TypeOK, TriesLeft
  <2>2. phase' \in Phases
    BY <1>1, <2>1 DEF Phases, Alive, Ended, Shutting
  <2>3. phase' = "rabbit" <=> phase = "rabbit"
    BY <1>1
  <2> QED
    BY <1>1, <2>1, <2>2, <2>3 DEF TriesLeft
<1>4. ClientsOpen' /\ Drained'
  BY <1>1 DEF ServerInv, ClientsOpen, Drained, Busy, Startup, Serving
<1> QED
  BY <1>1, <1>2, <1>3, <1>4 DEF ServerInv, TypeOK, TriesLeft

(* A request comes to a server that runs and has not been closed.          *)
LEMMA RequestServerInv ==
  ASSUME ServerInv, NEW r \in Request, AcceptGrpc(r) \/ AcceptHttp(r) \/ Answer(r)
  PROVE  ServerInv'
<1>1. UNCHANGED <<phase, tries, open, signalVars, goroutine>>
  BY DEF AcceptGrpc, AcceptHttp, Accept, Answer
<1>2. CASE Answer(r)
  BY <1>1, <1>2 DEF Answer, ServerInv, TypeOK, ClientsOpen, Drained, Busy, signalVars
<1>3. ASSUME NEW s \in Servers, Accept(r, s)
      PROVE  ServerInv'
  <2>1. /\ active' = active \cup {r} /\ Via[r] = s /\ goroutine[s] = "running"
        /\ ~Closed(s) /\ phase \notin Ended
    BY <1>3 DEF Accept
  <2>2. phase \notin Startup \cup {"nil"}
    BY <2>1 DEF ServerInv, Drained, Goroutines
  <2>3. phase \in {"grpc", "close"} => s # "http"
    BY <2>1 DEF Closed, Shutting
  <2>4. phase = "close" => s # "grpc"
    BY <2>1 DEF Closed, Shutting
  <2> QED
    BY <1>1, <2>1, <2>2, <2>3, <2>4 DEF ServerInv, TypeOK, ClientsOpen, Drained, Busy,
      signalVars
<1> QED
  BY <1>2, <1>3 DEF AcceptGrpc, AcceptHttp, Servers

LEMMA ShutdownServerInv ==
  ASSUME ServerInv,
         HttpStops \/ HttpGivesUp \/ ExitLate \/ GrpcStops \/ CloseClients
  PROVE  ServerInv'
<1>1. goroutine' \in [Goroutines -> {"none", "ready", "running", "failed", "done"}]
  BY DEF HttpStops, HttpGivesUp, ExitLate, GrpcStops, CloseClients, Stopped, serveVars, ServerInv,
    TypeOK
<1>2. CASE HttpStops \/ HttpGivesUp \/ ExitLate \/ GrpcStops
  BY <1>1, <1>2, CountAssumption
  DEF HttpStops, HttpGivesUp, ExitLate, GrpcStops, signalVars, serveVars, ServerInv, TypeOK,
    ClientsOpen, Drained, Busy, Phases, Startup, Serving, Alive, Shutting, Ended
<1>3. CASE CloseClients
  BY <1>1, <1>3, CountAssumption
  DEF CloseClients, signalVars, ServerInv, TypeOK, ClientsOpen, Drained, Busy, Phases,
    Startup, Serving, Alive, Shutting, Ended
<1> QED
  BY <1>2, <1>3

LEMMA NextServerInv ==
  ASSUME ServerInv, [Next]_vars
  PROVE  ServerInv'
<1>1. CASE UNCHANGED vars
  BY <1>1 DEF vars, ServerInv, TypeOK, ClientsOpen, Drained, Busy
<1>2. CASE Main
  BY <1>2, StartupServerInv, GoroutineServerInv, SignalServerInv, ShutdownServerInv DEF Main
<1>3. CASE \E r \in Request : AcceptGrpc(r) \/ AcceptHttp(r) \/ Answer(r)
  BY <1>3, RequestServerInv
<1> QED
  BY <1>1, <1>2, <1>3, GoroutineServerInv, SignalServerInv DEF Next

(* At every phase the clients that a request may need are open, and none   *)
(* is under way at a server that Shutdown is done with.                    *)
THEOREM ServerInvariant == Spec => []ServerInv
  BY InitServerInv, NextServerInv, PTL DEF Spec

(* The state keeps its types: the retry loops end at their last attempt.   *)
THEOREM TypesHold == Spec => []TypeOK
<1>1. ServerInv => TypeOK
  BY DEF ServerInv
<1> QED
  BY <1>1, ServerInvariant, PTL

(* Shutdown closes neither the pool nor the connection to the broker while *)
(* a request of either server may still publish its event.                 *)
THEOREM ClientsStayOpen == Spec => []ClientsOutliveRequests
<1>1. ASSUME ServerInv, active # {}, phase \notin Ended
      PROVE  {"pool", "rabbit"} \subseteq open
  <2>1. phase \in Serving
    BY <1>1 DEF ServerInv, TypeOK, Phases, Drained, Serving, Alive, Shutting
  <2>2. PICK r \in active : TRUE
    BY <1>1
  <2>3. Via[r] \in Servers
    BY <2>2, ViaAssumption, <1>1 DEF ServerInv, TypeOK
  <2>4. phase # "close"
    BY <1>1, <2>2, <2>3 DEF ServerInv, Drained, Busy, Servers
  <2> QED
    BY <1>1, <2>1, <2>4 DEF ServerInv, ClientsOpen, Serving
<1>2. ServerInv => ClientsOutliveRequests
  BY <1>1 DEF ClientsOutliveRequests
<1> QED
  BY <1>2, ServerInvariant, PTL
-----------------------------------------------------------------------------
(* The steps after which a shutdown has ended, in order or not.            *)
LEMMA ShutdownEndsBy ==
  ASSUME ServerInv, [Next]_vars, phase' # phase, phase' \in {"exited", "late", "overrun"}
  PROVE  HttpGivesUp \/ ExitLate \/ CloseClients
<1>1. CASE StartStep
  BY <1>1 DEF StartStep, ReadConfig, NewPostgres, PingPostgres, ConnectRedis,
    ConnectMongo, NewRabbitMQClient, EnsureExchange, Listen, EnsureLedgerIndexes,
    StartNil, AttemptFails, Opened, StartupFails, ReturnFromNewServer
<1>2. CASE \/ Start \/ NotifySignals \/ TakeFailure \/ TakeSignal \/ HttpStops
           \/ GrpcStops \/ Signal \/ CancelContext
  BY <1>2 DEF Start, NotifySignals, TakeFailure, TakeSignal, HttpStops, GrpcStops,
    Signal, CancelContext
<1>3. CASE \E g \in Goroutines : Run(g) \/ RunTooLate(g) \/ Fails(g)
  BY <1>3 DEF Run, RunTooLate, Fails
<1>4. CASE \E r \in Request : AcceptGrpc(r) \/ AcceptHttp(r) \/ Answer(r)
  BY <1>4 DEF AcceptGrpc, AcceptHttp, Accept, Answer
<1> QED
  BY <1>1, <1>2, <1>3, <1>4 DEF Next, Main, vars

(* Nothing happens to the requests of a process that has ended, HTTP takes *)
(* none once it has been given up, and a context stays cancelled.          *)
LEMMA EndedStays ==
  ASSUME [Next]_vars
  PROVE  /\ phase = "exited" => active' = active
         /\ phase \in {"late", "overrun"} /\ Busy("http")' => Busy("http")
         /\ ctxDone => ctxDone'
<1>1. CASE StartStep \/ Start \/ NotifySignals \/ TakeFailure \/ TakeSignal
  BY <1>1 DEF StartStep, Start, NotifySignals, TakeFailure, TakeSignal, signalVars,
    serveVars, Busy
<1>2. CASE HttpStops \/ HttpGivesUp \/ ExitLate \/ GrpcStops \/ CloseClients
  BY <1>2 DEF HttpStops, HttpGivesUp, ExitLate, GrpcStops, CloseClients, signalVars,
    serveVars, Busy
<1>3. CASE Signal \/ CancelContext
  BY <1>3 DEF Signal, CancelContext, serveVars, Busy
<1>4. CASE \E g \in Goroutines : Run(g) \/ RunTooLate(g) \/ Fails(g)
  BY <1>4 DEF Run, RunTooLate, Fails, signalVars, Busy
<1>5. CASE \E r \in Request : AcceptGrpc(r) \/ AcceptHttp(r) \/ Answer(r)
  BY <1>5 DEF AcceptGrpc, AcceptHttp, Accept, Answer, Closed, Busy, signalVars, Ended,
    Shutting
<1> QED
  BY <1>1, <1>2, <1>3, <1>4, <1>5 DEF Next, Main, vars, Busy

LEMMA NextOnlyOverrunCuts ==
  ASSUME ServerInv, OnlyOverrunCuts, [Next]_vars
  PROVE  OnlyOverrunCuts'
<1>1. CASE phase' = phase
  BY <1>1, EndedStays DEF OnlyOverrunCuts
<1>2. CASE phase' # phase /\ phase' \in {"exited", "late", "overrun"}
  <2>1. CASE HttpGivesUp
    BY <2>1 DEF HttpGivesUp, OnlyOverrunCuts, signalVars, serveVars, Busy
  <2>2. CASE ExitLate
    BY <2>2 DEF ExitLate, OnlyOverrunCuts, signalVars, serveVars, Busy
  <2>3. CASE CloseClients
    <3>1. active' = active /\ phase = "close" /\ phase' \in {"close", "exited"}
      BY <2>3 DEF CloseClients
    <3>2. \A r \in active : Via[r] \in Servers
      BY ViaAssumption DEF ServerInv, TypeOK
    <3>3. active = {}
      BY <3>1, <3>2 DEF ServerInv, Drained, Busy, Servers
    <3> QED
      BY <3>1, <3>3 DEF OnlyOverrunCuts
  <2> QED
    BY <1>2, <2>1, <2>2, <2>3, ShutdownEndsBy
<1>3. CASE phase' \notin {"exited", "late", "overrun"}
  BY <1>3 DEF OnlyOverrunCuts
<1> QED
  BY <1>1, <1>2, <1>3

(* A shutdown of which HTTP's does not give up answers the requests of     *)
(* both servers before the process ends; it gives up an HTTP request only  *)
(* under a cancelled context.                                              *)
THEOREM RequestsAreWaitedFor == Spec => []OnlyOverrunCuts
<1>1. Init => OnlyOverrunCuts
  BY DEF Init, OnlyOverrunCuts
<1>2. ServerInv /\ OnlyOverrunCuts /\ [Next]_vars => OnlyOverrunCuts'
  BY NextOnlyOverrunCuts
<1> QED
  BY <1>1, <1>2, ServerInvariant, PTL DEF Spec
=============================================================================
