------------------------------- MODULE Server -------------------------------
(***************************************************************************)
(* The life of the process "dbank serve": NewServer opens one client after *)
(* the other, Start runs the gRPC server, the HTTP gateway and the         *)
(* consumer in goroutines and waits for the first failure or a signal, and *)
(* Shutdown stops them one after the other.                                *)
(*                                                                         *)
(* Two things hear a signal: the context of signal.NotifyContext, which    *)
(* is cancelled, and, once Start has called signal.Notify, the channel     *)
(* Start waits on.  The gateway calls the services directly and not        *)
(* through the gRPC server, so that each server has requests of its own.   *)
(***************************************************************************)
EXTENDS Naturals

CONSTANTS
  Request,       \* slots for requests under way
  Via,           \* the server each of them comes to
  ConnAttempts,  \* attempts of NewPostgres
  MaxRetries,    \* attempts of NewRabbitMQClient
  MaxSignals     \* bound on the signals of a behaviour

Servers    == {"grpc", "http"}
Goroutines == Servers \cup {"consumer"}

ASSUME ViaAssumption == Via \in [Request -> Servers]
ASSUME CountAssumption ==
  ConnAttempts \in Nat \ {0} /\ MaxRetries \in Nat \ {0} /\ MaxSignals \in Nat

VARIABLES
  phase,      \* where the main goroutine is
  tries,      \* failed attempts of the retry loop it is in
  open,       \* the clients and the listener that are open
  ctxDone,    \* the context of NotifyContext is cancelled
  signals,    \* signals received so far
  sigCh,      \* a signal waits in Start's channel
  goroutine,  \* the goroutines Start spawns
  active      \* requests under way

vars == <<phase, tries, open, ctxDone, signals, sigCh, goroutine, active>>

Startup  == {"config", "pool", "ping", "redis", "mongo", "rabbit", "exchange",
             "listen", "indexes"}
Shutting == {"http", "grpc", "close", "late"}
Ended    == {"killed", "panicked", "aborted", "exited", "overrun"}
Alive    == {"serving"} \cup Shutting
Phases   == Startup \cup {"nil", "start"} \cup Alive \cup Ended
Clients  == {"pool", "redis", "mongo", "rabbit", "listener"}

TypeOK ==
  /\ phase     \in Phases
  /\ tries     \in 0 .. (IF phase = "rabbit" THEN MaxRetries ELSE ConnAttempts) - 1
  /\ open      \in SUBSET Clients
  /\ ctxDone   \in BOOLEAN
  /\ signals   \in 0 .. MaxSignals
  /\ sigCh     \in BOOLEAN
  /\ goroutine \in [Goroutines -> {"none", "ready", "running", "failed", "done"}]
  /\ active    \in SUBSET Request

Init ==
  /\ phase = "config" /\ tries = 0 /\ open = {}
  /\ ctxDone = FALSE /\ signals = 0 /\ sigCh = FALSE
  /\ goroutine = [g \in Goroutines |-> "none"]
  /\ active = {}

signalVars == <<ctxDone, signals, sigCh>>
serveVars  == <<goroutine, active>>
-----------------------------------------------------------------------------
(* NewServer returns: its deferred calls close Redis and MongoDB, in the   *)
(* success as in the failure, as far as it got to them.                    *)
ReturnFromNewServer(next) ==
  /\ phase' = next /\ tries' = 0
  /\ open' = open \ {"redis", "mongo"}

StartupFails == ReturnFromNewServer("nil")

Opened(next, client) == phase' = next /\ tries' = 0 /\ open' = open \cup {client}

(* NewConfig panics when a variable of the environment does not parse.     *)
ReadConfig ==
  /\ phase = "config"
  /\ phase' \in {"pool", "panicked"}
  /\ UNCHANGED <<tries, open>>

(* Mutants: i <= maxRetries; the counter starts over.                      *)
OneAttemptMore(limit) ==
  \/ tries < limit /\ tries' = tries + 1 /\ UNCHANGED <<phase, open>>
  \/ tries = limit /\ StartupFails

AttemptsForever(limit) == tries' = (tries + 1) % limit /\ UNCHANGED <<phase, open>>

(* The loops of NewPostgres and NewRabbitMQClient sleep between attempts   *)
(* and do not look at the context.                                         *)
AttemptFails(limit) ==
  \/ tries + 1 < limit /\ tries' = tries + 1 /\ UNCHANGED <<phase, open>>
  \/ tries + 1 = limit /\ StartupFails

NewPostgres ==
  /\ phase = "pool"
  /\ \/ Opened("ping", "pool")
     \/ AttemptFails(ConnAttempts)
     \/ StartupFails                             \* the URL does not parse

(* What is given the context fails when it is cancelled, and may fail      *)
(* otherwise.                                                              *)
PingPostgres ==
  /\ phase = "ping"
  /\ \/ ~ctxDone /\ phase' = "redis" /\ UNCHANGED <<tries, open>>
     \/ StartupFails

ConnectRedis ==
  /\ phase = "redis"
  /\ (~ctxDone /\ Opened("mongo", "redis")) \/ StartupFails

ConnectMongo ==
  /\ phase = "mongo"
  /\ (~ctxDone /\ Opened("rabbit", "mongo")) \/ StartupFails

NewRabbitMQClient ==
  /\ phase = "rabbit"
  /\ \/ Opened("exchange", "rabbit")
     \/ AttemptFails(MaxRetries)
     \/ StartupFails                             \* no channel

EnsureExchange ==
  /\ phase = "exchange"
  /\ (phase' = "listen" /\ UNCHANGED <<tries, open>>) \/ StartupFails

Listen ==
  /\ phase = "listen"
  /\ Opened("indexes", "listener") \/ StartupFails

(* The last step that looks at the context.                                *)
EnsureLedgerIndexes ==
  /\ phase = "indexes"
  /\ (~ctxDone /\ ReturnFromNewServer("start")) \/ StartupFails

(* The command prints the error and calls Start on the nil Server, whose   *)
(* goroutines dereference it.                                              *)
StartNil == phase = "nil" /\ phase' = "panicked" /\ UNCHANGED <<tries, open>>

StartStep ==
  /\ \/ ReadConfig \/ NewPostgres \/ PingPostgres \/ ConnectRedis \/ ConnectMongo
     \/ NewRabbitMQClient \/ EnsureExchange \/ Listen \/ EnsureLedgerIndexes
     \/ StartNil
  /\ UNCHANGED <<signalVars, serveVars>>
-----------------------------------------------------------------------------
(* Start: the goroutines are spawned, then the signals are asked for.      *)
Start ==
  /\ phase = "start" /\ goroutine["grpc"] = "none"
  /\ goroutine' = [g \in Goroutines |-> "ready"]
  /\ UNCHANGED <<phase, tries, open, signalVars, active>>

NotifySignals ==
  /\ phase = "start" /\ goroutine["grpc"] # "none"
  /\ phase' = "serving"
  /\ UNCHANGED <<tries, open, signalVars, serveVars>>

Becomes(g, s) == goroutine' = [goroutine EXCEPT ![g] = s]

(* HTTP's shutdown, or gRPC's, has begun.                                  *)
Closed(g) ==
  CASE g = "http" -> phase \in Shutting
    [] g = "grpc" -> phase \in {"grpc", "close"}
    [] OTHER      -> FALSE

(* Serve, ListenAndServe and Consumer.Start begin their work, or fail now  *)
(* or later: then the goroutine waits for Start to take the error.  An     *)
(* HTTP server that was shut down before it began is no failure, a gRPC    *)
(* server is.                                                              *)
Run(g) ==
  /\ goroutine[g] = "ready" /\ ~Closed(g)
  /\ Becomes(g, "running")
  /\ UNCHANGED <<phase, tries, open, signalVars, active>>

RunTooLate(g) ==
  /\ goroutine[g] = "ready" /\ Closed(g)
  /\ Becomes(g, IF g = "http" THEN "done" ELSE "failed")
  /\ UNCHANGED <<phase, tries, open, signalVars, active>>

Fails(g) ==
  /\ goroutine[g] = "ready" \/ (goroutine[g] = "running" /\ g \in Servers)
  /\ ~Closed(g)
  /\ Becomes(g, "failed")
  /\ UNCHANGED <<phase, tries, open, signalVars, active>>

(* Mutant: the consumer's failure is only logged.                          *)
TakeServerFailure ==
  /\ phase = "serving" /\ \E g \in Servers : goroutine[g] = "failed"
  /\ phase' = "aborted"
  /\ UNCHANGED <<tries, open, signalVars, serveVars>>

(* The first failure ends Start, and with it the process.                  *)
TakeFailure ==
  /\ phase = "serving" /\ \E g \in Goroutines : goroutine[g] = "failed"
  /\ phase' = "aborted"
  /\ UNCHANGED <<tries, open, signalVars, serveVars>>

(* A signal kills the process before NotifyContext; after it, it cancels   *)
(* the context a moment later, and reaches Start's channel, which has room *)
(* for one, only once Start has asked for it.                              *)
Signal ==
  /\ phase \notin Ended /\ signals < MaxSignals
  /\ signals' = signals + 1
  /\ phase' = IF phase = "config" THEN "killed" ELSE phase
  /\ sigCh' = (sigCh \/ phase \in Alive)
  /\ UNCHANGED <<tries, open, ctxDone, serveVars>>

CancelContext ==
  /\ phase \notin Ended /\ signals > 0 /\ ~ctxDone
  /\ ctxDone' = TRUE
  /\ UNCHANGED <<phase, tries, open, signals, sigCh, serveVars>>

TakeSignal ==
  /\ phase = "serving" /\ sigCh
  /\ sigCh' = FALSE /\ phase' = "http"
  /\ UNCHANGED <<tries, open, ctxDone, signals, serveVars>>
-----------------------------------------------------------------------------
(* Requests run in goroutines of their own, on contexts of their own.      *)
Accept(r, s) ==
  /\ phase \notin Ended /\ r \notin active /\ Via[r] = s
  /\ goroutine[s] = "running" /\ ~Closed(s)
  /\ active' = active \cup {r}
  /\ UNCHANGED <<phase, tries, open, signalVars, goroutine>>

AcceptGrpc(r) == Accept(r, "grpc")

(* RegisterAccountServiceHandlerServer has the gateway call the service's  *)
(* methods itself: the gRPC server does not know of these requests.        *)
AcceptHttp(r) == Accept(r, "http")

Answer(r) ==
  /\ phase \notin Ended /\ r \in active
  /\ active' = active \ {r}
  /\ UNCHANGED <<phase, tries, open, signalVars, goroutine>>

Busy(s) == \E r \in active : Via[r] = s

Stopped(g) ==
  goroutine' = [goroutine EXCEPT ![g] = IF @ = "running" THEN "done" ELSE @]

(* Shutdown waits until HTTP has no request under way, or the context is   *)
(* done.  The context is derived from the one that the same signal         *)
(* cancels, so that its own 10 s never run out first.                      *)
HttpStops ==
  /\ phase = "http" /\ ~Busy("http")
  /\ phase' = "grpc" /\ Stopped("http")
  /\ UNCHANGED <<tries, open, signalVars, active>>

(* Mutant: Shutdown(context.Background()).                                 *)
HttpWaits ==
  /\ FALSE
  /\ UNCHANGED vars

(* The context is done before the last connection is idle, a new one that  *)
(* has sent no request yet included, or all are and the listener did not   *)
(* close well.  The error skips the rest of Shutdown.  Until the process   *)
(* ends, requests go on, and the gRPC server takes new ones.               *)
HttpGivesUp ==
  /\ phase = "http" /\ (ctxDone \/ ~Busy("http"))
  /\ phase' = "late"
  /\ UNCHANGED <<tries, open, signalVars, serveVars>>

ExitLate ==
  /\ phase = "late"
  /\ phase' = "overrun"
  /\ UNCHANGED <<tries, open, signalVars, serveVars>>

(* Mutant: Stop in place of GracefulStop.                                  *)
GrpcStopsNow ==
  /\ phase = "grpc"
  /\ phase' = "close" /\ Stopped("grpc")
  /\ UNCHANGED <<tries, open, signalVars, active>>

(* GracefulStop waits for the RPCs under way, without a limit.             *)
GrpcStops ==
  /\ phase = "grpc" /\ ~Busy("grpc")
  /\ phase' = "close" /\ Stopped("grpc")
  /\ UNCHANGED <<tries, open, signalVars, active>>

(* The consumer is told to stop, MongoDB is disconnected (again: the error *)
(* is logged) and the connection to the broker closed.  The process ends.  *)
CloseClients ==
  /\ phase = "close"
  /\ \/ "rabbit" \in open /\ open' = open \ {"rabbit", "mongo"}
        /\ Stopped("consumer") /\ UNCHANGED phase
     \/ "rabbit" \notin open /\ phase' = "exited" /\ UNCHANGED <<open, goroutine>>
  /\ UNCHANGED <<tries, signalVars, active>>
-----------------------------------------------------------------------------
Main ==
  \/ StartStep \/ Start \/ NotifySignals \/ TakeFailure \/ TakeSignal
  \/ HttpStops \/ HttpGivesUp \/ ExitLate \/ GrpcStops \/ CloseClients

Next ==
  \/ Main
  \/ Signal \/ CancelContext
  \/ \E g \in Goroutines :
       phase \notin Ended /\ (Run(g) \/ RunTooLate(g) \/ Fails(g))
  \/ \E r \in Request : AcceptGrpc(r) \/ AcceptHttp(r) \/ Answer(r)

Spec == Init /\ [][Next]_vars

(* The main goroutine runs, and the one of NotifyContext.  Every RPC is    *)
(* answered; of HTTP requests nothing is asked, nor that a goroutine of    *)
(* Start gets to run.                                                      *)
Fairness ==
  /\ WF_vars(Main) /\ WF_vars(CancelContext)
  /\ \A r \in Request : Via[r] = "grpc" => WF_vars(Answer(r))

FairSpec == Spec /\ Fairness
-----------------------------------------------------------------------------
(* A transfer publishes its event after its commit, late in its request.   *)
(* Shutdown closes neither the broker's connection nor the pool under a    *)
(* request of either server.                                               *)
ClientsOutliveRequests ==
  active # {} /\ phase \notin Ended => {"pool", "rabbit"} \subseteq open

(* What is left of a graceful shutdown: unless HTTP's gave up, the         *)
(* requests of both servers are answered before the process ends, those    *)
(* too that the gRPC server took while HTTP was waited for; and an HTTP    *)
(* request is only given up under a cancelled context.                     *)
OnlyOverrunCuts ==
  /\ phase = "exited" => active = {}
  /\ phase \in {"late", "overrun"} /\ Busy("http") => ctxDone

(* A signal ends the process: before Start has asked for signals by the    *)
(* cancelled context, at the latest when the indexes are created, and      *)
(* afterwards through Start, whatever HTTP requests are under way.         *)
SignalEnds ==
  (ctxDone /\ phase \in Startup) \/ sigCh ~> phase \in Ended

(* A server that fails, or a consumer that cannot subscribe, ends the      *)
(* process, and is not left waiting for somebody to take its error.        *)
FailureEnds == \A g \in Goroutines : goroutine[g] = "failed" ~> phase \in Ended

(* Whatever the databases and the broker answer, NewServer returns: the    *)
(* process serves or ends.                                                 *)
StartupEnds == phase \in Startup ~> phase \in {"serving"} \cup Ended


(* The MongoDB ledger handler (server.go:172) has a connected client while *)
(* the server serves.  It has not: see ReturnFromNewServer.                *)
LedgerClientOpen == phase = "serving" => "mongo" \in open
=============================================================================
