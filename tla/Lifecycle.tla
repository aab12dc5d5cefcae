----------------------------- MODULE Lifecycle -----------------------------
(***************************************************************************)
(* app.Run: what the process opens and starts, how it waits, and how it    *)
(* stops its parts and closes what they use, after a signal, a failure of  *)
(* the HTTP server, or a failure during the start.                         *)
(*                                                                         *)
(* The parts run on their own: the two servers with their requests, the    *)
(* outbox worker and the consumer.  Every wait for one of them is limited; *)
(* a part that is not done by then is left behind and works on until the   *)
(* process ends.                                                           *)
(***************************************************************************)
EXTENDS Naturals, Sequences, Functions

CONSTANT MaxFaults  \* bound: failures during the start and of the server

ASSUME BoundAssumption == MaxFaults \in Nat

Servers   == {"http", "grpc"}
Loops     == {"outbox", "consumer"}
Parts     == Servers \cup Loops
Clients   == {"producer", "reader"}                 \* closed with their part
Shared    == {"pool", "redis", "health"}            \* closed by deferred calls
Resources == Shared \cup Clients

\* The order of Run.
Order == <<"pool", "redis", "health", "consumer", "outbox", "grpc", "http">>

Client(p) == CASE p = "outbox"   -> {"producer"}
               [] p = "consumer" -> {"reader"}
               [] OTHER          -> {}

Needs(p) == Client(p) \cup
            CASE p = "http" -> Shared
              [] p = "grpc" -> {"pool", "redis"}
              [] OTHER      -> {"pool"}

VARIABLES
    phase,    \* of Run
    todo,     \* what Run has still to start, or to stop and close
    open,     \* resources that are open
    part,     \* the parts
    holding,  \* parts with a connection of the pool in hand
    faults    \* faults so far

vars == <<phase, todo, open, part, holding, faults>>

Working == {"running", "stopping", "left"}

Fault == faults < MaxFaults /\ faults' = faults + 1

Init ==
    /\ phase = "starting"
    /\ todo = Order
    /\ open = {}
    /\ part = [p \in Parts |-> "off"]
    /\ holding = {}
    /\ faults = 0

-----------------------------------------------------------------------------
(* The start *)

\* Variant: the deferred calls close what was never opened.
ClosesAll == <<"health", "redis", "pool">>
\* The close of x is deferred once x is open.
Deferred(x) == IF x \in open THEN <<x>> ELSE <<>>
\* The deferred calls, last in first out.
Closes == Deferred("health") \o Deferred("redis") \o Deferred("pool")

StartNext ==
    LET x == Head(todo) IN
    /\ phase = "starting"
    /\ todo' = Tail(todo)
    /\ phase' = IF x = "http" THEN "serving" ELSE "starting"
    /\ IF x \in Parts
       THEN part' = [part EXCEPT ![x] = "running"] /\ open' = open \cup Client(x)
       ELSE open' = open \cup {x} /\ UNCHANGED part
    /\ UNCHANGED <<holding, faults>>

\* Variant: the outbox worker is not stopped.
StartedBeforeForgetting(x) ==
    IF x \in {"outbox", "grpc"} THEN <<"consumer">> ELSE <<>>
\* The parts that were started before x.
StartedBefore(x) ==
    CASE x = "grpc"   -> <<"outbox", "consumer">>
      [] x = "outbox" -> <<"consumer">>
      [] OTHER        -> <<>>

\* Something cannot be opened or started; the listener of the HTTP server is
\* opened by its own goroutine, see ServeError.
StartError ==
    /\ Fault
    /\ phase = "starting" /\ Head(todo) # "http"
    /\ phase' = "ending"
    /\ todo' = StartedBefore(Head(todo)) \o Closes
    /\ UNCHANGED <<open, part, holding>>

-----------------------------------------------------------------------------
(* The end of serving *)

\* ListenAndServe returns an error; nobody waits for requests of open connections.
ServeError ==
    /\ Fault
    /\ phase = "serving"
    /\ phase' = "ending"
    /\ part' = [part EXCEPT !["http"] = "left"]
    /\ todo' = <<"grpc", "outbox", "consumer">> \o Closes
    /\ UNCHANGED <<open, holding>>

\* SIGINT or SIGTERM; server.Shutdown comes first.
Signal ==
    /\ phase = "serving"
    /\ phase' = "ending"
    /\ todo' = <<"http", "grpc", "outbox", "consumer">> \o Closes
    /\ UNCHANGED <<open, part, holding, faults>>

-----------------------------------------------------------------------------
(* Stopping and closing *)

AtStep(x) == phase = "ending" /\ todo # <<>> /\ Head(todo) = x

\* The part is told to stop: Shutdown, GracefulStop, or its context is cancelled.
Tell(p) ==
    /\ AtStep(p)
    /\ part[p] = "running"
    /\ part' = [part EXCEPT ![p] = "stopping"]
    /\ UNCHANGED <<phase, todo, open, holding, faults>>

\* It is done; its client is closed.
Stopped(p) ==
    /\ AtStep(p)
    /\ part[p] = "done"
    /\ open' = open \ Client(p)
    /\ todo' = Tail(todo)
    /\ UNCHANGED <<phase, part, holding, faults>>

\* Variant: the wait for a server has no limit.
TimedOutOnlyLoops(p) ==
    /\ AtStep(p)
    /\ p \in Loops
    /\ part[p] = "stopping"
    /\ part' = [part EXCEPT ![p] = "left"]
    /\ open' = open \ Client(p)
    /\ todo' = Tail(todo)
    /\ UNCHANGED <<phase, holding, faults>>
\* The wait is over before; its client is closed all the same.
TimedOut(p) ==
    /\ AtStep(p)
    /\ part[p] = "stopping"
    /\ part' = [part EXCEPT ![p] = "left"]
    /\ open' = open \ Client(p)
    /\ todo' = Tail(todo)
    /\ UNCHANGED <<phase, holding, faults>>

\* Close of a shared resource; from now on it refuses everything.
Close(x) ==
    /\ AtStep(x)
    /\ x \in open
    /\ open' = open \ {x}
    /\ UNCHANGED <<phase, todo, part, holding, faults>>

\* Variant: Close does not wait.
ClosedAtOnce(x) ==
    /\ AtStep(x)
    /\ x \notin open
    /\ todo' = Tail(todo)
    /\ UNCHANGED <<phase, open, part, holding, faults>>
\* Close returns; that of the pool waits until every connection is given back.
Closed(x) ==
    /\ AtStep(x)
    /\ x \notin open
    /\ x = "pool" => holding = {}
    /\ todo' = Tail(todo)
    /\ UNCHANGED <<phase, open, part, holding, faults>>

\* Run returns, and the process exits.
Return ==
    /\ phase = "ending" /\ todo = <<>>
    /\ phase' = "ended"
    /\ UNCHANGED <<todo, open, part, holding, faults>>

-----------------------------------------------------------------------------
(* The parts *)

\* A request, a batch or a record takes a connection for a statement or a transaction.
Acquire(p) ==
    /\ phase # "ended"
    /\ part[p] \in Working
    /\ "pool" \in open
    /\ holding' = holding \cup {p}
    /\ p \notin holding
    /\ UNCHANGED <<phase, todo, open, part, faults>>

\* It is over, at the latest by its timeout.
Release(p) ==
    /\ phase # "ended"
    /\ p \in holding
    /\ holding' = holding \ {p}
    /\ UNCHANGED <<phase, todo, open, part, faults>>

\* A part that was told to stop has nothing left to do.
Finish(p) ==
    /\ phase # "ended"
    /\ part[p] \in {"stopping", "left"}
    /\ p \notin holding
    /\ part' = [part EXCEPT ![p] = "done"]
    /\ UNCHANGED <<phase, todo, open, holding, faults>>

Exited == phase = "ended" /\ UNCHANGED vars

-----------------------------------------------------------------------------
Run ==
    \/ StartNext
    \/ \E p \in Parts : Tell(p) \/ Stopped(p) \/ TimedOut(p)
    \/ \E x \in Shared : Close(x) \/ Closed(x)
    \/ Return

Next ==
    \/ Run
    \/ StartError \/ ServeError \/ Signal
    \/ \E p \in Parts : Acquire(p) \/ Release(p) \/ Finish(p)
    \/ Exited

Spec == Init /\ [][Next]_vars

\* Run goes on, and statements and transactions end by their timeouts; a part
\* may take for ever to stop.
FairSpec == Spec /\ WF_vars(Run) /\ \A p \in Parts : WF_vars(Release(p))

-----------------------------------------------------------------------------
(* Properties *)

\* Types; Run only closes what is open, once.
TypeOK ==
    /\ phase \in {"starting", "serving", "ending", "ended"}
    /\ todo \in Seq(Parts \cup Shared)
    /\ IsInjective(todo)
    /\ open \subseteq Resources
    /\ part \in [Parts -> Working \cup {"off", "done"}]
    /\ holding \subseteq Parts
    /\ faults \in 0..MaxFaults
    /\ phase # "starting" =>
          \A i \in DOMAIN todo : todo[i] \in Shared => todo[i] \in open \/ i = 1

\* Nothing is closed under a part: whoever loses a client or a pool has been
\* stopped, was left behind after its time to stop, or is the HTTP server that
\* failed by itself.
ResourcesOutliveParts ==
    \A p \in Parts : part[p] \in {"running", "stopping"} => Needs(p) \subseteq open

\* The process does not exit in the middle of a transaction, not even of a part
\* that was left behind.
NothingCutOff == phase = "ended" => holding = {}

\* However slow the parts are, the process ends.
EventuallyEnds == phase = "ending" ~> phase = "ended"
=============================================================================
