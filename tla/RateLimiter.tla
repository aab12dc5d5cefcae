---------------------------- MODULE RateLimiter ----------------------------
(***************************************************************************)
(* The limits on registration, login and refresh: the handlers of          *)
(* internal/auth/handler.go, which name the key of a request, and          *)
(* RedisLimiter of internal/ratelimit, which counts the key in a window    *)
(* that starts with its first request.                                     *)
(*                                                                         *)
(* The script of Allow runs in Redis in one step; what is not one step is  *)
(* running it and having its answer.  The client sends a script again      *)
(* whose answer it has lost, and the handler may have given the request up *)
(* when the script is run, so a run need not belong to an answer.          *)
(*                                                                         *)
(* What a limit promises is observed for one subject, chosen at the start: *)
(* an address and a client for a login, a client for the other routes.     *)
(* The watch is an interval of one window that may begin at any time.      *)
(***************************************************************************)
EXTENDS Integers

CONSTANTS
    Clients,      \* what clientIP gives
    Spellings,    \* spellings of e-mail addresses in requests
    Normal,       \* TrimSpace(ToLower(...)) of each spelling
    NoAddress,    \* the part of a key that names no address
    Limit,        \* RateLimitConfig: limit of each route, 0 for none
    Window,       \* RateLimitConfig: window of each route, 0 when below 1 ms
    MaxFaults     \* bound: runs without an answer, errors and lost keys

Routes == {"register", "login", "refresh"}

ASSUME ConfigAssumption == Limit \in [Routes -> Nat] /\ Window \in [Routes -> Nat]
ASSUME NormalAssumption ==
    /\ Normal \in [Spellings -> Spellings]
    /\ \A s \in Spellings : Normal[Normal[s]] = Normal[s]
ASSUME BoundAssumption  == MaxFaults \in Nat

VARIABLES
    count,     \* value of each key of Redis, 0 when there is no key
    life,      \* time until the key expires
    subject,   \* the request whose subject is observed
    watch,     \* "before", "on" or "over"
    watchLeft, \* time until the watch is over
    passed,    \* requests of the subject let through during the watch
    runs,      \* runs of the script for the subject since its key was created
    losses,    \* times Redis has lost the subject's key
    faults     \* faults so far

redis    == <<count, life>>
observer == <<subject, watch, watchLeft>>
ledger   == <<passed, runs, losses>>
vars == <<redis, observer, ledger, faults>>

Requests == Routes \X Clients \X Spellings
Route(q) == q[1]

\* Variant: the address is used as it was typed.
KeyAsTyped(q) == <<Route(q), IF Route(q) = "login" THEN q[3] ELSE NoAddress, q[2]>>
\* Variant: a login is counted for the client alone.
KeyOfClient(q) == <<Route(q), NoAddress, q[2]>>
\* auth:login:email_ip:<address>:<client>, auth:register:ip:<client> and
\* auth:refresh:ip:<client>
Key(q) == <<Route(q), IF Route(q) = "login" THEN Normal[q[3]] ELSE NoAddress, q[2]>>
Keys == Routes \X (Spellings \cup {NoAddress}) \X Clients

\* q comes from the subject, however the address is spelt.
Mine(q) == /\ q[1] = subject[1]
           /\ q[2] = subject[2]
           /\ q[1] = "login" => Normal[q[3]] = Normal[subject[3]]
Ceiling == Limit[Route(subject)]
MyKey   == Key(subject)

Fault == faults < MaxFaults /\ faults' = faults + 1

Init ==
    /\ count = [k \in Keys |-> 0]
    /\ life  = [k \in Keys |-> 0]
    /\ subject \in Requests
    /\ watch = "before"
    /\ watchLeft = 0
    /\ passed = 0
    /\ runs = 0
    /\ losses = 0
    /\ faults = 0

-----------------------------------------------------------------------------
(* RedisLimiter.Allow *)

\* Variant: every request starts the window again.
RunRenewing(k) ==
    /\ count' = [count EXCEPT ![k] = IF @ <= Limit[k[1]] THEN @ + 1 ELSE @]
    /\ life' = [life EXCEPT ![k] = Window[k[1]]]
\* Variant: the key gets no time to live.
RunWithoutExpiry(k) ==
    /\ count' = [count EXCEPT ![k] = IF @ <= Limit[k[1]] THEN @ + 1 ELSE @]
    /\ UNCHANGED life
\* The script: INCR and, for a new key, PEXPIRE.  A value above the limit is
\* not told from Limit + 1.
Run(k) ==
    /\ count' = [count EXCEPT ![k] = IF @ <= Limit[k[1]] THEN @ + 1 ELSE @]
    /\ life' = [life EXCEPT ![k] = IF count[k] = 0 THEN Window[k[1]] ELSE @]

\* Variant: one request too many.
WithinLate(k) == count[k] <= Limit[k[1]]
\* count <= limit, for the count after INCR.
Within(k) == count[k] < Limit[k[1]]

\* The ledger of a run, whose answer lets the request pass or does not.
Enter(q, pass) ==
    /\ runs' = IF Mine(q) /\ runs < Ceiling THEN runs + 1 ELSE runs
    /\ passed' = IF Mine(q) /\ watch = "on" /\ pass THEN passed + 1 ELSE passed
    /\ UNCHANGED losses

\* limit <= 0: the request is let through without a look at Redis.
Unlimited(q) ==
    /\ Limit[Route(q)] = 0
    /\ UNCHANGED vars

\* The script's answer arrives: the handler calls the service or gives 429.
Allow(q) ==
    /\ Limit[Route(q)] > 0
    /\ Window[Route(q)] > 0
    /\ Run(Key(q))
    /\ Enter(q, Within(Key(q)))
    /\ UNCHANGED <<observer, faults>>

\* Variant: a limiter that cannot be asked lets the request through.
AllowErrorOpen(q) ==
    /\ Limit[Route(q)] > 0
    /\ Fault
    /\ passed' = IF Mine(q) /\ watch = "on" THEN passed + 1 ELSE passed
    /\ UNCHANGED <<redis, observer, runs, losses>>
\* The window is refused, or Redis gives an error or no answer in time and has
\* not run the script: the handler gives 500.
AllowError(q) ==
    /\ Limit[Route(q)] > 0
    /\ IF Window[Route(q)] = 0 THEN UNCHANGED faults ELSE Fault
    /\ UNCHANGED <<redis, observer, ledger>>

\* The script is run and no handler has its answer: the client sends it again,
\* or the handler has given 500 before or after.
RunUnanswered(q) ==
    /\ Limit[Route(q)] > 0
    /\ Window[Route(q)] > 0
    /\ Fault
    /\ Run(Key(q))
    /\ Enter(q, FALSE)
    /\ UNCHANGED observer

-----------------------------------------------------------------------------
(* Redis and time *)

\* Redis loses a key: it is evicted, or a restart forgets the last second.
Lose(k) ==
    /\ Fault
    /\ count[k] > 0
    /\ count' = [count EXCEPT ![k] = 0]
    /\ life' = [life EXCEPT ![k] = 0]
    /\ runs' = IF k = MyKey THEN 0 ELSE runs
    /\ losses' = IF k = MyKey THEN losses + 1 ELSE losses
    /\ UNCHANGED <<observer, passed>>

Tick ==
    /\ count' = [k \in Keys |-> IF life[k] = 1 THEN 0 ELSE count[k]]
    /\ life' = [k \in Keys |-> IF life[k] > 0 THEN life[k] - 1 ELSE 0]
    /\ runs' = IF life[MyKey] = 1 THEN 0 ELSE runs
    /\ watchLeft' = IF watch = "on" THEN watchLeft - 1 ELSE watchLeft
    /\ watch' = IF watch = "on" /\ watchLeft = 1 THEN "over" ELSE watch
    /\ UNCHANGED <<subject, passed, losses, faults>>

\* The watch begins.
Watch ==
    /\ watch = "before"
    /\ Window[Route(subject)] > 0
    /\ watch' = "on"
    /\ watchLeft' = Window[Route(subject)]
    /\ UNCHANGED <<redis, subject, ledger, faults>>

-----------------------------------------------------------------------------
Next ==
    \/ \E q \in Requests : Unlimited(q) \/ Allow(q) \/ AllowError(q) \/ RunUnanswered(q)
    \/ \E k \in Keys : Lose(k)
    \/ Tick
    \/ Watch

Spec == Init /\ [][Next]_vars

\* Time passes; nothing is promised of requests, faults or the observer.
FairSpec == Spec /\ WF_vars(Tick)

-----------------------------------------------------------------------------
(* Properties *)

\* Types; a key of Redis has a time to live within its window, so no counter
\* refuses its subject for ever.
TypeOK ==
    /\ count \in [Keys -> Nat]
    /\ life \in [Keys -> Nat]
    /\ \A k \in Keys : /\ count[k] <= Limit[k[1]] + 1
                       /\ life[k] <= Window[k[1]]
                       /\ count[k] > 0 <=> life[k] > 0
    /\ subject \in Requests
    /\ watch \in {"before", "on", "over"}
    /\ watchLeft \in 0..Window[Route(subject)]
    /\ watch = "on" <=> watchLeft > 0
    /\ passed \in Nat
    /\ runs \in 0..Ceiling
    /\ losses \in 0..faults
    /\ faults \in 0..MaxFaults

\* In no interval of one window, wherever it begins, are two limits of a subject's
\* requests let through, however their addresses are spelt; each time Redis loses
\* the key adds one limit.  A window that starts with the first request allows
\* all but one of two limits: that first request is before the interval if the
\* key expires within it.
AdmissionIsBounded == Ceiling > 0 => passed < (2 + losses) * Ceiling

\* A subject is refused for its own requests only: when its key is full, the
\* script has been run for it as often since the key was created.  A run whose
\* answer was lost counts, so a request that is sent again counts twice.
RefusalIsOwn ==
    \A q \in Requests :
        Mine(q) /\ Ceiling > 0 /\ ~Within(Key(q)) => runs >= Ceiling

\* As long as a key lives its window only runs down, and its count only grows:
\* requests neither renew a window nor begin it again, also not by being refused.
WindowsAreNotRenewed ==
    [][\A k \in Keys : life[k] > 0 /\ life'[k] > 0 =>
           life'[k] <= life[k] /\ count'[k] >= count[k]]_vars

\* A full key opens again, even if refused requests keep coming.
EventuallyOpen == []<>(Ceiling = 0 \/ Within(MyKey))
=============================================================================
