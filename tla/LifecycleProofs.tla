-------------------------- MODULE LifecycleProofs --------------------------
(***************************************************************************)
(* Theorems about Lifecycle, for any number of failures.                   *)
(*                                                                         *)
(* Whatever Run does next is told by how much it still has to do: every    *)
(* path into the end leaves a final piece of the same order of stopping    *)
(* and closing.                                                            *)
(***************************************************************************)
EXTENDS Lifecycle, SequenceTheorems, TLAPS

\* How much there is to do when it is the turn of x to be opened or started.
StartTurn == [pool |-> 7, redis |-> 6, health |-> 5, consumer |-> 4, outbox |-> 3, grpc |-> 2,
              http |-> 1]

\* How much there is to do when it is the turn of x to be stopped or closed.
StopTurn == [http |-> 7, grpc |-> 6, outbox |-> 5, consumer |-> 4, health |-> 3, redis |-> 2,
             pool |-> 1]

\* What is started and stopped, or opened and closed.
Steps == Parts \cup Shared

\* s is a final piece of the order that Turn gives.
Follows(s, Turn) ==
    /\ Len(s) <= 7
    /\ \A i \in 1..Len(s) : Turn[s[i]] = Len(s) + 1 - i

Types ==
    /\ phase \in {"starting", "serving", "ending", "ended"}
    /\ todo \in Seq(Steps)
    /\ open \subseteq Resources
    /\ part \in [Parts -> Working \cup {"off", "done"}]
    /\ holding \subseteq Parts
    /\ faults \in 0..MaxFaults

\* While it starts, exactly what comes before in the order is open and running.
Starting ==
    phase = "starting" =>
        /\ todo # <<>>
        /\ Follows(todo, StartTurn)
        /\ \A p \in Parts : part[p] = IF Len(todo) < StartTurn[p] THEN "running" ELSE "off"
        /\ \A x \in Shared : x \in open <=> Len(todo) < StartTurn[x]

\* While it serves, everything is.
Serving ==
    phase = "serving" =>
        /\ todo = <<>>
        /\ \A p \in Parts : part[p] = "running"
        /\ Shared \subseteq open

\* While it ends, what had its turn is stopped and closed, and what has its
\* turn still to come is as it was.
Ending ==
    phase = "ending" =>
        /\ Follows(todo, StopTurn)
        /\ \A p \in Parts :
              /\ StopTurn[p] > Len(todo) => part[p] \in {"off", "left", "done"}
              /\ StopTurn[p] = Len(todo) => part[p] \in {"running", "stopping", "done"}
              /\ StopTurn[p] < Len(todo) => part[p] = "running"
        /\ \A x \in Shared :
              /\ StopTurn[x] > Len(todo) => x \notin open
              /\ StopTurn[x] < Len(todo) => x \in open

\* After the end nothing works that was not left behind.
Ended ==
    phase = "ended" =>
        /\ todo = <<>>
        /\ holding = {}
        /\ \A p \in Parts : part[p] \in {"off", "left", "done"}

\* A part that was not given up has its client.
ClientsOpen == \A p \in Parts : part[p] \in {"running", "stopping"} => Client(p) \subseteq open

\* Only the pool that is being closed has connections out without being open.
PoolKept == "pool" \notin open /\ holding # {} => phase = "ending" /\ Len(todo) = 1

IInv == Types /\ Starting /\ Serving /\ Ending /\ Ended /\ ClientsOpen /\ PoolKept

-----------------------------------------------------------------------------
(* The two orders *)

\* The turns, one by one.
LEMMA Turns ==
    /\ StopTurn["http"] = 7 /\ StopTurn["grpc"] = 6 /\ StopTurn["outbox"] = 5
    /\ StopTurn["consumer"] = 4 /\ StopTurn["health"] = 3 /\ StopTurn["redis"] = 2
    /\ StopTurn["pool"] = 1
    /\ StartTurn["pool"] = 7 /\ StartTurn["redis"] = 6 /\ StartTurn["health"] = 5
    /\ StartTurn["consumer"] = 4 /\ StartTurn["outbox"] = 3 /\ StartTurn["grpc"] = 2
    /\ StartTurn["http"] = 1
  BY DEF StopTurn, StartTurn

\* No two have the same turn, and nobody's turn is at the empty end.
LEMMA TurnsDiffer ==
    /\ \A x \in Steps : StopTurn[x] \in 1..7 /\ StartTurn[x] \in 1..7
    /\ \A x, y \in Steps : StopTurn[x] = StopTurn[y] => x = y
    /\ \A x, y \in Steps : StartTurn[x] = StartTurn[y] => x = y
  BY Turns DEF Steps, Parts, Servers, Loops, Shared

\* Stopping reverses starting.
LEMMA TurnsReverse == \A x \in Steps : StopTurn[x] = 8 - StartTurn[x]
  BY Turns DEF Steps, Parts, Servers, Loops, Shared

\* The head of what is left has its turn, and the rest is left again.
LEMMA FollowsTail ==
    ASSUME NEW s \in Seq(Steps), s # <<>>, NEW Turn, Follows(s, Turn)
    PROVE  /\ Head(s) \in Steps
           /\ Turn[Head(s)] = Len(s)
           /\ Len(s) \in 1..7
           /\ Tail(s) \in Seq(Steps)
           /\ Len(Tail(s)) = Len(s) - 1
           /\ Follows(Tail(s), Turn)
<1>1. Len(s) \in 1..7
  <2>1. Len(s) \in Nat /\ Len(s) # 0
    OBVIOUS
  <2>2. Len(s) <= 7
    BY DEF Follows
  <2>3. \A n \in Nat : n # 0 /\ n <= 7 => n \in 1..7
    OBVIOUS
  <2> QED BY <2>1, <2>2, <2>3
<1>2. /\ Head(s) \in Steps
      /\ Tail(s) \in Seq(Steps)
      /\ Len(Tail(s)) = Len(s) - 1
      /\ \A i \in 1..Len(Tail(s)) : Tail(s)[i] = s[i + 1]
  BY HeadTailProperties
<1>3. Turn[Head(s)] = Len(s)
  <2>1. Head(s) = s[1]
    OBVIOUS
  <2> QED BY <1>1, <2>1 DEF Follows
<1>4. Follows(Tail(s), Turn)
  <2>1. ASSUME NEW i \in 1..Len(Tail(s)) PROVE Turn[Tail(s)[i]] = Len(Tail(s)) + 1 - i
    <3>1. i + 1 \in 1..Len(s) /\ Tail(s)[i] = s[i + 1]
      BY <1>1, <1>2
    <3>2. Turn[s[i + 1]] = Len(s) + 1 - (i + 1)
      BY <3>1 DEF Follows
    <3> QED BY <1>1, <1>2, <3>1, <3>2
  <2> QED BY <1>1, <1>2, <2>1 DEF Follows
<1> QED BY <1>1, <1>2, <1>3, <1>4

\* What is left in the order of stopping is stopped and closed once each.
LEMMA FollowsInjective ==
    ASSUME NEW s \in Seq(Steps), Follows(s, StopTurn)
    PROVE  IsInjective(s)
<1>1. Len(s) \in Nat /\ DOMAIN s = 1..Len(s)
  BY LenProperties
<1> QED BY <1>1 DEF Follows, IsInjective

\* What is left in the order of starting is started once each.
LEMMA FollowsInjectiveStart ==
    ASSUME NEW s \in Seq(Steps), Follows(s, StartTurn)
    PROVE  IsInjective(s)
<1>1. Len(s) \in Nat /\ DOMAIN s = 1..Len(s)
  BY LenProperties
<1> QED BY <1>1 DEF Follows, IsInjective

\* What has its turns before a final piece makes a longer one with it.
LEMMA FollowsJoin ==
    ASSUME NEW s \in Seq(Steps), NEW t \in Seq(Steps),
           Follows(t, StopTurn), Len(s) + Len(t) <= 7,
           \A i \in 1..Len(s) : StopTurn[s[i]] = Len(s) + Len(t) + 1 - i
    PROVE  /\ s \o t \in Seq(Steps)
           /\ Len(s \o t) = Len(s) + Len(t)
           /\ Follows(s \o t, StopTurn)
<1>1. Len(s) \in Nat /\ Len(t) \in Nat
  BY LenProperties
<1>2. /\ s \o t \in Seq(Steps)
      /\ Len(s \o t) = Len(s) + Len(t)
      /\ \A i \in 1..Len(s) + Len(t) :
            (s \o t)[i] = IF i <= Len(s) THEN s[i] ELSE t[i - Len(s)]
  BY ConcatProperties
<1>3. ASSUME NEW i \in 1..Len(s) + Len(t)
      PROVE  StopTurn[(s \o t)[i]] = Len(s) + Len(t) + 1 - i
  <2>1. CASE i <= Len(s)
    BY <1>1, <1>2, <2>1
  <2>2. CASE i > Len(s)
    <3>1. i - Len(s) \in 1..Len(t) /\ (s \o t)[i] = t[i - Len(s)]
      BY <1>1, <1>2, <2>2
    <3>2. StopTurn[t[i - Len(s)]] = Len(t) + 1 - (i - Len(s))
      BY <3>1 DEF Follows
    <3> QED BY <1>1, <3>1, <3>2
  <2> QED BY <1>1, <2>1, <2>2
<1> QED BY <1>1, <1>2, <1>3 DEF Follows

\* The deferred calls are a final piece of the order of stopping, and as long
\* as what is open, when that was opened in order.
LEMMA ClosesFollow ==
    ASSUME "redis" \in open => "pool" \in open,
           "health" \in open => "redis" \in open
    PROVE  /\ Closes \in Seq(Steps)
           /\ Follows(Closes, StopTurn)
           /\ Len(Closes) = IF "health" \in open THEN 3
                            ELSE IF "redis" \in open THEN 2
                            ELSE IF "pool" \in open THEN 1 ELSE 0
<1> DEFINE H == Deferred("health")
           R == Deferred("redis")
           P == Deferred("pool")
<1>1. ASSUME NEW x \in Shared
      PROVE  /\ Deferred(x) \in Seq(Steps)
             /\ Len(Deferred(x)) = IF x \in open THEN 1 ELSE 0
             /\ \A i \in 1..Len(Deferred(x)) : Deferred(x)[i] = x
  <2>1. x \in Steps
    BY DEF Steps
  <2>2. CASE x \in open
    BY <2>1, <2>2 DEF Deferred
  <2>3. CASE x \notin open
    BY <2>3 DEF Deferred
  <2> QED BY <2>2, <2>3
<1>2. /\ H \in Seq(Steps) /\ Len(H) = IF "health" \in open THEN 1 ELSE 0
      /\ R \in Seq(Steps) /\ Len(R) = IF "redis" \in open THEN 1 ELSE 0
      /\ P \in Seq(Steps) /\ Len(P) = IF "pool" \in open THEN 1 ELSE 0
  BY <1>1 DEF Shared
<1>3. /\ \A i \in 1..Len(H) : H[i] = "health"
      /\ \A i \in 1..Len(R) : R[i] = "redis"
      /\ \A i \in 1..Len(P) : P[i] = "pool"
  BY <1>1 DEF Shared
<1>4. Closes = H \o (R \o P)
  BY <1>2, ConcatAssociative DEF Closes
<1> HIDE DEF H, R, P
<1>5. Follows(P, StopTurn)
  BY <1>2, <1>3, Turns DEF Follows
<1>6. /\ R \o P \in Seq(Steps)
      /\ Len(R \o P) = Len(R) + Len(P)
      /\ Follows(R \o P, StopTurn)
  <2>1. \A i \in 1..Len(R) : StopTurn[R[i]] = Len(R) + Len(P) + 1 - i
    BY <1>2, <1>3, Turns
  <2>2. Len(R) + Len(P) <= 7
    BY <1>2
  <2> QED BY <1>2, <1>5, <2>1, <2>2, FollowsJoin
<1>7. /\ H \o (R \o P) \in Seq(Steps)
      /\ Len(H \o (R \o P)) = Len(H) + Len(R \o P)
      /\ Follows(H \o (R \o P), StopTurn)
  <2>1. \A i \in 1..Len(H) : StopTurn[H[i]] = Len(H) + Len(R \o P) + 1 - i
    BY <1>2, <1>3, <1>6, Turns
  <2>2. Len(H) + Len(R \o P) <= 7
    BY <1>2, <1>6
  <2> QED BY <1>2, <1>6, <2>1, <2>2, FollowsJoin
<1> QED BY <1>2, <1>4, <1>6, <1>7

-----------------------------------------------------------------------------
(* The invariant *)

\* Nothing is open before the start.
LEMMA InitInv == Init => IInv
<1> SUFFICES ASSUME Init PROVE IInv
  OBVIOUS
<1>1. Types
  BY BoundAssumption DEF Init, Types, Order, Steps, Parts, Servers, Loops, Shared
<1>2. Starting
  <2>1. todo = <<"pool", "redis", "health", "consumer", "outbox", "grpc", "http">> /\ Len(todo) = 7
    BY DEF Init, Order
  <2>2. Follows(todo, StartTurn)
    <3>1. ASSUME NEW i \in 1..7 PROVE StartTurn[todo[i]] = 8 - i
      BY <2>1, Turns
    <3> QED BY <2>1, <3>1 DEF Follows
  <2> QED BY <2>1, <2>2, TurnsDiffer DEF Init, Starting, Steps
<1> QED BY <1>1, <1>2 DEF Init, IInv, Serving, Ending, Ended, ClientsOpen, PoolKept

\* Something is opened or started; with the server everything is.
LEMMA StartNextInv == IInv /\ StartNext => IInv'
<1> SUFFICES ASSUME IInv, StartNext PROVE IInv'
  OBVIOUS
<1> DEFINE x == Head(todo)
<1>1. /\ phase = "starting" /\ todo' = Tail(todo) /\ holding' = holding /\ faults' = faults
      /\ phase' = IF x = "http" THEN "serving" ELSE "starting"
      /\ IF x \in Parts
         THEN part' = [part EXCEPT ![x] = "running"] /\ open' = open \cup Client(x)
         ELSE open' = open \cup {x} /\ part' = part
  BY DEF StartNext
<1>2. /\ x \in Steps
      /\ StartTurn[x] = Len(todo)
      /\ Len(todo) \in 1..7
      /\ todo' \in Seq(Steps)
      /\ Len(todo') = Len(todo) - 1
      /\ Follows(todo', StartTurn)
  BY <1>1, FollowsTail DEF IInv, Types, Starting
<1> HIDE DEF x
<1>3. \A p \in Parts : Client(p) \subseteq Clients
  BY DEF Client, Clients
<1>4. /\ part' \in [Parts -> Working \cup {"off", "done"}]
      /\ \A p \in Parts : part'[p] = IF p = x THEN "running" ELSE part[p]
      /\ open' \subseteq Resources
      /\ \A y \in Shared : y \in open' <=> y \in open \/ y = x
      /\ open \subseteq open'
      /\ x \in Parts => Client(x) \subseteq open'
  BY <1>1, <1>2, <1>3 DEF IInv, Types, Working, Resources, Steps, Parts, Servers, Loops, Shared, Clients
<1>5. Types'
  BY <1>1, <1>2, <1>4 DEF IInv, Types
<1>6. x = "http" <=> Len(todo) = 1
  BY <1>2, Turns, TurnsDiffer DEF Steps, Parts, Servers
<1>7. /\ \A p \in Parts : part'[p] = IF Len(todo') < StartTurn[p] THEN "running" ELSE "off"
      /\ \A y \in Shared : y \in open' <=> Len(todo') < StartTurn[y]
  BY <1>1, <1>2, <1>4, TurnsDiffer DEF IInv, Starting, Steps
<1>8. Starting'
  <2>1. CASE x = "http"
    BY <1>1, <2>1 DEF Starting
  <2>2. CASE x # "http"
    <3>1. Len(todo') # 0
      BY <1>2, <1>6, <2>2
    <3>2. todo' # <<>>
      BY <3>1
    <3> QED BY <1>2, <1>7, <3>2 DEF Starting
  <2> QED BY <2>1, <2>2
<1>9. Serving'
  <2>1. CASE x = "http"
    <3>1. Len(todo) = 1 /\ Len(todo') = Len(todo) - 1
      BY <1>2, <1>6, <2>1
    <3>2. Len(todo') = 0 /\ todo' = <<>>
      BY <1>2, <3>1
    <3> QED BY <1>7, <3>2, TurnsDiffer DEF Serving, Steps
  <2>2. CASE x # "http"
    BY <1>1, <2>2 DEF Serving
  <2> QED BY <2>1, <2>2
<1>10. Ending' /\ Ended'
  BY <1>1 DEF Ending, Ended
<1>11. ClientsOpen'
  BY <1>4 DEF IInv, ClientsOpen
<1>12. PoolKept'
  BY <1>1, <1>4 DEF IInv, PoolKept
<1> QED BY <1>5, <1>8, <1>9, <1>10, <1>11, <1>12 DEF IInv

\* A way into the end: what is left to do is to stop what runs and to close
\* what is open.
LEMMA EnterEnding ==
    ASSUME IInv, phase # "ending", phase' = "ending",
           todo' \in Seq(Steps), Follows(todo', StopTurn),
           open' = open, holding' = holding, faults' \in 0..MaxFaults,
           part' \in [Parts -> Working \cup {"off", "done"}],
           \A p \in Parts : \/ StopTurn[p] > Len(todo') /\ part'[p] \in {"off", "left"}
                            \/ StopTurn[p] <= Len(todo') /\ part'[p] = "running"
                                                         /\ part[p] = "running",
           \A x \in Shared : x \in open <=> StopTurn[x] <= Len(todo')
    PROVE  IInv'
<1>1. Types'
  BY DEF IInv, Types
<1>2. Len(todo') \in Nat
  OBVIOUS
<1>3. \A x \in Steps : StopTurn[x] \in 1..7
  BY TurnsDiffer
<1>4. \A p \in Parts : /\ StopTurn[p] > Len(todo') => part'[p] \in {"off", "left", "done"}
                       /\ StopTurn[p] = Len(todo') => part'[p] \in {"running", "stopping", "done"}
                       /\ StopTurn[p] < Len(todo') => part'[p] = "running"
  BY <1>2, <1>3 DEF Steps
<1>5. \A x \in Shared : /\ StopTurn[x] > Len(todo') => x \notin open'
                        /\ StopTurn[x] < Len(todo') => x \in open'
  BY <1>2, <1>3 DEF Steps
<1>6. Ending'
  BY <1>4, <1>5 DEF Ending
<1>7. ClientsOpen'
  BY DEF IInv, ClientsOpen
<1> QED BY <1>1, <1>6, <1>7 DEF IInv, Starting, Serving, Ended, PoolKept

\* The start fails: what was started is stopped, and what was opened closed.
LEMMA StartErrorInv == IInv /\ StartError => IInv'
<1> SUFFICES ASSUME IInv, StartError PROVE IInv'
  OBVIOUS
<1> DEFINE x == Head(todo)
           before == StartedBefore(x)
<1>1. /\ phase = "starting" /\ phase' = "ending" /\ x # "http"
      /\ todo' = before \o Closes
      /\ open' = open /\ part' = part /\ holding' = holding
      /\ faults' \in 0..MaxFaults
  BY BoundAssumption DEF StartError, Fault, IInv, Types
<1>2. /\ x \in Steps
      /\ StartTurn[x] = Len(todo)
      /\ Len(todo) \in 1..7
  BY <1>1, FollowsTail DEF IInv, Types, Starting, Steps
<1>3. \A y \in Shared : y \in open <=> Len(todo) < StartTurn[y]
  BY <1>1 DEF IInv, Starting
<1>4. /\ "redis" \in open => "pool" \in open
      /\ "health" \in open => "redis" \in open
      /\ "pool" \in open <=> Len(todo) < 7
      /\ "redis" \in open <=> Len(todo) < 6
      /\ "health" \in open <=> Len(todo) < 5
  BY <1>2, <1>3, Turns DEF Shared
<1>5. /\ Closes \in Seq(Steps)
      /\ Follows(Closes, StopTurn)
      /\ Len(Closes) = IF Len(todo) < 5 THEN 3
                       ELSE IF Len(todo) < 6 THEN 2
                       ELSE IF Len(todo) < 7 THEN 1 ELSE 0
  BY <1>4, ClosesFollow
<1>6. /\ before \in Seq(Steps)
      /\ Len(before) = IF x = "grpc" THEN 2 ELSE IF x = "outbox" THEN 1 ELSE 0
      /\ \A i \in 1..Len(before) : before[i] = IF i < Len(before) THEN "outbox" ELSE "consumer"
  <2>1. "outbox" \in Steps /\ "consumer" \in Steps
    BY DEF Steps, Parts, Loops
  <2>2. CASE x = "grpc"
    BY <2>1, <2>2 DEF StartedBefore
  <2>3. CASE x = "outbox"
    BY <2>1, <2>3 DEF StartedBefore
  <2>4. CASE x \notin {"grpc", "outbox"}
    <3>1. before = <<>>
      BY <2>4 DEF StartedBefore
    <3>2. before \in Seq(Steps) /\ Len(before) = 0
      BY <3>1, EmptySeq
    <3> QED BY <2>4, <3>2
  <2> QED BY <2>2, <2>3, <2>4
<1> HIDE DEF x, before
<1>7. /\ x = "grpc" <=> Len(todo) = 2
      /\ x = "outbox" <=> Len(todo) = 3
      /\ Len(todo) # 1
  <2>1. "grpc" \in Steps /\ "outbox" \in Steps /\ "http" \in Steps
    BY DEF Steps, Parts, Servers, Loops
  <2>2. \A y \in Steps : x = y <=> Len(todo) = StartTurn[y]
    BY <1>2, TurnsDiffer
  <2> QED BY <1>1, <2>1, <2>2, Turns
<1>8. Len(before) + Len(Closes) = 7 - Len(todo)
  <2>1. CASE Len(todo) = 2
    BY <1>5, <1>6, <1>7, <2>1
  <2>2. CASE Len(todo) = 3
    BY <1>5, <1>6, <1>7, <2>2
  <2>3. CASE Len(todo) \in {4, 5, 6, 7}
    <3>1. x # "grpc" /\ x # "outbox"
      BY <1>7, <2>3
    <3>2. Len(before) = 0
      BY <1>6, <3>1
    <3>3. Len(Closes) = 7 - Len(todo)
      <4>1. CASE Len(todo) = 4 BY <1>5, <4>1
      <4>2. CASE Len(todo) = 5 BY <1>5, <4>2
      <4>3. CASE Len(todo) = 6 BY <1>5, <4>3
      <4>4. CASE Len(todo) = 7 BY <1>5, <4>4
      <4> QED BY <2>3, <4>1, <4>2, <4>3, <4>4
    <3> QED BY <1>2, <3>2, <3>3
  <2> QED BY <1>2, <1>7, <2>1, <2>2, <2>3
<1>9. \A i \in 1..Len(before) : StopTurn[before[i]] = Len(before) + Len(Closes) + 1 - i
  BY <1>2, <1>5, <1>6, <1>7, Turns
<1>10. /\ todo' \in Seq(Steps)
       /\ Len(todo') = 7 - Len(todo)
       /\ Follows(todo', StopTurn)
  <2>1. Len(before) + Len(Closes) <= 7
    BY <1>2, <1>8
  <2> QED BY <1>1, <1>5, <1>6, <1>8, <1>9, <2>1, FollowsJoin
<1>11. \A y \in Steps : StopTurn[y] <= Len(todo') <=> Len(todo) < StartTurn[y]
  BY <1>2, <1>10, TurnsDiffer, TurnsReverse
<1>12. \A p \in Parts : \/ StopTurn[p] > Len(todo') /\ part'[p] \in {"off", "left"}
                        \/ StopTurn[p] <= Len(todo') /\ part'[p] = "running"
                                                     /\ part[p] = "running"
  <2> TAKE p \in Parts
  <2>1. part[p] = IF Len(todo) < StartTurn[p] THEN "running" ELSE "off"
    BY <1>1 DEF IInv, Starting
  <2>2. p \in Steps /\ StopTurn[p] \in 1..7
    BY TurnsDiffer DEF Steps
  <2> QED BY <1>1, <1>2, <1>10, <1>11, <2>1, <2>2
<1>13. \A y \in Shared : y \in open <=> StopTurn[y] <= Len(todo')
  BY <1>3, <1>11 DEF Steps
<1>14. part' \in [Parts -> Working \cup {"off", "done"}]
  BY <1>1 DEF IInv, Types
<1> QED BY <1>1, <1>10, <1>12, <1>13, <1>14, EnterEnding

\* Serving has ended: everything but perhaps the HTTP server still runs, and is
\* stopped and closed in turn.
LEMMA EnterFromServing ==
    ASSUME IInv, phase = "serving", phase' = "ending",
           NEW before \in Seq(Steps),
           Len(before) \in {3, 4},
           \A i \in 1..Len(before) : StopTurn[before[i]] = Len(before) + 4 - i,
           todo' = before \o Closes,
           part' = [p \in Parts |-> IF p = "http" /\ Len(before) = 3 THEN "left" ELSE part[p]],
           open' = open, holding' = holding, faults' \in 0..MaxFaults
    PROVE  IInv'
<1>1. /\ \A p \in Parts : part[p] = "running"
      /\ \A x \in Shared : x \in open
  BY DEF IInv, Serving
<1>2. "redis" \in open /\ "pool" \in open /\ "health" \in open
  BY <1>1 DEF Shared
<1>3. Closes \in Seq(Steps) /\ Follows(Closes, StopTurn) /\ Len(Closes) = 3
  BY <1>2, ClosesFollow
<1>4. /\ todo' \in Seq(Steps)
      /\ Len(todo') = Len(before) + 3
      /\ Follows(todo', StopTurn)
  <2>1. ASSUME NEW i \in 1..Len(before)
        PROVE  StopTurn[before[i]] = Len(before) + Len(Closes) + 1 - i
    <3>1. StopTurn[before[i]] = Len(before) + 4 - i
      OBVIOUS
    <3>2. CASE Len(before) = 3
      BY <1>3, <3>1, <3>2
    <3>3. CASE Len(before) = 4
      BY <1>3, <3>1, <3>3
    <3> QED BY <3>2, <3>3
  <2>2. Len(before) + Len(Closes) <= 7
    <3>1. CASE Len(before) = 3
      BY <1>3, <3>1
    <3>2. CASE Len(before) = 4
      BY <1>3, <3>2
    <3> QED BY <3>1, <3>2
  <2> QED BY <1>3, <2>1, <2>2, FollowsJoin
<1>5. ASSUME NEW p \in Parts
      PROVE  \/ StopTurn[p] > Len(todo') /\ part'[p] \in {"off", "left"}
             \/ StopTurn[p] <= Len(todo') /\ part'[p] = "running" /\ part[p] = "running"
  <2>1. CASE p = "http"
    <3>1. StopTurn[p] = 7
      BY <2>1, Turns
    <3>2. part'[p] = IF Len(before) = 3 THEN "left" ELSE part[p]
      BY <2>1
    <3>3. CASE Len(before) = 3
      BY <1>4, <3>1, <3>2, <3>3
    <3>4. CASE Len(before) = 4
      BY <1>1, <1>4, <3>1, <3>2, <3>4
    <3> QED BY <3>3, <3>4
  <2>2. CASE p # "http"
    <3>1. StopTurn[p] \in {4, 5, 6}
      BY <2>2, Turns DEF Parts, Servers, Loops
    <3> QED BY <1>1, <1>4, <2>2, <3>1
  <2> QED BY <2>1, <2>2
<1>6. \A x \in Shared : x \in open <=> StopTurn[x] <= Len(todo')
  <2>1. \A x \in Shared : StopTurn[x] \in {1, 2, 3}
    BY Turns DEF Shared
  <2> QED BY <1>1, <1>4, <2>1
<1>7. part' \in [Parts -> Working \cup {"off", "done"}]
  BY DEF IInv, Types, Working
<1> QED BY <1>4, <1>5, <1>6, <1>7, EnterEnding

\* The HTTP server fails, and is left behind.
LEMMA ServeErrorInv == IInv /\ ServeError => IInv'
<1> SUFFICES ASSUME IInv, ServeError PROVE IInv'
  OBVIOUS
<1> DEFINE before == <<"grpc", "outbox", "consumer">>
<1>1. /\ phase = "serving" /\ phase' = "ending"
      /\ todo' = before \o Closes
      /\ open' = open /\ holding' = holding
      /\ faults' \in 0..MaxFaults
      /\ part' = [part EXCEPT !["http"] = "left"]
  BY BoundAssumption DEF ServeError, Fault, IInv, Types
<1>2. "grpc" \in Steps /\ "outbox" \in Steps /\ "consumer" \in Steps
  BY DEF Steps, Parts, Servers, Loops
<1>3. /\ before \in Seq(Steps) /\ Len(before) = 3
      /\ \A i \in 1..Len(before) : StopTurn[before[i]] = Len(before) + 4 - i
  BY <1>2, Turns
<1>4. part' = [p \in Parts |-> IF p = "http" THEN "left" ELSE part[p]]
  BY <1>1 DEF IInv, Types
<1> HIDE DEF before
<1>5. part' = [p \in Parts |-> IF p = "http" /\ Len(before) = 3 THEN "left" ELSE part[p]]
  BY <1>3, <1>4
<1> QED BY <1>1, <1>3, <1>5, EnterFromServing

\* A signal ends the serving.
LEMMA SignalInv == IInv /\ Signal => IInv'
<1> SUFFICES ASSUME IInv, Signal PROVE IInv'
  OBVIOUS
<1> DEFINE before == <<"http", "grpc", "outbox", "consumer">>
<1>1. /\ phase = "serving" /\ phase' = "ending"
      /\ todo' = before \o Closes
      /\ open' = open /\ holding' = holding /\ part' = part
      /\ faults' \in 0..MaxFaults
  BY DEF Signal, IInv, Types
<1>2. "http" \in Steps /\ "grpc" \in Steps /\ "outbox" \in Steps /\ "consumer" \in Steps
  BY DEF Steps, Parts, Servers, Loops
<1>3. /\ before \in Seq(Steps) /\ Len(before) = 4
      /\ \A i \in 1..Len(before) : StopTurn[before[i]] = Len(before) + 4 - i
  BY <1>2, Turns
<1>4. part' = [p \in Parts |-> part[p]]
  BY <1>1 DEF IInv, Types
<1> HIDE DEF before
<1>5. part' = [p \in Parts |-> IF p = "http" /\ Len(before) = 3 THEN "left" ELSE part[p]]
  BY <1>3, <1>4
<1> QED BY <1>1, <1>3, <1>5, EnterFromServing

\* Run does something about the one whose turn it is, and goes on to the next
\* or stays.
LEMMA TurnStep ==
    ASSUME IInv, NEW x \in Steps, AtStep(x), phase' = "ending", faults' = faults,
           holding' = holding,
           part' \in [Parts -> Working \cup {"off", "done"}],
           open' \subseteq open,
           \A y \in Steps \ {x} : /\ y \in Parts => part'[y] = part[y]
                                  /\ y \in Shared => (y \in open' <=> y \in open),
           \A p \in Parts : part'[p] \in {"running", "stopping"} =>
                               part[p] \in {"running", "stopping"} /\ Client(p) \cap open \subseteq open',
           \/ /\ todo' = todo
              /\ x \in Parts => part'[x] \in {"running", "stopping", "done"}
           \/ /\ todo' = Tail(todo)
              /\ x \in Parts => part'[x] \in {"left", "done"}
              /\ x \in Shared => x \notin open'
              /\ x = "pool" => holding = {}
    PROVE  IInv'
<1>1. /\ phase = "ending" /\ todo # <<>> /\ x = Head(todo)
      /\ todo \in Seq(Steps)
      /\ Follows(todo, StopTurn)
  BY DEF AtStep, IInv, Types, Ending
<1>2. /\ StopTurn[x] = Len(todo)
      /\ Len(todo) \in 1..7
      /\ Tail(todo) \in Seq(Steps)
      /\ Len(Tail(todo)) = Len(todo) - 1
      /\ Follows(Tail(todo), StopTurn)
  BY <1>1, FollowsTail
<1>3. \A y \in Steps : StopTurn[y] = Len(todo) <=> y = x
  BY <1>2, TurnsDiffer
<1>4. Types'
  BY <1>1, <1>2 DEF IInv, Types
<1>5. Ending'
  <2>1. ASSUME NEW p \in Parts
        PROVE  /\ StopTurn[p] > Len(todo') => part'[p] \in {"off", "left", "done"}
               /\ StopTurn[p] = Len(todo') => part'[p] \in {"running", "stopping", "done"}
               /\ StopTurn[p] < Len(todo') => part'[p] = "running"
    <3>1. /\ StopTurn[p] > Len(todo) => part[p] \in {"off", "left", "done"}
          /\ StopTurn[p] < Len(todo) => part[p] = "running"
      BY <1>1 DEF IInv, Ending
    <3>2. p \in Steps /\ StopTurn[p] \in 1..7
      BY TurnsDiffer DEF Steps
    <3>3. CASE p = x
      BY <1>2, <3>3
    <3>4. CASE p # x
      <4>1. part'[p] = part[p] /\ StopTurn[p] # Len(todo)
        BY <1>3, <3>2, <3>4
      <4>2. CASE todo' = todo
        BY <1>2, <3>1, <3>2, <4>1, <4>2
      <4>3. CASE todo' = Tail(todo)
        <5>1. Len(todo') = Len(todo) - 1
          BY <1>2, <4>3
        <5>2. /\ StopTurn[p] > Len(todo') <=> StopTurn[p] > Len(todo)
              /\ StopTurn[p] < Len(todo') => StopTurn[p] < Len(todo)
              /\ StopTurn[p] = Len(todo') => StopTurn[p] < Len(todo)
          BY <1>2, <3>2, <4>1, <5>1
        <5> QED BY <3>1, <4>1, <5>2
      <4> QED BY <4>2, <4>3
    <3> QED BY <3>3, <3>4
  <2>2. ASSUME NEW y \in Shared
        PROVE  /\ StopTurn[y] > Len(todo') => y \notin open'
               /\ StopTurn[y] < Len(todo') => y \in open'
    <3>1. /\ StopTurn[y] > Len(todo) => y \notin open
          /\ StopTurn[y] < Len(todo) => y \in open
      BY <1>1 DEF IInv, Ending
    <3>2. y \in Steps /\ StopTurn[y] \in 1..7
      BY TurnsDiffer DEF Steps
    <3>3. CASE y = x
      BY <1>2, <3>3
    <3>4. CASE y # x
      <4>1. (y \in open' <=> y \in open) /\ StopTurn[y] # Len(todo)
        BY <1>3, <3>2, <3>4
      <4>2. CASE todo' = todo
        BY <1>2, <3>1, <3>2, <4>1, <4>2
      <4>3. CASE todo' = Tail(todo)
        <5>1. Len(todo') = Len(todo) - 1
          BY <1>2, <4>3
        <5>2. /\ StopTurn[y] > Len(todo') <=> StopTurn[y] > Len(todo)
              /\ StopTurn[y] < Len(todo') => StopTurn[y] < Len(todo)
              /\ StopTurn[y] = Len(todo') => StopTurn[y] < Len(todo)
          BY <1>2, <3>2, <4>1, <5>1
        <5> QED BY <3>1, <4>1, <5>2
      <4> QED BY <4>2, <4>3
    <3> QED BY <3>3, <3>4
  <2>3. Follows(todo', StopTurn)
    BY <1>1, <1>2
  <2> QED BY <2>1, <2>2, <2>3 DEF Ending
<1>6. ClientsOpen'
  BY DEF IInv, ClientsOpen
<1>7. PoolKept'
  <2> SUFFICES ASSUME "pool" \notin open', holding # {}
               PROVE  Len(todo') = 1
    BY DEF PoolKept
  <2>1. "pool" \in Steps /\ "pool" \in Shared
    BY DEF Steps, Shared
  <2>2. x = "pool"
    <3>1. CASE "pool" \in open
      BY <2>1, <3>1
    <3>2. CASE "pool" \notin open
      <4>1. Len(todo) = 1
        BY <3>2 DEF IInv, PoolKept
      <4> QED BY <1>3, <2>1, <4>1, Turns
    <3> QED BY <3>1, <3>2
  <2> QED BY <1>2, <2>2, Turns
<1> QED BY <1>1, <1>4, <1>5, <1>6, <1>7 DEF IInv, Starting, Serving, Ended

\* A client belongs to one part and is not shared.
LEMMA ClientsOfParts ==
    /\ \A p, q \in Parts : p # q => Client(p) \cap Client(q) = {}
    /\ \A p \in Parts : Client(p) \cap Shared = {}
    /\ \A p \in Parts : p \notin Shared
  BY DEF Client, Shared, Parts, Servers, Loops

\* A part is told to stop.
LEMMA TellInv == ASSUME IInv, NEW p \in Parts, Tell(p) PROVE IInv'
<1>1. /\ AtStep(p) /\ part[p] = "running" /\ phase' = "ending" /\ todo' = todo
      /\ open' = open /\ holding' = holding /\ faults' = faults
      /\ part' = [part EXCEPT ![p] = "stopping"]
  BY DEF Tell, AtStep
<1>2. /\ part' \in [Parts -> Working \cup {"off", "done"}]
      /\ \A q \in Parts : part'[q] = IF q = p THEN "stopping" ELSE part[q]
  BY <1>1 DEF IInv, Types, Working
<1>3. p \in Steps
  BY DEF Steps
<1> QED BY <1>1, <1>2, <1>3, TurnStep

\* A part is done and its client closed.
LEMMA StoppedInv == ASSUME IInv, NEW p \in Parts, Stopped(p) PROVE IInv'
<1>1. /\ AtStep(p) /\ part[p] = "done" /\ phase' = "ending" /\ todo' = Tail(todo)
      /\ open' = open \ Client(p) /\ holding' = holding /\ faults' = faults
      /\ part' = part
  BY DEF Stopped, AtStep
<1>2. part' \in [Parts -> Working \cup {"off", "done"}]
  BY <1>1 DEF IInv, Types
<1>3. p \in Steps /\ p \notin Shared
  BY ClientsOfParts DEF Steps
<1>4. \A q \in Parts : part'[q] \in {"running", "stopping"} =>
         part[q] \in {"running", "stopping"} /\ Client(q) \cap open \subseteq open'
  BY <1>1, ClientsOfParts
<1>5. \A y \in Shared : y \in open' <=> y \in open
  BY <1>1, ClientsOfParts
<1>6. p # "pool"
  BY DEF Parts, Servers, Loops
<1> QED BY <1>1, <1>2, <1>3, <1>4, <1>5, <1>6, TurnStep

\* A part is given up, its client closed all the same.
LEMMA TimedOutInv == ASSUME IInv, NEW p \in Parts, TimedOut(p) PROVE IInv'
<1>1. /\ AtStep(p) /\ phase' = "ending" /\ todo' = Tail(todo)
      /\ open' = open \ Client(p) /\ holding' = holding /\ faults' = faults
      /\ part' = [part EXCEPT ![p] = "left"]
  BY DEF TimedOut, AtStep
<1>2. /\ part' \in [Parts -> Working \cup {"off", "done"}]
      /\ \A q \in Parts : part'[q] = IF q = p THEN "left" ELSE part[q]
  BY <1>1 DEF IInv, Types, Working
<1>3. p \in Steps /\ p \notin Shared
  BY ClientsOfParts DEF Steps
<1>4. \A q \in Parts : part'[q] \in {"running", "stopping"} =>
         part[q] \in {"running", "stopping"} /\ Client(q) \cap open \subseteq open'
  BY <1>1, <1>2, ClientsOfParts
<1>5. \A y \in Shared : y \in open' <=> y \in open
  BY <1>1, ClientsOfParts
<1>6. p # "pool"
  BY DEF Parts, Servers, Loops
<1> QED BY <1>1, <1>2, <1>3, <1>4, <1>5, <1>6, TurnStep

\* A shared resource begins to close.
LEMMA CloseInv == ASSUME IInv, NEW x \in Shared, Close(x) PROVE IInv'
<1>1. /\ AtStep(x) /\ phase' = "ending" /\ todo' = todo
      /\ open' = open \ {x} /\ holding' = holding /\ faults' = faults /\ part' = part
  BY DEF Close, AtStep
<1>2. part' \in [Parts -> Working \cup {"off", "done"}]
  BY <1>1 DEF IInv, Types
<1>3. x \in Steps /\ x \notin Parts
  BY ClientsOfParts DEF Steps
<1>4. \A q \in Parts : Client(q) \cap open \subseteq open'
  BY <1>1, ClientsOfParts
<1> QED BY <1>1, <1>2, <1>3, <1>4, TurnStep

\* A shared resource is closed.
LEMMA ClosedInv == ASSUME IInv, NEW x \in Shared, Closed(x) PROVE IInv'
<1>1. /\ AtStep(x) /\ phase' = "ending" /\ todo' = Tail(todo) /\ x \notin open
      /\ open' = open /\ holding' = holding /\ faults' = faults /\ part' = part
      /\ x = "pool" => holding = {}
  BY DEF Closed, AtStep
<1>2. part' \in [Parts -> Working \cup {"off", "done"}]
  BY <1>1 DEF IInv, Types
<1>3. x \in Steps /\ x \notin Parts
  BY ClientsOfParts DEF Steps
<1> QED BY <1>1, <1>2, <1>3, TurnStep

\* Run returns.
LEMMA ReturnInv == IInv /\ Return => IInv'
<1> SUFFICES ASSUME IInv, Return PROVE IInv'
  OBVIOUS
<1>1. /\ phase = "ending" /\ todo = <<>> /\ phase' = "ended"
      /\ todo' = todo /\ open' = open /\ part' = part /\ holding' = holding /\ faults' = faults
  BY DEF Return
<1>2. Len(todo) = 0
  BY <1>1
<1>3. \A x \in Steps : StopTurn[x] > 0
  BY TurnsDiffer
<1>4. /\ \A p \in Parts : part[p] \in {"off", "left", "done"}
      /\ "pool" \notin open
  BY <1>1, <1>2, <1>3 DEF IInv, Ending, Steps, Shared
<1>5. holding = {}
  BY <1>2, <1>4 DEF IInv, PoolKept
<1>6. Types' /\ ClientsOpen'
  BY <1>1 DEF IInv, Types, ClientsOpen
<1> QED BY <1>1, <1>4, <1>5, <1>6 DEF IInv, Starting, Serving, Ending, Ended, PoolKept

\* A part goes on.
LEMMA PartInv ==
    ASSUME IInv, NEW p \in Parts, Acquire(p) \/ Release(p) \/ Finish(p)
    PROVE  IInv'
<1>1. /\ phase' = phase /\ todo' = todo /\ open' = open /\ faults' = faults
      /\ phase # "ended"
  BY DEF Acquire, Release, Finish
<1>2. holding' \subseteq Parts /\ ("pool" \in open \/ holding' \subseteq holding)
  BY DEF Acquire, Release, Finish, IInv, Types
<1>3. \/ part' = part
      \/ /\ part[p] \in {"stopping", "left"}
         /\ part' = [part EXCEPT ![p] = "done"]
  BY DEF Acquire, Release, Finish
<1>4. /\ part' \in [Parts -> Working \cup {"off", "done"}]
      /\ \A q \in Parts : \/ part'[q] = part[q]
                          \/ part[q] \in {"stopping", "left"} /\ part'[q] = "done"
  BY <1>3 DEF IInv, Types
<1>5. Types'
  BY <1>1, <1>2, <1>4 DEF IInv, Types
<1>6. Starting' /\ Serving'
  <2>1. phase \in {"starting", "serving"} => \A q \in Parts : part[q] \notin {"stopping", "left"}
    BY DEF IInv, Starting, Serving
  <2>2. phase \in {"starting", "serving"} => \A q \in Parts : part'[q] = part[q]
    BY <1>4, <2>1
  <2> QED BY <1>1, <2>2 DEF IInv, Starting, Serving
<1>7. Ending'
  <2>1. ASSUME phase = "ending", NEW q \in Parts
        PROVE  /\ StopTurn[q] > Len(todo) => part'[q] \in {"off", "left", "done"}
               /\ StopTurn[q] = Len(todo) => part'[q] \in {"running", "stopping", "done"}
               /\ StopTurn[q] < Len(todo) => part'[q] = "running"
    <3>1. /\ StopTurn[q] > Len(todo) => part[q] \in {"off", "left", "done"}
          /\ StopTurn[q] = Len(todo) => part[q] \in {"running", "stopping", "done"}
          /\ StopTurn[q] < Len(todo) => part[q] = "running"
      BY <2>1 DEF IInv, Ending
    <3> QED BY <1>4, <3>1
  <2> QED BY <1>1, <2>1 DEF IInv, Ending
<1>8. Ended' /\ PoolKept'
  BY <1>1, <1>2 DEF IInv, Ended, PoolKept
<1>9. ClientsOpen'
  BY <1>1, <1>4 DEF IInv, ClientsOpen
<1> QED BY <1>5, <1>6, <1>7, <1>8, <1>9 DEF IInv

\* Every step keeps the invariant.
LEMMA InvStep == IInv /\ [Next]_vars => IInv'
<1> SUFFICES ASSUME IInv, [Next]_vars PROVE IInv'
  OBVIOUS
<1>1. CASE Run
  BY <1>1, StartNextInv, TellInv, StoppedInv, TimedOutInv, CloseInv, ClosedInv, ReturnInv DEF Run
<1>2. CASE StartError \/ ServeError \/ Signal
  BY <1>2, StartErrorInv, ServeErrorInv, SignalInv
<1>3. CASE \E p \in Parts : Acquire(p) \/ Release(p) \/ Finish(p)
  BY <1>3, PartInv
<1>4. CASE UNCHANGED vars
  BY <1>4 DEF vars, IInv, Types, Starting, Serving, Ending, Ended, ClientsOpen, PoolKept
<1> QED BY <1>1, <1>2, <1>3, <1>4 DEF Next, Exited

\* The invariant holds always.
LEMMA InvAlways == Spec => []IInv
  BY InitInv, InvStep, PTL DEF Spec

-----------------------------------------------------------------------------
(* What the runs check, for any number of failures *)

\* Types; what is left to stop and close is there once, and still to be closed.
THEOREM TypeCorrect == Spec => []TypeOK
<1>1. IInv => TypeOK
  <2> SUFFICES ASSUME IInv PROVE TypeOK
    OBVIOUS
  <2>1. IsInjective(todo)
    <3>1. CASE phase = "starting"
      BY <3>1, FollowsInjectiveStart DEF IInv, Types, Starting
    <3>2. CASE phase = "ending"
      BY <3>2, FollowsInjective DEF IInv, Types, Ending
    <3>3. CASE phase \in {"serving", "ended"}
      <4>1. todo = <<>>
        BY <3>3 DEF IInv, Serving, Ended
      <4> QED BY <4>1 DEF IsInjective
    <3> QED BY <3>1, <3>2, <3>3 DEF IInv, Types
  <2>2. phase # "starting" =>
           \A i \in DOMAIN todo : todo[i] \in Shared => todo[i] \in open \/ i = 1
    <3>1. ASSUME phase = "ending", NEW i \in DOMAIN todo, todo[i] \in Shared, i # 1
          PROVE  todo[i] \in open
      <4>1. todo \in Seq(Steps) /\ Follows(todo, StopTurn)
        BY <3>1 DEF IInv, Types, Ending
      <4>2. Len(todo) \in Nat /\ i \in 1..Len(todo)
        BY <4>1
      <4>3. StopTurn[todo[i]] = Len(todo) + 1 - i
        BY <4>1, <4>2 DEF Follows
      <4>4. StopTurn[todo[i]] < Len(todo)
        BY <3>1, <4>2, <4>3
      <4> QED BY <3>1, <4>4 DEF IInv, Ending
    <3>2. CASE phase \in {"serving", "ended"}
      <4>1. todo = <<>>
        BY <3>2 DEF IInv, Serving, Ended
      <4> QED BY <4>1
    <3> QED BY <3>1, <3>2 DEF IInv, Types
  <2> QED BY <2>1, <2>2 DEF IInv, Types, TypeOK, Steps
<1> QED BY <1>1, InvAlways, PTL

\* Whatever ends the run, and wherever the start failed: nothing is closed under
\* a part that was neither stopped nor given up.
THEOREM PartsOutlived == Spec => []ResourcesOutliveParts
<1>1. IInv => ResourcesOutliveParts
  <2> SUFFICES ASSUME IInv, NEW p \in Parts, part[p] \in {"running", "stopping"}
               PROVE  Needs(p) \subseteq open
    BY DEF ResourcesOutliveParts
  <2>1. Client(p) \subseteq open
    BY DEF IInv, ClientsOpen
  <2>2. p \in Steps /\ StopTurn[p] >= 4 /\ \A x \in Shared : StopTurn[x] < 4
    BY Turns DEF Steps, Parts, Servers, Loops, Shared
  <2>3. Needs(p) \ Client(p) \subseteq
           IF p = "http" THEN Shared ELSE IF p = "grpc" THEN {"pool", "redis"} ELSE {"pool"}
    BY DEF Needs, Shared
  <2>4. CASE phase = "starting"
    <3>1. todo \in Seq(Steps) /\ Len(todo) \in Nat /\ Len(todo) < StartTurn[p]
      BY <2>4 DEF IInv, Types, Starting
    <3>2. \A x \in Shared : StartTurn[p] < StartTurn[x] /\ StartTurn[x] \in Nat /\ StartTurn[p] \in Nat
      BY Turns DEF Parts, Servers, Loops, Shared
    <3>3. \A x \in Shared : Len(todo) < StartTurn[x]
      BY <3>1, <3>2
    <3>4. Shared \subseteq open
      BY <2>4, <3>3 DEF IInv, Starting
    <3> QED BY <2>1, <2>3, <3>4 DEF Shared
  <2>5. CASE phase = "serving"
    <3>1. Shared \subseteq open
      BY <2>5 DEF IInv, Serving
    <3> QED BY <2>1, <2>3, <3>1 DEF Shared
  <2>6. CASE phase = "ending"
    <3>1. todo \in Seq(Steps) /\ Len(todo) \in Nat
      BY DEF IInv, Types, Steps
    <3>2. StopTurn[p] <= Len(todo)
      BY <2>2, <2>6, <3>1, TurnsDiffer DEF IInv, Ending
    <3>3. \A x \in Shared : StopTurn[x] < Len(todo)
      <4>1. \A x \in Shared : StopTurn[x] \in 1..3
        BY Turns DEF Shared
      <4>2. StopTurn[p] \in 4..7
        BY Turns DEF Parts, Servers, Loops
      <4> QED BY <3>1, <3>2, <4>1, <4>2
    <3>4. Shared \subseteq open
      BY <2>6, <3>3 DEF IInv, Ending
    <3> QED BY <2>1, <2>3, <3>4 DEF Shared
  <2>7. CASE phase = "ended"
    BY <2>7 DEF IInv, Ended
  <2> QED BY <2>4, <2>5, <2>6, <2>7 DEF IInv, Types
<1> QED BY <1>1, InvAlways, PTL

\* The process never exits in the middle of a transaction.
THEOREM NothingIsCutOff == Spec => []NothingCutOff
<1>1. IInv => NothingCutOff
  BY DEF IInv, Ended, NothingCutOff
<1> QED BY <1>1, InvAlways, PTL

-----------------------------------------------------------------------------
(* Why the process ends: each step of Run in the end leaves less to do, only *)
(* the closing of the pool waits, and it waits for connections that nobody   *)
(* takes any more.                                                           *)

\* The one whose turn it is has not been told to stop, or is not closed yet.
Untouched ==
    \/ \E p \in Parts : AtStep(p) /\ part[p] = "running"
    \/ \E x \in Shared : AtStep(x) /\ x \in open

\* How many steps Run has still to take.
StepsLeft == 2 * Len(todo) + IF Untouched THEN 1 ELSE 0

\* Run waits for connections of the pool.
WaitsForConnections == AtStep("pool") /\ "pool" \notin open /\ holding # {}

\* In the end, one of the steps of Run is possible unless it waits for
\* connections of the pool.
EndingNeverStuck ==
    phase = "ending" =>
        \/ todo = <<>>
        \/ \E p \in Parts : AtStep(p) /\ part[p] \in {"running", "stopping", "done"}
        \/ \E x \in Shared : AtStep(x) /\ (x \in open \/ x # "pool" \/ holding = {})
        \/ WaitsForConnections

\* Each step of Run in the end leaves fewer, no other step adds one, and nobody
\* takes a connection that Run would have to wait for.
EndingAdvances ==
    [][phase = "ending" =>
          /\ Run => phase' = "ended" \/ StepsLeft' < StepsLeft
          /\ phase' = "ending" => StepsLeft' <= StepsLeft
          /\ phase' \in {"ending", "ended"}
          /\ WaitsForConnections => holding' \subseteq holding]_vars

\* The end waits for nothing but connections of the pool.
THEOREM EndingWaitsForPoolOnly == Spec => []EndingNeverStuck
<1>1. IInv => EndingNeverStuck
  <2> SUFFICES ASSUME IInv, phase = "ending", todo # <<>> PROVE EndingNeverStuck
    BY DEF EndingNeverStuck
  <2> DEFINE x == Head(todo)
  <2>1. x \in Steps /\ StopTurn[x] = Len(todo)
    BY FollowsTail DEF IInv, Types, Ending, Steps
  <2>2. AtStep(x)
    BY DEF AtStep
  <2> HIDE DEF x
  <2>3. x \in Parts => part[x] \in {"running", "stopping", "done"}
    BY <2>1 DEF IInv, Ending
  <2>4. x \in Shared => x \in open \/ x # "pool" \/ holding = {} \/ WaitsForConnections
    BY <2>2 DEF WaitsForConnections
  <2> QED BY <2>1, <2>2, <2>3, <2>4 DEF EndingNeverStuck, Steps
<1> QED BY <1>1, InvAlways, PTL

\* Going on to the next leaves less to do, whatever that one is.
LEMMA TailLeavesLess ==
    ASSUME IInv, phase = "ending", todo # <<>>, todo' = Tail(todo)
    PROVE  StepsLeft' < StepsLeft
<1>1. Len(todo) \in Nat /\ Len(todo') = Len(todo) - 1
  BY FollowsTail DEF IInv, Types, Ending, Steps
<1>2. /\ StepsLeft = 2 * Len(todo) \/ StepsLeft = 2 * Len(todo) + 1
      /\ StepsLeft' = 2 * Len(todo') \/ StepsLeft' = 2 * Len(todo') + 1
  BY <1>1 DEF StepsLeft
<1> QED BY <1>1, <1>2

\* Doing something about the one whose turn it is leaves less to do.
LEMMA TouchLeavesLess ==
    ASSUME IInv, phase = "ending", todo' = todo, Untouched, ~Untouched'
    PROVE  StepsLeft' < StepsLeft
<1>1. Len(todo) \in Nat
  BY DEF IInv, Types, Steps
<1>2. StepsLeft = 2 * Len(todo) + 1 /\ StepsLeft' = 2 * Len(todo)
  BY DEF StepsLeft
<1> QED BY <1>1, <1>2

\* A step of Run in the end.
LEMMA RunLeavesLess ==
    ASSUME IInv, phase = "ending", Run
    PROVE  phase' = "ended" \/ (phase' = "ending" /\ StepsLeft' < StepsLeft)
<1>1. CASE StartNext
  BY <1>1 DEF StartNext
<1>2. ASSUME NEW p \in Parts, Tell(p)
      PROVE  phase' = "ending" /\ StepsLeft' < StepsLeft
  <2>1. /\ AtStep(p) /\ part[p] = "running" /\ phase' = phase /\ todo' = todo
        /\ part'[p] = "stopping" /\ open' = open
    BY <1>2 DEF Tell, IInv, Types
  <2>2. Untouched
    BY <2>1 DEF Untouched
  <2>3. ~Untouched'
    BY <2>1, ClientsOfParts DEF Untouched, AtStep
  <2> QED BY <2>1, <2>2, <2>3, TouchLeavesLess
<1>3. ASSUME NEW p \in Parts, Stopped(p) \/ TimedOut(p)
      PROVE  phase' = "ending" /\ StepsLeft' < StepsLeft
  BY <1>3, TailLeavesLess DEF Stopped, TimedOut, AtStep
<1>4. ASSUME NEW x \in Shared, Close(x)
      PROVE  phase' = "ending" /\ StepsLeft' < StepsLeft
  <2>1. AtStep(x) /\ x \in open /\ phase' = phase /\ todo' = todo /\ x \notin open'
    BY <1>4 DEF Close
  <2>2. Untouched
    BY <2>1 DEF Untouched
  <2>3. ~Untouched'
    BY <2>1, ClientsOfParts DEF Untouched, AtStep
  <2> QED BY <2>1, <2>2, <2>3, TouchLeavesLess
<1>5. ASSUME NEW x \in Shared, Closed(x)
      PROVE  phase' = "ending" /\ StepsLeft' < StepsLeft
  BY <1>5, TailLeavesLess DEF Closed, AtStep
<1>6. CASE Return
  BY <1>6 DEF Return
<1> QED BY <1>1, <1>2, <1>3, <1>4, <1>5, <1>6 DEF Run

\* What the parts do adds nothing to what Run has to do.
LEMMA PartsAddNothing ==
    ASSUME IInv, phase = "ending",
           (\E p \in Parts : Acquire(p) \/ Release(p) \/ Finish(p)) \/ UNCHANGED vars
    PROVE  phase' = "ending" /\ StepsLeft' <= StepsLeft
<1>1. phase' = phase /\ todo' = todo /\ open' = open
  BY DEF Acquire, Release, Finish, vars
<1>2. \A p \in Parts : part'[p] = "running" => part[p] = "running"
  BY DEF Acquire, Release, Finish, vars, IInv, Types
<1>3. Untouched' => Untouched
  BY <1>1, <1>2 DEF Untouched, AtStep
<1>4. Len(todo) \in Nat
  BY DEF IInv, Types, Steps
<1>5. \/ StepsLeft' = 2 * Len(todo)
      \/ StepsLeft' = 2 * Len(todo) + 1 /\ StepsLeft = 2 * Len(todo) + 1
  BY <1>1, <1>3 DEF StepsLeft
<1>6. StepsLeft = 2 * Len(todo) \/ StepsLeft = 2 * Len(todo) + 1
  BY DEF StepsLeft
<1> QED BY <1>1, <1>4, <1>5, <1>6

\* While Run waits for connections nobody takes one.
LEMMA NoneTaken ==
    ASSUME IInv, WaitsForConnections, [Next]_vars
    PROVE  holding' \subseteq holding
<1>1. phase = "ending" /\ Head(todo) = "pool" /\ "pool" \notin open
  BY DEF WaitsForConnections, AtStep
<1> QED BY <1>1 DEF Next, Run, StartNext, Tell, Stopped, TimedOut, Close, Closed, Return, StartError,
          ServeError, Signal, Acquire, Release, Finish, Exited, vars

\* The safety core of EventuallyEnds: under the fairness of Run and of the
\* releases, each of the finitely many steps left is taken.
THEOREM EndingShrinks == Spec => EndingAdvances
<1>1. IInv /\ [Next]_vars =>
         [phase = "ending" =>
             /\ Run => phase' = "ended" \/ StepsLeft' < StepsLeft
             /\ phase' = "ending" => StepsLeft' <= StepsLeft
             /\ phase' \in {"ending", "ended"}
             /\ WaitsForConnections => holding' \subseteq holding]_vars
  <2> SUFFICES ASSUME IInv, [Next]_vars, phase = "ending"
               PROVE  /\ Run => phase' = "ended" \/ StepsLeft' < StepsLeft
                      /\ phase' = "ending" => StepsLeft' <= StepsLeft
                      /\ phase' \in {"ending", "ended"}
                      /\ WaitsForConnections => holding' \subseteq holding
    OBVIOUS
  <2>1. WaitsForConnections => holding' \subseteq holding
    BY NoneTaken
  <2>2. StepsLeft' < StepsLeft => StepsLeft' <= StepsLeft
    <3>1. IInv'
      BY InvStep
    <3>2. Len(todo) \in Nat /\ Len(todo') \in Nat
      BY <3>1 DEF IInv, Types, Steps
    <3>3. StepsLeft \in Nat /\ StepsLeft' \in Nat
      BY <3>2 DEF StepsLeft
    <3> QED BY <3>3
  <2>3. CASE Run
    BY <2>1, <2>2, <2>3, RunLeavesLess
  <2>4. CASE StartError \/ ServeError \/ Signal \/ Exited
    BY <2>4 DEF StartError, ServeError, Signal, Exited
  <2>5. CASE ~Run
    <3>1. phase' = "ending" /\ StepsLeft' <= StepsLeft
      BY <2>4, <2>5, PartsAddNothing DEF Next, StartError, ServeError, Signal, Exited
    <3> QED BY <2>1, <2>5, <3>1
  <2> QED BY <2>3, <2>5
<1> QED BY <1>1, InvAlways, PTL DEF Spec, EndingAdvances
=============================================================================
