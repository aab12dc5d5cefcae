------------------------- MODULE RateLimiterProofs -------------------------
(***************************************************************************)
(* Proofs about RateLimiter, for all limits, windows and faults.           *)
(*                                                                         *)
(* The bound on admissions needs to know how the life of the subject's key *)
(* and the watch lie to each other.  A key that expires before the watch   *)
(* is over was created before it began, so the request that created it is  *)
(* not counted; a key created during the watch outlives it, so the watch   *)
(* sees the end of one life at most, unless Redis loses the key.           *)
(***************************************************************************)
EXTENDS RateLimiter, TLAPS

Count  == count[MyKey]
Life   == life[MyKey]
\* Requests let through in the life of the subject's key, at most.
Filled == IF Count < Ceiling THEN Count ELSE Ceiling

\* One limit for each loss of the key.
Extra  == losses * Ceiling

\* What has been let through, by how the key and the watch lie to each other.
WatchBound ==
    /\ watch = "before" => passed = 0
    /\ watch = "on" /\ Life = 0 => passed < Ceiling + Extra
    /\ watch = "on" /\ 0 < Life /\ Life < watchLeft => passed < Filled + Extra
    /\ watch = "on" /\ watchLeft <= Life => passed < Ceiling + Filled + Extra
    /\ watch = "over" => passed < 2 * Ceiling + Extra

Inv == /\ TypeOK
       /\ runs = Filled
       /\ Ceiling > 0 => WatchBound

-----------------------------------------------------------------------------
\* Requests name keys, and the subject's key is named by its requests alone.
LEMMA KeysAreOwn ==
    ASSUME TypeOK, NEW q \in Requests
    PROVE  /\ Key(q) \in Keys
           /\ MyKey \in Keys
           /\ Key(q)[1] = Route(q)
           /\ MyKey[1] = Route(subject)
           /\ Route(q) \in Routes
           /\ Route(subject) \in Routes
           /\ Mine(q) <=> Key(q) = MyKey
           /\ Ceiling \in Nat
           /\ Window[Route(subject)] \in Nat
  BY ConfigAssumption, NormalAssumption
  DEF TypeOK, Requests, Key, MyKey, Keys, Mine, Route, Ceiling

\* The product in the bound grows by one limit with each loss.
LEMMA ExtraGrows ==
    ASSUME losses \in Nat, Ceiling \in Nat
    PROVE  /\ Extra \in Nat
           /\ losses' = losses /\ Ceiling' = Ceiling => Extra' = Extra
           /\ losses' = losses + 1 /\ Ceiling' = Ceiling => Extra' = Extra + Ceiling
           /\ (2 + losses) * Ceiling = 2 * Ceiling + Extra
<1>1. \A m, c \in Nat : /\ m * c \in Nat
                         /\ (m + 1) * c = m * c + c
                         /\ (2 + m) * c = 2 * c + m * c
  OBVIOUS
<1> QED
  BY <1>1 DEF Extra

-----------------------------------------------------------------------------
(* Type correctness *)

\* The keys of Redis alone: the part of TypeOK that the script must keep.
KeysOK ==
    /\ count \in [Keys -> Nat]
    /\ life \in [Keys -> Nat]
    /\ \A k \in Keys : /\ count[k] <= Limit[k[1]] + 1
                       /\ life[k] <= Window[k[1]]
                       /\ count[k] > 0 <=> life[k] > 0

\* The script counts one key and gives it a time to live when it is new.
LEMMA RunKeepsKeys ==
    ASSUME KeysOK, NEW k \in Keys, Window[k[1]] > 0, Run(k)
    PROVE  KeysOK'
<1>1. \A j \in Keys : j[1] \in Routes
  BY DEF Keys
<1> QED
  BY <1>1, ConfigAssumption DEF KeysOK, Run

\* Every step keeps the types.
LEMMA TypeStep == TypeOK /\ [Next]_vars => TypeOK'
<1> SUFFICES ASSUME TypeOK, [Next]_vars PROVE TypeOK'
  OBVIOUS
<1> USE BoundAssumption
<1>a. KeysOK /\ \A k \in Keys : k[1] \in Routes
  BY DEF TypeOK, KeysOK, Keys
<1>b. subject \in Requests /\ Ceiling \in Nat /\ Window[Route(subject)] \in Nat
  BY KeysAreOwn DEF TypeOK
<1>1. ASSUME NEW q \in Requests, Allow(q) PROVE TypeOK'
  <2>1. Key(q) \in Keys /\ Window[Key(q)[1]] > 0
    BY <1>1, KeysAreOwn DEF Allow
  <2>2. KeysOK'
    BY <1>1, <1>a, <2>1, RunKeepsKeys DEF Allow
  <2> QED
    BY <1>1, <1>b, <2>2 DEF Allow, Enter, observer, TypeOK, KeysOK, Ceiling
<1>2. ASSUME NEW q \in Requests, RunUnanswered(q) PROVE TypeOK'
  <2>1. Key(q) \in Keys /\ Window[Key(q)[1]] > 0
    BY <1>2, KeysAreOwn DEF RunUnanswered
  <2>2. KeysOK'
    BY <1>2, <1>a, <2>1, RunKeepsKeys DEF RunUnanswered
  <2> QED
    BY <1>2, <1>b, <2>2 DEF RunUnanswered, Enter, Fault, observer, TypeOK, KeysOK, Ceiling
<1>3. ASSUME NEW q \in Requests, AllowError(q) PROVE TypeOK'
  BY <1>3, <1>b DEF AllowError, Fault, redis, observer, ledger, TypeOK, Ceiling
<1>4. ASSUME NEW k \in Keys, Lose(k) PROVE TypeOK'
  <2>1. KeysOK'
    BY <1>4, <1>a, ConfigAssumption DEF Lose, KeysOK
  <2> QED
    BY <1>4, <1>b, <2>1 DEF Lose, Fault, observer, TypeOK, KeysOK, Ceiling
<1>5. CASE Tick
  <2>1. KeysOK'
    BY <1>5, <1>a, ConfigAssumption DEF Tick, KeysOK
  <2> QED
    BY <1>5, <1>b, <2>1 DEF Tick, TypeOK, KeysOK, Ceiling
<1>6. CASE Watch
  BY <1>6, <1>b DEF Watch, redis, ledger, TypeOK, Ceiling
<1>7. CASE UNCHANGED vars
  BY <1>7 DEF vars, redis, observer, ledger, TypeOK, Ceiling
<1> QED
  BY <1>1, <1>2, <1>3, <1>4, <1>5, <1>6, <1>7 DEF Next, Unlimited

\* Initially there is no key.
LEMMA TypeInit == Init => TypeOK
<1> SUFFICES ASSUME Init PROVE TypeOK
  OBVIOUS
<1>1. subject \in Requests /\ Route(subject) \in Routes /\ \A k \in Keys : k[1] \in Routes
  BY DEF Init, Requests, Route, Keys
<1> QED
  BY <1>1, ConfigAssumption, BoundAssumption DEF Init, TypeOK, Ceiling

\* The types hold throughout every behaviour, and a key exists exactly while it
\* has a time to live, for all limits, windows, clients and spellings.
THEOREM TypeCorrect == Spec => []TypeOK
  BY TypeInit, TypeStep, PTL DEF Spec

-----------------------------------------------------------------------------
(* Refusals and the bound on admissions *)

\* A run that is not the subject's leaves its key alone; one that is counts it,
\* and lets it live for a window when it is new.
LEMMA RunOfSubject ==
    ASSUME TypeOK, TypeOK', UNCHANGED observer, NEW q \in Requests, Run(Key(q)),
           Limit[Route(q)] > 0
    PROVE  /\ MyKey' = MyKey /\ Ceiling' = Ceiling
           /\ ~Mine(q) => Count' = Count /\ Life' = Life
           /\ Mine(q) => /\ Ceiling > 0
                         /\ Count' = IF Count <= Ceiling THEN Count + 1 ELSE Count
                         /\ Life' = IF Count = 0 THEN Window[Route(subject)] ELSE Life
                         /\ Within(Key(q)) <=> Count < Ceiling
<1>1. MyKey' = MyKey /\ Ceiling' = Ceiling
  BY DEF observer, MyKey, Ceiling, Key, Route
<1>2. /\ Key(q) \in Keys /\ MyKey \in Keys
      /\ MyKey[1] = Route(subject)
      /\ Mine(q) <=> Key(q) = MyKey
      /\ Mine(q) => Route(q) = Route(subject)
  BY KeysAreOwn DEF Mine, Route
<1> QED
  BY <1>1, <1>2 DEF TypeOK, Run, Count, Life, Ceiling, Within

\* The subject's count, time to live and ledger, while nothing else changes.
LEMMA RunKeepsInv ==
    ASSUME Inv, TypeOK', UNCHANGED observer, NEW q \in Requests, NEW pass \in BOOLEAN,
           Run(Key(q)), Limit[Route(q)] > 0, Enter(q, pass),
           pass => Within(Key(q))
    PROVE  Inv'
<1> DEFINE W == Window[Route(subject)]
<1>1. /\ MyKey' = MyKey /\ Ceiling' = Ceiling
      /\ ~Mine(q) => Count' = Count /\ Life' = Life
      /\ Mine(q) => /\ Ceiling > 0
                    /\ Count' = IF Count <= Ceiling THEN Count + 1 ELSE Count
                    /\ Life' = IF Count = 0 THEN W ELSE Life
                    /\ Within(Key(q)) <=> Count < Ceiling
  BY RunOfSubject DEF Inv
<1>2. /\ Count \in Nat /\ Life \in Nat /\ watchLeft \in 0..W /\ W \in Nat
      /\ Ceiling \in Nat /\ Count <= Ceiling + 1 /\ passed \in Nat /\ runs \in Nat
      /\ losses \in Nat /\ (Count > 0 <=> Life > 0)
      /\ watch \in {"before", "on", "over"} /\ (watch = "on" <=> watchLeft > 0)
  BY KeysAreOwn, BoundAssumption DEF Inv, TypeOK, Count, Life, Ceiling
<1>3. Extra \in Nat
  BY <1>2, ExtraGrows
<1>4. losses' = losses /\ Extra' = Extra /\ watch' = watch /\ watchLeft' = watchLeft
  BY <1>1, <1>2, ExtraGrows DEF Enter, observer
<1>5. runs' = Filled'
  BY <1>1, <1>2 DEF Inv, Enter, Filled
<1>6. ASSUME Ceiling > 0 PROVE WatchBound'
  <2> HIDE DEF W
  <2>1. WatchBound
    BY <1>6 DEF Inv
  <2>2. CASE ~Mine(q)
    <3>1. passed' = passed /\ Filled' = Filled /\ Life' = Life
      BY <1>1, <2>2 DEF Enter, Filled
    <3> QED
      BY <1>1, <1>4, <2>1, <3>1 DEF WatchBound
  <2>3. CASE Mine(q)
    <3>1. passed' = IF watch = "on" /\ pass THEN passed + 1 ELSE passed
      BY <2>3 DEF Enter
    <3>2. Filled' = IF Count < Ceiling THEN Count + 1 ELSE Ceiling
      BY <1>1, <1>2, <2>3 DEF Filled
    <3>3. pass => Count < Ceiling
      BY <1>1, <2>3
    <3> QED
      BY <1>1, <1>2, <1>3, <1>4, <2>1, <2>3, <3>1, <3>2, <3>3, <1>6 DEF WatchBound, Filled
  <2> QED
    BY <2>2, <2>3
<1> QED
  BY <1>1, <1>5, <1>6 DEF Inv

\* So does a step that the subject does not see.
LEMMA UnseenKeepsInv ==
    ASSUME Inv, TypeOK', UNCHANGED <<observer, ledger>>, UNCHANGED <<Count, Life>>
    PROVE  Inv'
<1>1. Ceiling' = Ceiling /\ Extra' = Extra
  BY DEF observer, ledger, Ceiling, Route, Extra
<1>2. Filled' = Filled
  BY <1>1 DEF Filled
<1> QED
  BY <1>1, <1>2 DEF observer, ledger, Inv, WatchBound

\* Every step keeps the invariant.
LEMMA InvStep == Inv /\ [Next]_vars => Inv'
<1> SUFFICES ASSUME Inv, [Next]_vars PROVE Inv'
  OBVIOUS
<1> DEFINE W == Window[Route(subject)]
<1>a. TypeOK /\ TypeOK'
  BY TypeStep DEF Inv
<1>b. /\ Count \in Nat /\ Life \in Nat /\ watchLeft \in 0..W /\ W \in Nat
      /\ Ceiling \in Nat /\ Count <= Ceiling + 1 /\ Life <= W /\ passed \in Nat
      /\ losses \in Nat /\ (Count > 0 <=> Life > 0) /\ MyKey \in Keys
      /\ watch \in {"before", "on", "over"} /\ (watch = "on" <=> watchLeft > 0)
  BY <1>a, KeysAreOwn, BoundAssumption DEF TypeOK, Count, Life, Ceiling
<1>c. /\ Extra \in Nat
      /\ losses' = losses /\ Ceiling' = Ceiling => Extra' = Extra
      /\ losses' = losses + 1 /\ Ceiling' = Ceiling => Extra' = Extra + Ceiling
  BY <1>b, ExtraGrows
<1>1. ASSUME NEW q \in Requests, Allow(q) PROVE Inv'
  <2>1. Within(Key(q)) \in BOOLEAN
    BY DEF Within
  <2> QED
    BY <1>1, <1>a, <2>1, RunKeepsInv DEF Allow
<1>2. ASSUME NEW q \in Requests, RunUnanswered(q) PROVE Inv'
  BY <1>2, <1>a, RunKeepsInv DEF RunUnanswered
<1>3. ASSUME NEW q \in Requests, AllowError(q) PROVE Inv'
  BY <1>3, <1>a, UnseenKeepsInv
  DEF AllowError, redis, observer, Count, Life, MyKey, Key, Route
<1>4. ASSUME NEW k \in Keys, Lose(k) PROVE Inv'
  <2>1. MyKey' = MyKey /\ Ceiling' = Ceiling /\ passed' = passed
        /\ watch' = watch /\ watchLeft' = watchLeft
    BY <1>4 DEF Lose, observer, MyKey, Ceiling, Key, Route
  <2>2. CASE k # MyKey
    <3>1. UNCHANGED <<Count, Life>> /\ UNCHANGED <<observer, ledger>>
      BY <1>4, <1>a, <1>b, <2>1, <2>2 DEF Lose, Count, Life, TypeOK, ledger
    <3> QED
      BY <1>a, <3>1, UnseenKeepsInv
  <2>3. CASE k = MyKey
    <3>1. Count' = 0 /\ Life' = 0 /\ runs' = 0 /\ losses' = losses + 1 /\ Count > 0
      BY <1>4, <1>a, <1>b, <2>1, <2>3 DEF Lose, Count, Life, TypeOK
    <3>2. Filled' = 0 /\ Extra' = Extra + Ceiling
      BY <1>b, <1>c, <2>1, <3>1 DEF Filled
    <3> HIDE DEF W
    <3>3. Ceiling > 0 => WatchBound
      BY DEF Inv
    <3>4. Ceiling > 0 => WatchBound'
      BY <1>b, <1>c, <2>1, <3>1, <3>2, <3>3 DEF WatchBound, Filled
    <3> QED
      BY <1>a, <2>1, <3>1, <3>2, <3>4 DEF Inv
  <2> QED
    BY <2>2, <2>3
<1>5. CASE Tick
  <2>1. MyKey' = MyKey /\ Ceiling' = Ceiling /\ passed' = passed /\ losses' = losses
    BY <1>5 DEF Tick, MyKey, Ceiling, Key, Route
  <2>2. /\ Count' = IF Life = 1 THEN 0 ELSE Count
        /\ Life' = IF Life > 0 THEN Life - 1 ELSE 0
        /\ runs' = IF Life = 1 THEN 0 ELSE runs
    BY <1>5, <1>b, <2>1 DEF Tick, Count, Life
  <2>3. Extra' = Extra
    BY <1>c, <2>1
  <2>4. runs' = Filled'
    BY <1>b, <2>1, <2>2 DEF Filled, Inv
  <2> HIDE DEF W
  <2>5. Ceiling > 0 => WatchBound
    BY DEF Inv
  <2>6. /\ watchLeft' = IF watch = "on" THEN watchLeft - 1 ELSE watchLeft
        /\ watch' = IF watch = "on" /\ watchLeft = 1 THEN "over" ELSE watch
    BY <1>5 DEF Tick
  <2>7. ASSUME Ceiling > 0 PROVE WatchBound'
    BY <2>7, <1>b, <1>c, <2>1, <2>2, <2>3, <2>5, <2>6 DEF WatchBound, Filled
  <2> QED
    BY <1>a, <2>1, <2>4, <2>7 DEF Inv
<1>6. CASE Watch
  <2>1. /\ MyKey' = MyKey /\ Ceiling' = Ceiling /\ passed' = passed /\ losses' = losses
        /\ Count' = Count /\ Life' = Life /\ runs' = runs
        /\ watch = "before" /\ watch' = "on" /\ watchLeft' = W /\ W > 0
    BY <1>6 DEF Watch, redis, ledger, MyKey, Ceiling, Key, Route, Count, Life
  <2>2. Extra' = Extra
    BY <1>c, <2>1
  <2> HIDE DEF W
  <2>3. ASSUME Ceiling > 0 PROVE WatchBound'
    <3>1. passed = 0
      BY <2>1, <2>3 DEF Inv, WatchBound
    <3> QED
      BY <2>3, <3>1, <1>b, <1>c, <2>1, <2>2 DEF WatchBound, Filled
  <2> QED
    BY <1>a, <2>1, <2>3 DEF Inv, Filled
<1>7. CASE UNCHANGED vars
  BY <1>7, <1>a, UnseenKeepsInv
  DEF vars, redis, observer, Count, Life, MyKey, Key, Route
<1> QED
  BY <1>1, <1>2, <1>3, <1>4, <1>5, <1>6, <1>7 DEF Next, Unlimited

\* Initially nothing has been let through.
LEMMA InvInit == Init => Inv
<1> SUFFICES ASSUME Init PROVE Inv
  OBVIOUS
<1>1. TypeOK
  BY TypeInit
<1>2. MyKey \in Keys /\ Ceiling \in Nat
  BY <1>1, KeysAreOwn DEF Init
<1> QED
  BY <1>1, <1>2 DEF Init, Inv, WatchBound, Filled, Count, Life

\* The invariant holds throughout every behaviour.
LEMMA InvHolds == Spec => []Inv
  BY InvInit, InvStep, PTL DEF Spec

\* A full key refuses only the subject for which the script was run that often:
\* different subjects never share a key, and one subject has one key however its
\* address is spelt.
THEOREM RefusalsAreOwn == Spec => []RefusalIsOwn
<1>1. Inv => RefusalIsOwn
  <2> SUFFICES ASSUME Inv, NEW q \in Requests, Mine(q), Ceiling > 0, ~Within(Key(q))
               PROVE  runs >= Ceiling
    BY DEF RefusalIsOwn
  <2>1. Key(q) = MyKey /\ MyKey \in Keys /\ MyKey[1] = Route(subject) /\ Ceiling \in Nat
    BY KeysAreOwn DEF Inv
  <2> QED
    BY <2>1 DEF Inv, TypeOK, Within, Filled, Count, Ceiling
<1> QED
  BY <1>1, InvHolds, PTL

\* In no interval of one window are two limits let through, plus one for each
\* loss of the key, for all limits and windows.
THEOREM AdmissionsAreBounded == Spec => []AdmissionIsBounded
<1>1. Inv => AdmissionIsBounded
  <2> SUFFICES ASSUME Inv, Ceiling > 0 PROVE passed < (2 + losses) * Ceiling
    BY DEF AdmissionIsBounded
  <2>1. Ceiling \in Nat /\ losses \in Nat /\ passed \in Nat /\ Filled \in 0..Ceiling
        /\ Life \in Nat /\ watchLeft \in Nat /\ watch \in {"before", "on", "over"}
    BY KeysAreOwn, BoundAssumption DEF Inv, TypeOK, Filled, Count, Life
  <2>2. Extra \in Nat /\ (2 + losses) * Ceiling = 2 * Ceiling + Extra
    BY <2>1, ExtraGrows
  <2>3. passed < 2 * Ceiling + Extra
    BY <2>1, <2>2 DEF Inv, WatchBound
  <2> QED
    BY <2>2, <2>3
<1> QED
  BY <1>1, InvHolds, PTL

-----------------------------------------------------------------------------
(* Windows *)

\* The script gives a time to live to a new key only, and a key is new when it
\* has none.
LEMMA WindowStep ==
    ASSUME TypeOK, [Next]_vars, NEW k \in Keys, life[k] > 0, life'[k] > 0
    PROVE  life'[k] <= life[k] /\ count'[k] >= count[k]
<1> DEFINE Keeps == life'[k] <= life[k] /\ count'[k] >= count[k]
<1>0. count[k] \in Nat /\ life[k] \in Nat /\ count[k] > 0
  BY DEF TypeOK
<1>1. ASSUME NEW j \in Keys, Run(j) PROVE Keeps
  BY <1>0, <1>1 DEF Run, TypeOK
<1>2. ASSUME NEW j \in Keys, Lose(j) PROVE Keeps
  BY <1>0, <1>2 DEF Lose, TypeOK
<1>3. CASE Tick
  BY <1>0, <1>3 DEF Tick
<1>4. CASE UNCHANGED redis
  BY <1>0, <1>4 DEF redis
<1>5. ASSUME NEW q \in Requests, Allow(q) \/ RunUnanswered(q) PROVE Keeps
  BY <1>1, <1>5, KeysAreOwn DEF Allow, RunUnanswered
<1> QED
  BY <1>2, <1>3, <1>4, <1>5 DEF Next, Unlimited, AllowError, Watch, vars

\* A window ends when it was to end, however many requests come meanwhile.
THEOREM WindowsEnd == Spec => WindowsAreNotRenewed
<1>1. TypeOK /\ [Next]_vars =>
        [\A k \in Keys : life[k] > 0 /\ life'[k] > 0 =>
             life'[k] <= life[k] /\ count'[k] >= count[k]]_vars
  BY WindowStep
<1> QED
  BY <1>1, TypeCorrect, PTL DEF Spec, WindowsAreNotRenewed
=============================================================================
