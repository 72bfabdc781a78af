-------------------------- MODULE RedisStoreProofs --------------------------
(***************************************************************************)
(* Proofs about RedisStore: a list without an expiry is one whose EXPIRE   *)
(* is due or was lost, or one that a late LPUSH made anew; no measurement  *)
(* is dropped early; and a query misses nothing that is there throughout,  *)
(* for every setting of the rotation and the time to live, every length of *)
(* a measurement and every window.  The first two hold whatever the clock  *)
(* is set back by, and their invariant bounds each time that is stored by  *)
(* the clock; the third needs that times are in order.                     *)
(***************************************************************************)
EXTENDS RedisStore, SequenceTheorems, FiniteSetTheorems, TLAPS

-----------------------------------------------------------------------------
(***************************************************************************)
(* The inductive invariant.                                                *)
(***************************************************************************)
Ttl      == redisRecordTTL * SECOND
Rotation == (redisRecordRotation + 1) * SECOND

\* By how much the clock was set back.
Behind == IF stepped THEN StepBack ELSE 0

Clock == now \in Int /\ stepped \in BOOLEAN /\ now + Behind >= Start

\* The latest time that the clock may have shown, and any such time.
Latest == now + Behind
Stamped(t, latest) == t \in Nat /\ t + StepBack >= Start /\ t <= latest

\* The oldest measurement that is not stored yet.
Oldest == IF queue = <<>> THEN filling ELSE queue[1]

Waiting ==
    /\ filling \in Seq(Nat) /\ queue \in Seq(Seq(Nat))
    /\ filling # <<>> => Stamped(filling[1], Latest)
    /\ \A i \in 1 .. Len(queue) : queue[i] # <<>> /\ Stamped(queue[i][1], Latest)

Current ==
    /\ daemon \in {"flush", "ready", "expire", "down"} /\ connected \in BOOLEAN
    /\ key \in Nat /\ key = lastRotation /\ key <= Latest
    /\ daemon = "flush" => key = Epoch

\* The time to live of a list counts from its key, and its measurements were
\* taken until a rotation after it.
Stored ==
    /\ lists = [k \in DOMAIN lists |->
                    [items |-> lists[k].items, expires |-> lists[k].expires]]
    /\ \A k \in DOMAIN lists :
        /\ k \in Nat /\ lists[k].expires \in Int
        /\ lists[k].expires # Never => lists[k].expires + Behind >= k + Ttl
        /\ \A m \in lists[k].items : m[1] \in Int /\ m[1] < k + Rotation

Immortal == {k \in DOMAIN lists : lists[k].expires = Never}

\* A list whose first measurement was not pushed late lives for ever only
\* between LPUSH and EXPIRE, or if the connection was lost in between.
Expiring ==
    /\ \A j, k \in Immortal \ late : j = k
    /\ connected /\ daemon = "ready" => Immortal \subseteq late
    /\ connected /\ daemon = "expire" => Immortal \subseteq late \cup {key}

\* If the current list is gone, its time to live went by.
Gone ==
    (connected /\ daemon \in {"ready", "expire"} /\ key \notin DOMAIN lists /\ key # Epoch)
        => Latest > key + Ttl

Inv == Clock /\ Waiting /\ Current /\ Stored /\ Expiring /\ Gone

-----------------------------------------------------------------------------
(***************************************************************************)
(* Times.                                                                  *)
(***************************************************************************)
\* Products grow with their factor.
LEMMA Grows ==
    ASSUME NEW s \in Nat, NEW m \in Int, NEW n \in Int, m <= n
    PROVE  m * s <= n * s
<1>1. PICK k \in Nat : n = m + k
  <2>1. n - m \in Nat /\ n = m + (n - m)
    OBVIOUS
  <2> QED
    BY <2>1
<1>2. n * s = m * s + k * s
  BY <1>1
<1>3. k * s \in Nat /\ m * s \in Int
  BY <1>1
<1> QED
  BY <1>2, <1>3

\* What the assumptions say of the spans.
LEMMA Spans ==
    /\ Ttl \in Nat /\ Rotation \in Nat \ {0}
    /\ StepBack \in Nat /\ Start \in Nat
    /\ Start - StepBack >= Rotation
<1>1. /\ SECOND \in Nat \ {0} /\ StepBack \in Nat /\ Start \in Nat
      /\ redisRecordTTL \in Nat /\ redisRecordRotation \in Nat
  BY ClockAssumption, TtlAssumption
<1>2. Ttl \in Nat /\ Rotation \in Nat
  BY <1>1 DEF Ttl, Rotation
<1>3. Rotation # 0
  <2>1. 1 <= redisRecordRotation + 1 /\ redisRecordRotation + 1 \in Int
    BY <1>1
  <2>2. 1 * SECOND <= (redisRecordRotation + 1) * SECOND
    BY <1>1, <2>1, Grows
  <2> QED
    BY <1>1, <2>2 DEF Rotation
<1>4. Start - StepBack >= Rotation
  BY EpochAssumption DEF Rotation
<1> QED
  BY <1>1, <1>2, <1>3, <1>4

\* How long a measurement is kept.
LEMMA KeptFor ==
    ASSUME NEW m, m[1] \in Int
    PROVE  KeptUntil(m) = m[1] + (Ttl - Rotation) - Behind
<1>1. (redisRecordTTL - redisRecordRotation - 1) * SECOND = Ttl - Rotation
  BY ClockAssumption, TtlAssumption DEF Ttl, Rotation
<1> QED
  BY <1>1 DEF KeptUntil, Behind

\* A difference in whole seconds is more than redis.rotation from one second
\* more on.
LEMMA Rotates ==
    ASSUME NEW a \in Int, NEW b \in Int
    PROVE  /\ Difference(a, b) > redisRecordRotation <=> a - b >= Rotation
           /\ Difference(a, b) <= redisRecordRotation <=> a - b < Rotation
<1> DEFINE c == a - b
           d == c \div SECOND
           r == c % SECOND
           n == redisRecordRotation
           p == d * SECOND
<1>1. SECOND \in Nat \ {0} /\ n \in Nat /\ Rotation \in Nat
  BY ClockAssumption, TtlAssumption, Spans
<1>2. c \in Int
  OBVIOUS
<1>3. Difference(a, b) = d
  BY DEF Difference
<1>4. Rotation = (n + 1) * SECOND
  BY DEF Rotation
<1> HIDE DEF c, n
<1>5. d \in Int /\ r \in 0 .. SECOND - 1 /\ c = SECOND * d + r
  BY <1>1, <1>2
<1> HIDE DEF d, r
<1>6. p \in Int /\ c = p + r /\ (d + 1) * SECOND = p + SECOND
  BY <1>1, <1>5
<1>7. n + 1 <= d => Rotation <= p
  <2>1. n + 1 \in Int
    BY <1>1
  <2> QED
    BY <1>1, <1>4, <1>5, <2>1, Grows
<1>8. d + 1 <= n + 1 => p + SECOND <= Rotation
  <2>1. n + 1 \in Int /\ d + 1 \in Int
    BY <1>1, <1>5
  <2>2. d + 1 <= n + 1 => (d + 1) * SECOND <= (n + 1) * SECOND
    BY <1>1, <2>1, Grows
  <2> QED
    BY <1>4, <1>6, <2>2
<1> HIDE DEF p
<1>9. (d > n <=> c >= Rotation) /\ (d <= n <=> c < Rotation)
  BY <1>1, <1>2, <1>5, <1>6, <1>7, <1>8
<1> QED
  BY <1>3, <1>9 DEF c, n

\* How far the clock was set back.
LEMMA Shift ==
    /\ Behind \in Nat /\ Behind <= StepBack
    /\ Behind' \in Nat /\ Behind' <= StepBack
BY Spans DEF Behind

\* A clock that runs on or is set back still covers all times it showed.
LEMMA Later ==
    ASSUME Clock, ((now' = now + 1 \/ now' = now) /\ stepped' = stepped) \/ SetBack
    PROVE  /\ Clock'
           /\ Latest' >= Latest
           /\ Behind' >= Behind
           /\ \A s : Stamped(s, Latest) => Stamped(s, Latest')
<1>1. now \in Int /\ stepped \in BOOLEAN /\ now + Behind >= Start
  BY DEF Clock
<1>2. /\ now' \in Int /\ stepped' \in BOOLEAN /\ now' + Behind' >= Start
      /\ Latest' >= Latest
      /\ Behind' >= Behind
  <2>1. CASE (now' = now + 1 \/ now' = now) /\ stepped' = stepped
    <3>1. Behind' = Behind
      BY <2>1 DEF Behind
    <3> QED
      BY <1>1, <2>1, <3>1, Spans, Shift DEF Latest
  <2>2. CASE SetBack
    <3>1. stepped = FALSE /\ stepped' = TRUE /\ now' = now - StepBack
      BY <1>1, <2>2 DEF SetBack
    <3>2. Behind = 0 /\ Behind' = StepBack
      BY <3>1, Spans DEF Behind
    <3> QED
      BY <1>1, <3>1, <3>2, Spans DEF Latest
  <2> QED
    BY <2>1, <2>2
<1>3. ASSUME NEW s, Stamped(s, Latest) PROVE Stamped(s, Latest')
  <2>1. Latest \in Int /\ Latest' \in Int
    <3>1. now \in Int /\ Behind \in Int /\ now' \in Int /\ Behind' \in Int
      BY <1>1, <1>2, Shift
    <3> QED
      BY <3>1 DEF Latest
  <2>2. Latest' >= Latest
    BY <1>2
  <2> QED
    BY <1>3, <2>1, <2>2 DEF Stamped
<1> QED
  BY <1>2, <1>3 DEF Clock

\* A stamp is late enough for the first list of a daemon.
LEMMA StampLate ==
    ASSUME NEW s, NEW l, Stamped(s, l)
    PROVE  s \in Nat /\ s >= Rotation
BY Spans DEF Stamped

\* The oldest measurement is a stamped one.
LEMMA OldestStamped ==
    ASSUME Waiting, Oldest # <<>>
    PROVE  Stamped(Oldest[1], Latest)
<1>1. CASE queue = <<>>
  BY <1>1 DEF Waiting, Oldest
<1>2. CASE queue # <<>>
  <2>1. queue \in Seq(Seq(Nat))
    BY DEF Waiting
  <2>2. 1 \in 1 .. Len(queue)
    BY <1>2, <2>1
  <2> QED
    BY <1>2, <2>2 DEF Waiting, Oldest
<1> QED
  BY <1>1, <1>2

\* The clock is not before the epoch.
LEMMA ClockLate ==
    ASSUME Clock
    PROVE  now \in Nat
BY Spans, Shift DEF Clock

\* The time of a cycle that is read.
LEMMA NextStamp ==
    ASSUME Clock, now' = now + 1, stepped' = stepped
    PROVE  Stamped(now', Latest')
<1>1. now' + Behind' >= Start /\ now' \in Nat
  BY Later, ClockLate DEF Clock
<1>2. Behind' \in Nat /\ Behind' <= StepBack
  BY Shift
<1>3. now' + StepBack >= Start
  BY <1>1, <1>2, Spans
<1>4. now' <= Latest'
  BY <1>1, <1>2 DEF Latest
<1> QED
  BY <1>1, <1>3, <1>4 DEF Stamped

\* What waits, when nothing is read or stored.
LEMMA WaitingRests ==
    ASSUME Clock, Waiting, UNCHANGED readerVars,
           ((now' = now + 1 \/ now' = now) /\ stepped' = stepped) \/ SetBack
    PROVE  Waiting' /\ Oldest' = Oldest
<1>1. filling' = filling /\ queue' = queue
  BY DEF readerVars
<1>2. \A s : Stamped(s, Latest) => Stamped(s, Latest')
  BY Later
<1>3. Oldest' = Oldest
  BY <1>1 DEF Oldest
<1>4. /\ filling' \in Seq(Nat) /\ queue' \in Seq(Seq(Nat))
      /\ filling' # <<>> => Stamped(filling'[1], Latest')
      /\ \A i \in 1 .. Len(queue') : queue'[i] # <<>> /\ Stamped(queue'[i][1], Latest')
  BY <1>1, <1>2 DEF Waiting
<1> QED
  BY <1>3, <1>4 DEF Waiting

\* What waits, when a cycle is read.
LEMMA WaitingReads ==
    ASSUME Clock, Waiting, ReadCycle
    PROVE  /\ Waiting'
           /\ Oldest # <<>> => Oldest'[1] = Oldest[1]
           /\ Oldest = <<>> => Oldest'[1] = now'
<1> DEFINE m == Append(filling, now')
<1>1. now' = now + 1 /\ stepped' = stepped
  BY DEF ReadCycle, Advance
<1>2. now' \in Nat
  BY <1>1, ClockLate
<1>3. \A s : Stamped(s, Latest) => Stamped(s, Latest')
  BY <1>1, Later
<1>4. Stamped(now', Latest')
  BY <1>1, NextStamp
<1>5. filling \in Seq(Nat) /\ queue \in Seq(Seq(Nat)) /\ (filling # <<>> => Stamped(filling[1], Latest))
  BY DEF Waiting
<1>6. \A i \in 1 .. Len(queue) : queue[i] # <<>> /\ Stamped(queue[i][1], Latest)
  BY DEF Waiting
<1>7. /\ m \in Seq(Nat) /\ m # <<>>
      /\ filling # <<>> => m[1] = filling[1]
      /\ filling = <<>> => m[1] = now'
  <2>1. filling \in Seq(Nat) /\ Len(filling) \in Nat /\ (filling = <<>> <=> Len(filling) = 0)
    BY <1>5
  <2>2. m \in Seq(Nat) /\ Len(m) = Len(filling) + 1
    BY <1>2, <2>1
  <2>3. \A i \in 1 .. Len(filling) : m[i] = filling[i]
    BY <1>2, <2>1
  <2>4. m[Len(filling) + 1] = now'
    BY <1>2, <2>1
  <2> HIDE DEF m
  <2>5. m # <<>>
    BY <2>1, <2>2
  <2>6. filling # <<>> => m[1] = filling[1]
    BY <2>1, <2>3
  <2>7. filling = <<>> => m[1] = now'
    BY <2>1, <2>4
  <2> QED
    BY <2>2, <2>5, <2>6, <2>7
<1>8. Stamped(m[1], Latest')
  <2>1. CASE filling = <<>>
    BY <1>4, <1>7, <2>1
  <2>2. CASE filling # <<>>
    <3>1. Stamped(filling[1], Latest)
      BY <1>5, <2>2
    <3>2. m[1] = filling[1]
      BY <1>7, <2>2
    <3>3. Stamped(m[1], Latest)
      BY <3>1, <3>2
    <3> HIDE DEF m
    <3> QED
      BY <1>3, <3>1, <3>2
  <2> QED
    BY <2>1, <2>2
<1>9. \/ filling' = m /\ queue' = queue
      \/ filling' = <<>> /\ queue' = Append(queue, m)
  BY DEF ReadCycle
<1> HIDE DEF m
<1>10. CASE filling' = m /\ queue' = queue
  <2>1. Waiting'
    BY <1>3, <1>5, <1>6, <1>7, <1>8, <1>10 DEF Waiting
  <2>2. CASE queue = <<>>
    <3>1. Oldest = filling /\ Oldest' = m
      BY <1>10, <2>2 DEF Oldest
    <3> QED
      BY <1>7, <2>1, <3>1
  <2>3. CASE queue # <<>>
    <3>1. Oldest' = Oldest /\ Oldest # <<>>
      <4>1. Oldest' = queue[1] /\ Oldest = queue[1]
        BY <1>10, <2>3 DEF Oldest
      <4>2. 1 \in 1 .. Len(queue)
        BY <1>5, <2>3
      <4> QED
        BY <1>6, <4>1, <4>2
    <3> QED
      BY <2>1, <3>1
  <2> QED
    BY <2>2, <2>3
<1>11. CASE filling' = <<>> /\ queue' = Append(queue, m)
  <2>1. Len(queue) \in Nat
    BY <1>5
  <2>2. queue' \in Seq(Seq(Nat)) /\ Len(queue') = Len(queue) + 1
    BY <1>5, <1>7, <1>11
  <2>3. ASSUME NEW i \in 1 .. Len(queue')
        PROVE  queue'[i] = IF i = Len(queue) + 1 THEN m ELSE queue[i]
    BY <1>5, <1>7, <1>11, <2>1, <2>2
  <2>4. ASSUME NEW i \in 1 .. Len(queue')
        PROVE  queue'[i] # <<>> /\ Stamped(queue'[i][1], Latest')
    <3>1. CASE i = Len(queue) + 1
      BY <1>7, <1>8, <2>3, <3>1
    <3>2. CASE i # Len(queue) + 1
      <4>1. i \in 1 .. Len(queue) /\ queue'[i] = queue[i]
        BY <2>1, <2>2, <2>3, <3>2
      <4>2. queue[i] # <<>> /\ Stamped(queue[i][1], Latest)
        BY <1>6, <4>1
      <4> QED
        BY <1>3, <4>1, <4>2
    <3> QED
      BY <3>1, <3>2
  <2>5. Waiting'
    <3>1. filling' \in Seq(Nat) /\ (filling' # <<>> => Stamped(filling'[1], Latest'))
      BY <1>11
    <3>2. \A i \in 1 .. Len(queue') : queue'[i] # <<>> /\ Stamped(queue'[i][1], Latest')
      BY <2>4
    <3>3. queue' \in Seq(Seq(Nat))
      BY <2>2
    <3> QED
      BY <3>1, <3>2, <3>3, Zenon DEF Waiting
  <2>6. queue' # <<>> /\ Oldest' = queue'[1]
    BY <2>1, <2>2 DEF Oldest
  <2>7. queue'[1] = IF queue = <<>> THEN m ELSE queue[1]
    <3>1. 1 \in 1 .. Len(queue')
      BY <2>1, <2>2
    <3>2. queue = <<>> <=> Len(queue) = 0
      BY <1>5
    <3> QED
      BY <2>1, <2>3, <3>1, <3>2
  <2>8. CASE queue = <<>>
    BY <1>7, <2>5, <2>6, <2>7, <2>8 DEF Oldest
  <2>9. CASE queue # <<>>
    <3>1. queue[1] # <<>>
      BY <1>6, <2>1, <2>9, <1>5
    <3> QED
      BY <2>5, <2>6, <2>7, <2>9, <3>1 DEF Oldest
  <2> QED
    BY <2>8, <2>9
<1> QED
  BY <1>9, <1>10, <1>11

-----------------------------------------------------------------------------
(***************************************************************************)
(* The invariant holds at first and is kept by every action.               *)
(***************************************************************************)
\* Redis is empty and nothing was read.
LEMMA InitInv ==
    ASSUME Init
    PROVE  Inv
<1>1. /\ now = Start /\ stepped = FALSE /\ filling = <<>> /\ queue = <<>>
      /\ daemon = "flush" /\ connected = TRUE
      /\ lastRotation = 0 /\ key = 0 /\ lists = <<>>
  BY DEF Init, Epoch
<1>2. Behind = 0
  BY <1>1 DEF Behind
<1>3. Clock
  <2>1. now \in Int /\ now + Behind >= Start
    BY <1>1, <1>2, Spans
  <2>2. stepped \in BOOLEAN
    BY <1>1
  <2> QED
    BY <2>1, <2>2 DEF Clock
<1>4. Waiting
  BY <1>1 DEF Waiting
<1>5. Current
  BY <1>1, <1>2, Spans DEF Current, Latest, Epoch
<1>6. DOMAIN lists = {}
  BY <1>1
<1>7. Stored /\ Expiring /\ Gone
  <2>1. lists = [k \in DOMAIN lists |-> [items |-> lists[k].items, expires |-> lists[k].expires]]
    BY <1>1, <1>6
  <2> QED
    BY <1>1, <1>6, <2>1 DEF Stored, Expiring, Immortal, Gone
<1> QED
  BY <1>3, <1>4, <1>5, <1>7 DEF Inv

\* The clock runs on and Redis drops lists whose time to live went by.
LEMMA AdvanceInv ==
    ASSUME Inv, Advance, Waiting'
    PROVE  Inv'
<1>1. Clock /\ Waiting /\ Current /\ Stored /\ Expiring /\ Gone
  BY DEF Inv
<1>2. /\ now' = now + 1 /\ stepped' = stepped /\ daemon' = daemon
      /\ connected' = connected /\ key' = key /\ lastRotation' = lastRotation /\ late' = late
  BY DEF Advance, daemonVars
<1>3. /\ now \in Nat /\ now' \in Nat /\ now < now'
  BY <1>1, <1>2, ClockLate
<1>4. Behind' = Behind /\ Behind \in Nat
  BY <1>2, Shift DEF Behind
<1>5. Clock' /\ Latest' >= Latest
  BY <1>1, <1>2, Later
<1> DEFINE Kept == {k \in DOMAIN lists : lists[k].expires = Never \/ lists[k].expires >= now'}
<1>6. DOMAIN lists' = Kept /\ lists' = [k \in Kept |-> lists[k]]
  BY DEF Advance, Restrict
<1>7. \A k \in DOMAIN lists' : k \in DOMAIN lists /\ lists'[k] = lists[k]
  BY <1>6
<1>8. Current'
  <2>1. Latest \in Int /\ Latest' \in Int
    BY <1>3, <1>4 DEF Latest
  <2> QED
    BY <1>1, <1>2, <1>5, <2>1 DEF Current
<1>9. Stored'
  <2>1. lists' = [k \in DOMAIN lists' |-> [items |-> lists'[k].items, expires |-> lists'[k].expires]]
    <3>1. \A k \in DOMAIN lists : lists[k] = [items |-> lists[k].items, expires |-> lists[k].expires]
      BY <1>1 DEF Stored
    <3>2. \A k \in Kept : k \in DOMAIN lists
      OBVIOUS
    <3> HIDE DEF Kept
    <3> QED
      BY <1>6, <3>1, <3>2
  <2>2. \A k \in DOMAIN lists' :
            /\ k \in Nat /\ lists'[k].expires \in Int
            /\ lists'[k].expires # Never => lists'[k].expires + Behind' >= k + Ttl
            /\ \A m \in lists'[k].items : m[1] \in Int /\ m[1] < k + Rotation
    BY <1>1, <1>4, <1>7 DEF Stored
  <2> QED
    BY <2>1, <2>2 DEF Stored, Ttl, Rotation
<1>10. Expiring'
  <2>1. Immortal' \subseteq Immortal
    BY <1>7 DEF Immortal
  <2> QED
    BY <1>1, <1>2, <2>1 DEF Expiring
<1>11. ASSUME connected, daemon \in {"ready", "expire"}, key \notin DOMAIN lists', key # Epoch
       PROVE  Latest' > key + Ttl
  <2>1. key \in Nat /\ Ttl \in Nat /\ Latest \in Int /\ Latest' = now' + Behind
    BY <1>1, <1>3, <1>4, Spans DEF Current, Latest
  <2>2. CASE key \notin DOMAIN lists
    <3>1. Latest > key + Ttl
      BY <1>1, <1>11, <2>2 DEF Gone
    <3> DEFINE l == Latest'
    <3>2. l \in Int /\ l >= Latest
      <4>1. Latest' \in Int
        BY <1>3, <1>4, <2>1
      <4> QED
        BY <1>5, <4>1
    <3> HIDE DEF l
    <3>3. l > key + Ttl
      BY <2>1, <3>1, <3>2
    <3> QED
      BY <3>3 DEF l
  <2>3. CASE key \in DOMAIN lists
    <3> DEFINE e == lists[key].expires
               n == now'
    <3>1. e # Never /\ ~(e >= n)
      BY <1>6, <1>11, <2>3
    <3>2. e \in Int /\ e + Behind >= key + Ttl /\ n \in Int
      BY <1>1, <1>3, <2>3, <3>1 DEF Stored
    <3> HIDE DEF e, n
    <3>3. n + Behind > key + Ttl
      BY <1>4, <2>1, <3>1, <3>2
    <3> QED
      BY <2>1, <3>3 DEF n
  <2> QED
    BY <2>2, <2>3
<1>12. Gone'
  BY <1>2, <1>11 DEF Gone, Ttl, Epoch
<1> QED
  BY <1>5, <1>8, <1>9, <1>10, <1>12 DEF Inv

\* The clock is set back: every bound counts with that.
LEMMA SetBackInv ==
    ASSUME Inv, SetBack
    PROVE  Inv'
<1>1. Clock /\ Waiting /\ Current /\ Stored /\ Expiring /\ Gone
  BY DEF Inv
<1>2. /\ UNCHANGED readerVars /\ daemon' = daemon /\ key' = key
      /\ connected' = connected /\ lastRotation' = lastRotation /\ late' = late /\ lists' = lists
  BY DEF SetBack, daemonVars
<1>3. Clock' /\ Latest' >= Latest /\ Behind' >= Behind
  BY <1>1, Later
<1>4. Waiting' /\ Oldest' = Oldest
  BY <1>1, <1>2, WaitingRests
<1>5. now \in Int /\ now' \in Int /\ Behind \in Nat /\ Behind' \in Nat
  BY <1>1, <1>3, Shift DEF Clock
<1>6. Latest \in Int /\ Latest' \in Int
  BY <1>5 DEF Latest
<1>7. Current'
  BY <1>1, <1>2, <1>3, <1>6 DEF Current
<1>8. Stored'
  <2>1. \A k \in DOMAIN lists :
            /\ k \in Nat /\ lists[k].expires \in Int
            /\ lists[k].expires # Never => lists[k].expires + Behind' >= k + Ttl
            /\ \A m \in lists[k].items : m[1] \in Int /\ m[1] < k + Rotation
    <3>1. TAKE k \in DOMAIN lists
    <3>2. /\ k \in Nat /\ lists[k].expires \in Int
          /\ lists[k].expires # Never => lists[k].expires + Behind >= k + Ttl
          /\ \A m \in lists[k].items : m[1] \in Int /\ m[1] < k + Rotation
      BY <1>1 DEF Stored
    <3> DEFINE e == lists[k].expires
    <3>3. e \in Int /\ k \in Nat /\ (e # Never => e + Behind >= k + Ttl)
      BY <3>2
    <3> HIDE DEF e
    <3>4. e # Never => e + Behind' >= k + Ttl
      BY <1>3, <1>5, <3>3, Spans
    <3> QED
      BY <3>2, <3>4 DEF e
  <2>2. lists = [k \in DOMAIN lists |-> [items |-> lists[k].items, expires |-> lists[k].expires]]
    BY <1>1 DEF Stored
  <2> QED
    BY <1>2, <2>1, <2>2 DEF Stored, Ttl, Rotation
<1>9. Expiring'
  BY <1>1, <1>2 DEF Expiring, Immortal
<1>10. Gone'
  <2>1. key \in Nat /\ Ttl \in Nat
    BY <1>1, Spans DEF Current
  <2>2. Latest > key + Ttl => Latest' > key + Ttl
    BY <1>3, <1>6, <2>1
  <2> QED
    BY <1>1, <1>2, <2>2 DEF Gone, Ttl, Epoch
<1> QED
  BY <1>3, <1>4, <1>7, <1>8, <1>9, <1>10 DEF Inv

\* FLUSHALL: nothing is stored, and the first measurement rotates.
LEMMA FlushAllInv ==
    ASSUME Inv, FlushAll
    PROVE  Inv'
<1>1. Clock /\ Waiting /\ Current
  BY DEF Inv
<1>2. /\ UNCHANGED readerVars /\ now' = now /\ stepped' = stepped /\ daemon' = "ready"
      /\ connected' = connected /\ key' = key /\ lastRotation' = lastRotation
      /\ lists' = <<>> /\ late' = {} /\ daemon = "flush"
  BY DEF FlushAll
<1>3. Clock'
  BY <1>1, <1>2, Later
<1>4. Waiting' /\ Oldest' = Oldest
  BY <1>1, <1>2, WaitingRests
<1>5. Behind' = Behind /\ Latest' = Latest
  BY <1>2 DEF Behind, Latest
<1>6. Current' /\ key = Epoch
  BY <1>1, <1>2, <1>5 DEF Current
<1>7. /\ DOMAIN lists' = {}
      /\ lists' = [k \in DOMAIN lists' |-> [items |-> lists'[k].items, expires |-> lists'[k].expires]]
  BY <1>2
<1>8. Stored' /\ Expiring'
  BY <1>2, <1>7 DEF Stored, Expiring, Immortal
<1>9. Gone'
  BY <1>2, <1>6 DEF Gone, Epoch
<1> QED
  BY <1>3, <1>4, <1>6, <1>8, <1>9 DEF Inv

\* What waits, when the oldest measurement is stored.
LEMMA WaitingStores ==
    ASSUME Waiting, queue # <<>>, queue' = Tail(queue), filling' = filling,
           now' = now, stepped' = stepped
    PROVE  /\ Waiting'
           /\ Head(queue) = Oldest /\ Oldest # <<>> /\ Stamped(Oldest[1], Latest)
<1>1. /\ filling \in Seq(Nat) /\ queue \in Seq(Seq(Nat))
      /\ filling # <<>> => Stamped(filling[1], Latest)
      /\ \A i \in 1 .. Len(queue) : queue[i] # <<>> /\ Stamped(queue[i][1], Latest)
  BY DEF Waiting
<1>2. Latest' = Latest
  BY DEF Latest, Behind
<1>3. Len(queue) \in Nat /\ Len(queue) > 0
  BY <1>1
<1>4. /\ queue' \in Seq(Seq(Nat)) /\ Len(queue') = Len(queue) - 1
      /\ \A i \in 1 .. Len(queue') : queue'[i] = queue[i + 1]
  BY <1>1, <1>3
<1>5. \A i \in 1 .. Len(queue') : queue'[i] # <<>> /\ Stamped(queue'[i][1], Latest)
  <2>1. TAKE i \in 1 .. Len(queue')
  <2>2. i + 1 \in 1 .. Len(queue) /\ queue'[i] = queue[i + 1]
    BY <1>3, <1>4
  <2> QED
    BY <1>1, <2>2
<1>6. Waiting'
  BY <1>1, <1>2, <1>4, <1>5 DEF Waiting
<1>7. Head(queue) = queue[1] /\ Oldest = queue[1] /\ 1 \in 1 .. Len(queue)
  BY <1>1, <1>3 DEF Oldest
<1> QED
  BY <1>1, <1>6, <1>7

\* The lists after a push, which is to a list that is there or a new one.
LEMMA PushedLists ==
    ASSUME NEW k \in Nat, NEW m, Stored, m[1] \in Int, m[1] < k + Rotation,
           lists' = Pushed(k, m), Behind' = Behind
    PROVE  /\ Stored'
           /\ k \in DOMAIN lists'
           /\ Immortal' \subseteq Immortal \cup {k}
           /\ k \in DOMAIN lists => Immortal' = Immortal
           /\ \A j \in DOMAIN lists : j \in DOMAIN lists' /\ lists[j].items \subseteq lists'[j].items
<1> DEFINE list == IF k \in DOMAIN lists THEN lists[k] ELSE [items |-> {}, expires |-> Never]
<1>1. lists' = [j \in DOMAIN lists \cup {k} |->
                    IF j = k THEN [items |-> list.items \cup {m}, expires |-> list.expires]
                    ELSE lists[j]]
  BY DEF Pushed
<1>2. DOMAIN lists' = DOMAIN lists \cup {k}
  BY <1>1
<1>3. lists'[k].items = list.items \cup {m} /\ lists'[k].expires = list.expires
  BY <1>1
<1>4. \A j \in DOMAIN lists : j # k => lists'[j] = lists[j]
  BY <1>1
<1>5. k \in DOMAIN lists => list = lists[k]
  OBVIOUS
<1>6. k \notin DOMAIN lists => list.items = {} /\ list.expires = Never
  OBVIOUS
<1> HIDE DEF list
<1>7. \A j \in DOMAIN lists :
          /\ j \in Nat /\ lists[j].expires \in Int
          /\ lists[j].expires # Never => lists[j].expires + Behind >= j + Ttl
          /\ \A n \in lists[j].items : n[1] \in Int /\ n[1] < j + Rotation
  BY DEF Stored
<1>8. ASSUME NEW j \in DOMAIN lists'
      PROVE  /\ j \in Nat /\ lists'[j].expires \in Int
             /\ lists'[j].expires # Never => lists'[j].expires + Behind >= j + Ttl
             /\ \A n \in lists'[j].items : n[1] \in Int /\ n[1] < j + Rotation
  <2>1. CASE j = k
    <3>1. CASE k \in DOMAIN lists
      BY <1>3, <1>5, <1>7, <2>1, <3>1
    <3>2. CASE k \notin DOMAIN lists
      BY <1>3, <1>6, <2>1, <3>2 DEF Never
    <3> QED
      BY <3>1, <3>2
  <2>2. CASE j # k
    BY <1>2, <1>4, <1>7, <2>2
  <2> QED
    BY <2>1, <2>2
<1>9. Stored'
  <2>1. \A j \in DOMAIN lists : lists[j] = [items |-> lists[j].items, expires |-> lists[j].expires]
    BY DEF Stored
  <2>2. lists' = [j \in DOMAIN lists' |->
                      [items |-> lists'[j].items, expires |-> lists'[j].expires]]
    BY <1>1, <1>2, <2>1
  <2> QED
    BY <1>8, <2>2 DEF Stored, Ttl, Rotation
<1>10. Immortal' \subseteq Immortal \cup {k}
  BY <1>2, <1>4 DEF Immortal
<1>11. k \in DOMAIN lists => Immortal' = Immortal
  BY <1>2, <1>3, <1>4, <1>5 DEF Immortal
<1>12. \A j \in DOMAIN lists : j \in DOMAIN lists' /\ lists[j].items \subseteq lists'[j].items
  BY <1>2, <1>3, <1>4, <1>5
<1> QED
  BY <1>2, <1>9, <1>10, <1>11, <1>12

\* The lists after a push that the connection may have lost.
LEMMA SentLists ==
    ASSUME NEW k \in Nat, NEW m, Stored, connected \in BOOLEAN, m[1] \in Int,
           m[1] < k + Rotation, lists' = IF connected THEN Pushed(k, m) ELSE lists,
           Behind' = Behind
    PROVE  /\ Stored'
           /\ connected => k \in DOMAIN lists'
           /\ ~connected => lists' = lists /\ Immortal' = Immortal
           /\ Immortal' \subseteq Immortal \cup {k}
           /\ k \in DOMAIN lists => Immortal' = Immortal
           /\ \A j \in DOMAIN lists : j \in DOMAIN lists' /\ lists[j].items \subseteq lists'[j].items
<1>1. CASE connected
  <2>1. lists' = Pushed(k, m)
    BY <1>1
  <2> QED
    BY <1>1, <2>1, PushedLists
<1>2. CASE ~connected
  <2>1. lists' = lists
    BY <1>2
  <2>2. Stored' /\ Immortal' = Immortal
    BY <2>1 DEF Stored, Immortal, Ttl, Rotation
  <2> QED
    BY <1>2, <2>1, <2>2
<1> QED
  BY <1>1, <1>2

\* LPUSH: into the current list, or into a new one, which lives for ever until
\* EXPIRE.  If the current list is gone, the measurement is late.
LEMMA LPushInv ==
    ASSUME Inv, LPush
    PROVE  /\ Inv'
           /\ \A j \in DOMAIN lists : j \in DOMAIN lists' /\ lists[j].items \subseteq lists'[j].items
<1>1. Clock /\ Waiting /\ Current /\ Stored /\ Expiring /\ Gone
  BY DEF Inv
<1> DEFINE m == Head(queue)
<1>2. /\ daemon = "ready" /\ queue # <<>> /\ queue' = Tail(queue)
      /\ now' = now /\ stepped' = stepped /\ filling' = filling /\ connected' = connected
  BY DEF LPush, PushRotating
<1>3. \/ /\ Difference(m[1], lastRotation) > redisRecordRotation
         /\ lastRotation' = m[1] /\ key' = m[1] /\ late' = late
         /\ lists' = (IF connected THEN Pushed(m[1], m) ELSE lists) /\ daemon' = "expire"
      \/ /\ Difference(m[1], lastRotation) <= redisRecordRotation
         /\ lists' = IF connected THEN Pushed(key, m) ELSE lists
         /\ late' = IF now > KeptUntil(m) THEN late \cup {key} ELSE late
         /\ lastRotation' = lastRotation /\ key' = key /\ daemon' = daemon
  BY DEF LPush, PushRotating
<1>4. Waiting' /\ Stamped(m[1], Latest)
  BY <1>1, <1>2, WaitingStores
<1> HIDE DEF m
<1>5. Clock' /\ Behind' = Behind /\ Latest' = Latest
  <2>1. Clock'
    BY <1>1, <1>2, Later
  <2> QED
    BY <1>2, <2>1 DEF Latest, Behind
<1>6. m[1] \in Nat /\ m[1] <= Latest /\ m[1] >= Rotation
  BY <1>4, StampLate DEF Stamped
<1>7. key \in Nat /\ key = lastRotation /\ connected \in BOOLEAN
  BY <1>1 DEF Current
<1>8. /\ Difference(m[1], key) > redisRecordRotation <=> m[1] - key >= Rotation
      /\ Difference(m[1], key) <= redisRecordRotation <=> m[1] - key < Rotation
  <2>1. m[1] \in Int /\ key \in Int
    BY <1>6, <1>7
  <2> QED
    BY <2>1, Rotates
<1>9. CASE /\ Difference(m[1], lastRotation) > redisRecordRotation
           /\ lastRotation' = m[1] /\ key' = m[1] /\ late' = late
           /\ lists' = (IF connected THEN Pushed(m[1], m) ELSE lists) /\ daemon' = "expire"
  <2>1. m[1] \in Int /\ m[1] < m[1] + Rotation
    BY <1>6, Spans
  <2>2. /\ Stored' /\ (connected => m[1] \in DOMAIN lists')
        /\ ~connected => Immortal' = Immortal
        /\ Immortal' \subseteq Immortal \cup {m[1]}
        /\ \A j \in DOMAIN lists : j \in DOMAIN lists' /\ lists[j].items \subseteq lists'[j].items
    BY <1>1, <1>5, <1>6, <1>7, <1>9, <2>1, SentLists
  <2>3. Expiring'
    <3>1. CASE connected
      <4>1. Immortal \subseteq late
        BY <1>1, <1>2, <3>1 DEF Expiring
      <4> QED
        BY <1>2, <1>9, <2>2, <3>1, <4>1 DEF Expiring
    <3>2. CASE ~connected
      BY <1>1, <1>2, <1>9, <2>2, <3>2 DEF Expiring
    <3> QED
      BY <3>1, <3>2
  <2>4. Current'
    BY <1>2, <1>5, <1>6, <1>7, <1>9 DEF Current
  <2>5. Gone'
    BY <1>2, <1>9, <2>2 DEF Gone
  <2> QED
    BY <1>4, <1>5, <2>2, <2>3, <2>4, <2>5 DEF Inv
<1>10. CASE /\ Difference(m[1], lastRotation) <= redisRecordRotation
            /\ lists' = IF connected THEN Pushed(key, m) ELSE lists
            /\ late' = IF now > KeptUntil(m) THEN late \cup {key} ELSE late
            /\ lastRotation' = lastRotation /\ key' = key /\ daemon' = daemon
  <2>1. m[1] \in Int /\ m[1] < key + Rotation
    BY <1>6, <1>7, <1>8, <1>10, Spans
  <2>2. connected /\ key \notin DOMAIN lists => now > KeptUntil(m)
    <3>1. SUFFICES ASSUME connected, key \notin DOMAIN lists PROVE now > KeptUntil(m)
      OBVIOUS
    <3>2. key # Epoch
      BY <1>6, <1>7, <2>1, Spans DEF Epoch
    <3>3. Latest > key + Ttl
      BY <1>1, <1>2, <3>1, <3>2 DEF Gone
    <3>4. KeptUntil(m) = m[1] + (Ttl - Rotation) - Behind
      BY <2>1, KeptFor
    <3>5. now \in Int /\ Behind \in Nat /\ now + Behind > key + Ttl
      BY <1>1, <3>3, Shift DEF Clock, Latest
    <3> QED
      BY <1>7, <2>1, <3>4, <3>5, Spans
  <2>3. /\ Stored' /\ (connected => key \in DOMAIN lists')
        /\ ~connected => Immortal' = Immortal
        /\ Immortal' \subseteq Immortal \cup {key}
        /\ key \in DOMAIN lists => Immortal' = Immortal
        /\ \A j \in DOMAIN lists : j \in DOMAIN lists' /\ lists[j].items \subseteq lists'[j].items
    BY <1>1, <1>5, <1>7, <1>10, <2>1, SentLists
  <2>4. Expiring'
    <3>1. late \subseteq late' /\ (connected /\ key \notin DOMAIN lists => key \in late')
      BY <1>10, <2>2
    <3>2. Immortal' \ late' \subseteq Immortal \ late
      BY <1>7, <2>3, <3>1
    <3>3. connected => Immortal' \subseteq late'
      <4>1. connected => Immortal \subseteq late
        BY <1>1, <1>2 DEF Expiring
      <4> QED
        BY <2>3, <3>1, <4>1
    <3> QED
      BY <1>1, <1>2, <1>10, <3>2, <3>3 DEF Expiring
  <2>5. Current'
    BY <1>1, <1>2, <1>5, <1>10 DEF Current
  <2>6. Gone'
    BY <1>2, <1>10, <2>3 DEF Gone
  <2> QED
    BY <1>4, <1>5, <2>3, <2>4, <2>5, <2>6 DEF Inv
<1> QED
  BY <1>3, <1>9, <1>10

\* EXPIRE: the list that has no expiry gets one.
LEMMA ExpireInv ==
    ASSUME Inv, Expire
    PROVE  /\ Inv'
           /\ DOMAIN lists' = DOMAIN lists
           /\ \A j \in DOMAIN lists : lists'[j].items = lists[j].items
<1>1. Clock /\ Waiting /\ Current /\ Stored /\ Expiring /\ Gone
  BY DEF Inv
<1>2. /\ daemon = "expire" /\ daemon' = "ready" /\ UNCHANGED readerVars
      /\ now' = now /\ stepped' = stepped /\ connected' = connected
      /\ key' = key /\ lastRotation' = lastRotation /\ late' = late
  BY DEF Expire, ExpireIn
<1>3. lists' = IF connected /\ key \in DOMAIN lists
               THEN [lists EXCEPT ![key].expires = now + Ttl] ELSE lists
  BY DEF Expire, ExpireIn, Ttl
<1>4. Waiting' /\ Oldest' = Oldest
  BY <1>1, <1>2, WaitingRests
<1>5. Clock'
  BY <1>1, <1>2, Later
<1>6. Behind' = Behind /\ Latest' = Latest
  BY <1>2 DEF Behind, Latest
<1>7. Current'
  BY <1>1, <1>2, <1>6 DEF Current
<1>8. \A k \in DOMAIN lists :
          /\ k \in Nat /\ lists[k].expires \in Int
          /\ lists[k].expires # Never => lists[k].expires + Behind >= k + Ttl
          /\ \A m \in lists[k].items : m[1] \in Int /\ m[1] < k + Rotation
  BY <1>1 DEF Stored
<1>9. now + Ttl \in Int /\ now + Ttl # Never /\ now + Ttl + Behind >= key + Ttl
  <2>1. now \in Nat /\ key \in Nat /\ key <= now + Behind
    BY <1>1, ClockLate DEF Current, Latest
  <2> QED
    BY <2>1, Spans, Shift DEF Never
<1> DEFINE e == now + Ttl
<1> HIDE DEF e
<1>10. lists' = [k \in DOMAIN lists |->
                    [items |-> lists[k].items,
                     expires |-> IF connected /\ k = key THEN e ELSE lists[k].expires]]
  <2>1. lists = [k \in DOMAIN lists |->
                    [items |-> lists[k].items, expires |-> lists[k].expires]]
    BY <1>1 DEF Stored
  <2>2. CASE connected /\ key \in DOMAIN lists
    <3>1. lists' = [lists EXCEPT ![key].expires = e]
      BY <1>3, <2>2 DEF e
    <3>2. lists' = [k \in DOMAIN lists |->
                        IF k = key THEN [lists[key] EXCEPT !.expires = e] ELSE lists[k]]
      BY <3>1, Zenon
    <3>3. \A k \in DOMAIN lists :
              lists[k] = [items |-> lists[k].items, expires |-> lists[k].expires]
      BY <2>1
    <3>4. [lists[key] EXCEPT !.expires = e] = [items |-> lists[key].items, expires |-> e]
      <4> DEFINE i == lists[key].items
                 x == lists[key].expires
                 l == lists[key]
      <4>1. l = [items |-> i, expires |-> x]
        BY <2>2, <3>3
      <4> HIDE DEF i, x, l
      <4>2. [l EXCEPT !.expires = e] = [items |-> i, expires |-> e]
        BY <4>1
      <4> QED
        BY <4>2 DEF l, i
    <3>5. \A k \in DOMAIN lists :
              (IF k = key THEN [lists[key] EXCEPT !.expires = e] ELSE lists[k])
                  = [items |-> lists[k].items,
                     expires |-> IF connected /\ k = key THEN e ELSE lists[k].expires]
      BY <2>2, <3>3, <3>4
    <3> QED
      BY <3>2, <3>5, Zenon
  <2>3. CASE ~(connected /\ key \in DOMAIN lists)
    BY <1>3, <2>1, <2>3
  <2> QED
    BY <2>2, <2>3
<1>11. /\ DOMAIN lists' = DOMAIN lists
       /\ \A k \in DOMAIN lists :
            /\ lists'[k].items = lists[k].items
            /\ lists'[k].expires = IF connected /\ k = key THEN e ELSE lists[k].expires
  BY <1>10
<1>12. Stored'
  <2>1. lists' = [k \in DOMAIN lists' |->
                    [items |-> lists'[k].items, expires |-> lists'[k].expires]]
    BY <1>10
  <2>2. \A k \in DOMAIN lists' :
            /\ k \in Nat /\ lists'[k].expires \in Int
            /\ lists'[k].expires # Never => lists'[k].expires + Behind >= k + Ttl
            /\ \A m \in lists'[k].items : m[1] \in Int /\ m[1] < k + Rotation
    <3>1. e \in Int /\ e + Behind >= key + Ttl
      BY <1>9 DEF e
    <3> QED
      BY <1>8, <1>11, <3>1
  <2> QED
    BY <1>6, <2>1, <2>2 DEF Stored, Ttl, Rotation
<1>13. Expiring'
  <2>1. Immortal' \subseteq Immortal
    <3>1. e # Never
      BY <1>9 DEF e
    <3> QED
      BY <1>11, <3>1 DEF Immortal
  <2>2. connected => Immortal' \subseteq late
    <3>1. SUFFICES ASSUME connected PROVE Immortal' \subseteq late
      OBVIOUS
    <3>2. e # Never
      BY <1>9 DEF e
    <3>3. Immortal \subseteq late \cup {key}
      BY <1>1, <1>2, <3>1 DEF Expiring
    <3>4. key \notin Immortal'
      BY <1>11, <3>1, <3>2 DEF Immortal
    <3> QED
      BY <2>1, <3>3, <3>4
  <2> QED
    BY <1>1, <1>2, <2>1, <2>2 DEF Expiring
<1>14. Gone'
  BY <1>1, <1>2, <1>6, <1>11 DEF Gone, Ttl, Epoch
<1> QED
  BY <1>4, <1>5, <1>7, <1>11, <1>12, <1>13, <1>14 DEF Inv

\* The process ends: what it had not stored is lost.
LEMMA ExitInv ==
    ASSUME Inv, Exit
    PROVE  Inv' /\ lists' = lists
<1>1. Clock /\ Current /\ Stored /\ Expiring
  BY DEF Inv
<1>2. /\ daemon' = "down" /\ filling' = <<>> /\ queue' = <<>> /\ lists' = lists
      /\ now' = now /\ stepped' = stepped /\ connected' = connected
      /\ key' = key /\ lastRotation' = lastRotation /\ late' = late
  BY DEF Exit
<1>3. Behind' = Behind /\ Latest' = Latest
  BY <1>2 DEF Behind, Latest
<1>4. Clock' /\ Current'
  BY <1>1, <1>2, <1>3, Later DEF Current
<1>5. Waiting'
  BY <1>2 DEF Waiting
<1>6. Stored' /\ Gone'
  BY <1>1, <1>2, <1>3 DEF Stored, Gone, Ttl, Rotation
<1>7. Expiring'
  BY <1>1, <1>2 DEF Expiring, Immortal
<1> QED
  BY <1>2, <1>4, <1>5, <1>6, <1>7 DEF Inv

\* It starts again and has not flushed yet.
LEMMA RestartInv ==
    ASSUME Inv, Restart
    PROVE  Inv' /\ lists' = lists
<1>1. Clock /\ Waiting /\ Stored /\ Expiring
  BY DEF Inv
<1>2. /\ daemon' = "flush" /\ UNCHANGED readerVars /\ lists' = lists
      /\ now' = now /\ stepped' = stepped /\ connected' = TRUE
      /\ key' = 0 /\ lastRotation' = 0 /\ late' = late
  BY DEF Restart, Epoch
<1>3. Behind' = Behind /\ Latest' = Latest
  BY <1>2 DEF Behind, Latest
<1>4. Clock' /\ Waiting'
  BY <1>1, <1>2, Later, WaitingRests
<1>5. Current'
  <2>1. 0 <= Latest
    BY <1>1, ClockLate, Shift DEF Latest
  <2> QED
    BY <1>2, <1>3, <2>1 DEF Current, Epoch
<1>6. Stored' /\ Gone'
  BY <1>1, <1>2, <1>3 DEF Stored, Gone, Ttl, Rotation
<1>7. Expiring'
  BY <1>1, <1>2 DEF Expiring, Immortal
<1> QED
  BY <1>2, <1>4, <1>5, <1>6, <1>7 DEF Inv

\* The connection is lost: nothing is claimed of the lists that wait for EXPIRE.
LEMMA DisconnectInv ==
    ASSUME Inv, Disconnect
    PROVE  Inv' /\ lists' = lists
<1>1. /\ UNCHANGED <<now, stepped, filling, queue, daemon, lastRotation, key, late, lists>>
      /\ connected' = FALSE
  BY DEF Disconnect, readerVars
<1>2. Clock' /\ Waiting'
  BY <1>1, Later, WaitingRests DEF Inv, readerVars
<1>3. Behind' = Behind /\ Latest' = Latest
  BY <1>1 DEF Behind, Latest
<1>4. Current' /\ Stored' /\ Expiring' /\ Gone'
  BY <1>1, <1>3 DEF Inv, Current, Stored, Expiring, Immortal, Gone, Ttl, Rotation
<1> QED
  BY <1>1, <1>2, <1>4 DEF Inv

\* The scraper only reads.
LEMMA RestInv ==
    ASSUME Inv, UNCHANGED <<now, stepped, readerVars, daemonVars, lists>>
    PROVE  Inv'
<1>1. UNCHANGED <<now, stepped, filling, queue, daemon, connected, lastRotation, key, late, lists>>
  BY DEF readerVars, daemonVars
<1>2. Clock' /\ Waiting'
  BY <1>1, Later, WaitingRests DEF Inv, readerVars
<1>3. Behind' = Behind /\ Latest' = Latest
  BY <1>1 DEF Behind, Latest
<1>4. Current' /\ Stored' /\ Expiring' /\ Gone'
  BY <1>1, <1>3 DEF Inv, Current, Stored, Expiring, Immortal, Gone, Ttl, Rotation, Epoch
<1> QED
  BY <1>2, <1>4 DEF Inv

\* Every step.
LEMMA NextInv ==
    ASSUME Inv, [Next]_vars
    PROVE  Inv'
<1>1. CASE Tick
  <2>1. Waiting'
    BY <1>1, WaitingRests DEF Inv, Tick, Advance
  <2> QED
    BY <1>1, <2>1, AdvanceInv DEF Tick
<1>2. CASE ReadCycle
  <2>1. Waiting'
    BY <1>2, WaitingReads DEF Inv
  <2> QED
    BY <1>2, <2>1, AdvanceInv DEF ReadCycle
<1>3. CASE SetBack
  BY <1>3, SetBackInv
<1>4. CASE FlushAll
  BY <1>4, FlushAllInv
<1>5. CASE sendToRedis
  BY <1>5, LPushInv, ExpireInv DEF sendToRedis
<1>6. CASE Disconnect \/ Exit \/ Restart
  BY <1>6, DisconnectInv, ExitInv, RestartInv
<1>7. CASE getRange
  <2>1. UNCHANGED <<now, stepped, readerVars, daemonVars, lists>>
    BY <1>7 DEF getRange, Keys, Visit, VisitAfter, LRange, Return
  <2> QED
    BY <2>1, RestInv
<1>8. CASE UNCHANGED vars
  <2>1. UNCHANGED <<now, stepped, readerVars, daemonVars, lists>>
    BY <1>8 DEF vars
  <2> QED
    BY <2>1, RestInv
<1> QED
  BY <1>1, <1>2, <1>3, <1>4, <1>5, <1>6, <1>7, <1>8 DEF Next

-----------------------------------------------------------------------------
(***************************************************************************)
(* What it gives.                                                          *)
(***************************************************************************)
\* The daemon's sendToRedis and Redis keep the invariant, however the scraper,
\* the clock, the ends of the daemon and of its connection come between.
THEOREM StoreInvariant == Spec => []Inv
<1>1. Init => Inv
  BY InitInv
<1>2. Inv /\ [Next]_vars => Inv'
  BY NextInv
<1> QED
  BY <1>1, <1>2, PTL DEF Spec

\* A list that sendToRedis left without an expiry lost its EXPIRE, or was made
\* anew by an LPUSH that came later than its measurement would have been kept.
THEOREM ExpiryCorrect == Spec => []ListsExpire
<1>1. Inv => ListsExpire
  <2>1. SUFFICES ASSUME Inv PROVE ListsExpire
    OBVIOUS
  <2> DEFINE immortal == {k \in DOMAIN lists \ late : lists[k].expires = Never}
  <2>2. immortal = Immortal \ late
    BY DEF Immortal
  <2>3. /\ \A j, k \in immortal : j = k
        /\ connected /\ daemon = "ready" => immortal = {}
        /\ connected /\ daemon = "expire" => immortal \subseteq {key}
    BY <2>1, <2>2 DEF Inv, Expiring
  <2> HIDE DEF immortal
  <2>4. Cardinality(immortal) <= 1
    <3>1. CASE immortal = {}
      BY <3>1, FS_EmptySet
    <3>2. CASE immortal # {}
      <4>1. PICK k \in immortal : TRUE
        BY <3>2
      <4>2. immortal = {k}
        BY <2>3, <4>1
      <4>3. Cardinality({k}) = 1
        BY FS_Singleton
      <4> QED
        BY <4>2, <4>3
    <3> QED
      BY <3>1, <3>2
  <2> QED
    BY <2>3, <2>4 DEF ListsExpire, immortal
<1> QED
  BY <1>1, StoreInvariant, PTL

\* A measurement that a tick drops has been there long enough.
LEMMA DroppedLate ==
    ASSUME Inv, Advance, NEW m \in Measurements(lists) \ Measurements(lists')
    PROVE  now' > KeptUntil(m)
<1>1. PICK k \in DOMAIN lists : m \in lists[k].items
  BY DEF Measurements
<1> DEFINE Kept == {j \in DOMAIN lists : lists[j].expires = Never \/ lists[j].expires >= now'}
<1>2. lists' = [j \in Kept |-> lists[j]]
  BY DEF Advance, Restrict
<1>3. k \notin Kept
  <2>1. SUFFICES ASSUME k \in Kept PROVE FALSE
    OBVIOUS
  <2> HIDE DEF Kept
  <2>2. k \in DOMAIN lists' /\ m \in lists'[k].items
    BY <1>1, <1>2, <2>1
  <2> QED
    BY <2>2 DEF Measurements
<1>4. lists[k].expires # Never /\ ~(lists[k].expires >= now')
  BY <1>3
<1> HIDE DEF Kept
<1>5. /\ k \in Nat /\ lists[k].expires \in Int
      /\ lists[k].expires + Behind >= k + Ttl
      /\ m[1] \in Int /\ m[1] < k + Rotation
  BY <1>1, <1>4 DEF Inv, Stored
<1> DEFINE e == lists[k].expires
           n == now'
           f == m[1]
<1>6. e \in Int /\ f \in Int /\ e + Behind >= k + Ttl /\ f < k + Rotation
  BY <1>5
<1>7. n \in Int /\ ~(e >= n)
  <2>1. now' = now + 1 /\ now \in Nat
    BY ClockLate DEF Inv, Advance
  <2> QED
    BY <1>4, <2>1
<1>8. KeptUntil(m) = f + (Ttl - Rotation) - Behind
  BY <1>5, KeptFor
<1> HIDE DEF e, n, f
<1>9. n > f + (Ttl - Rotation) - Behind
  BY <1>5, <1>6, <1>7, Spans, Shift
<1> QED
  BY <1>8, <1>9 DEF n

\* A measurement that sendToRedis stored is not dropped early.
THEOREM RetentionCorrect == Spec => Retained
<1> DEFINE Step == daemon = "flush" \/
                   \A m \in Measurements(lists) \ Measurements(lists') : now' > KeptUntil(m)
<1>1. Inv /\ [Next]_vars => [Step]_vars
  <2>1. SUFFICES ASSUME Inv, Next, daemon # "flush",
                        NEW m \in Measurements(lists) \ Measurements(lists')
                 PROVE  now' > KeptUntil(m)
    OBVIOUS
  <2>2. CASE Tick \/ ReadCycle
    BY <2>1, <2>2, DroppedLate DEF Tick, ReadCycle
  <2>3. CASE SetBack \/ Disconnect \/ Exit \/ Restart \/ getRange
    <3>1. lists' = lists
      BY <2>3 DEF SetBack, Disconnect, Exit, Restart, getRange, Keys, Visit, VisitAfter, LRange, Return
    <3> QED
      BY <2>1, <3>1
  <2>4. CASE sendToRedis
    <3>1. \A j \in DOMAIN lists : j \in DOMAIN lists' /\ lists[j].items \subseteq lists'[j].items
      BY <2>1, <2>4, LPushInv, ExpireInv DEF sendToRedis
    <3>2. Measurements(lists) \subseteq Measurements(lists')
      BY <3>1 DEF Measurements
    <3> QED
      BY <2>1, <3>2
  <2>5. CASE FlushAll
    BY <2>1, <2>5 DEF FlushAll
  <2> QED
    BY <2>1, <2>2, <2>3, <2>4, <2>5 DEF Next
<1> QED
  BY <1>1, StoreInvariant, PTL DEF Spec, Retained

-----------------------------------------------------------------------------
(***************************************************************************)
(* The query.  As long as the clock was not set back, what is stored and   *)
(* what waits is in the order of time, and the lists divide the time among *)
(* them.  The query's loop relies on that.                                 *)
(***************************************************************************)
\* The cycles of m come after its first and until n.
Rising(m, n) == \A x \in DOMAIN m : m[1] <= m[x] /\ m[x] <= n

\* All of m comes before the first cycle of n.
Precedes(m, n) == n # <<>> => \A x \in DOMAIN m : m[x] < n[1]

\* The measurement that was begun after the i-th of the queue.
Successor(i) == IF i < Len(queue) THEN queue[i + 1] ELSE filling

Ordered ==
    /\ Rising(filling, now)
    /\ \A i \in 1 .. Len(queue) : Rising(queue[i], now) /\ Precedes(queue[i], Successor(i))

\* A time before everything that waits.
Past(t) == t \in Nat /\ t <= now /\ (Oldest # <<>> => t < Oldest[1])

\* List k has a cycle of time t.
Holds(k, t) ==
    /\ k \in DOMAIN lists
    /\ \E m \in lists[k].items : \E x \in DOMAIN m : m[x] = t

\* No list comes after the current key, and what is in the others comes before.
Newest(k) ==
    /\ \A j \in DOMAIN lists : j <= k
    /\ \A j, t : Holds(j, t) /\ j < k => t < k

\* The cycles of a list lie between its key and the next, also if the list of
\* the current key is gone and may be made anew.
Partition ==
    /\ \A k \in DOMAIN lists : Past(k)
    /\ \A k, t : Holds(k, t) =>
          /\ Past(t) /\ k <= t
          /\ \A j \in DOMAIN lists : k < j => t < j
    /\ daemon \in {"ready", "expire"} => Past(key) /\ Newest(key)

\* The loop has chosen nothing as long as a key before the window is left, and
\* there is a key in the window if something is owed.
Loop ==
    /\ low \in Nat /\ high \in Nat
    /\ keys \subseteq Nat /\ last_key \in Nat /\ readout_keys \in Seq(Nat)
    /\ scraper = "idle" => owed = {} /\ keys = {}
    /\ readout_keys # <<>> => \A j \in keys : low < j
    /\ owed # {} /\ readout_keys = <<>> /\ keys # {} => \E j \in keys : Inside(j)

\* List k, which holds t, will be read: it is chosen; or the loop comes to it,
\* or has just left it, and no other key lies between it and t.
Selected(k, t) ==
    \/ \E i \in 1 .. Len(readout_keys) : readout_keys[i] = k
    \/ k \in keys /\ \A j \in keys : k < j => t < j
    \/ k = last_key /\ readout_keys = <<>> /\ keys # {} /\ \A j \in keys : t < j

Owing ==
    \A t \in owed :
        /\ Past(t) /\ Inside(t)
        /\ \A k : Holds(k, t) => t \in message \/ Selected(k, t)

RangeInv == Inv /\ (~stepped => Ordered /\ Partition /\ Loop /\ Owing)

\* What is past stays past, when a measurement begins only with the next tick.
LEMMA PastKept ==
    ASSUME Clock, now' = now + 1 \/ now' = now,
           Oldest' # <<>> => \/ Oldest # <<>> /\ Oldest'[1] = Oldest[1]
                             \/ now' = now + 1 /\ Oldest'[1] = now',
           NEW t, Past(t)
    PROVE  Past(t)'
<1>1. now \in Int /\ now' \in Int
  BY DEF Clock
<1>2. t \in Nat /\ t <= now /\ (Oldest # <<>> => t < Oldest[1])
  BY DEF Past
<1>3. t <= now'
  BY <1>1, <1>2
<1>4. Oldest' # <<>> => t < Oldest'[1]
  <2>1. SUFFICES ASSUME Oldest' # <<>> PROVE t < Oldest'[1]
    OBVIOUS
  <2>2. CASE Oldest # <<>> /\ Oldest'[1] = Oldest[1]
    BY <1>2, <2>2
  <2>3. CASE now' = now + 1 /\ Oldest'[1] = now'
    <3>1. t < now + 1
      BY <1>1, <1>2
    <3> QED
      BY <2>3, <3>1
  <2> QED
    BY <2>1, <2>2, <2>3
<1> QED
  BY <1>2, <1>3, <1>4 DEF Past

\* Lists are dropped or stay as they are.
Shrunk == \A k \in DOMAIN lists' : k \in DOMAIN lists /\ lists'[k].items = lists[k].items

LEMMA ShrunkHolds ==
    ASSUME Shrunk, NEW k, NEW t, Holds(k, t)'
    PROVE  Holds(k, t)
BY DEF Shrunk, Holds

\* Fewer lists still divide the time among them.
LEMMA PartitionKept ==
    ASSUME Partition, Shrunk, \A t : Past(t) => Past(t)',
           daemon' \in {"ready", "expire"} =>
               \/ daemon \in {"ready", "expire"} /\ key' = key
               \/ Past(key)' /\ DOMAIN lists' = {}
    PROVE  Partition'
<1>1. \A k \in DOMAIN lists' : k \in DOMAIN lists
  BY DEF Shrunk
<1>2. \A k \in DOMAIN lists' : Past(k)'
  BY <1>1 DEF Partition
<1>3. ASSUME NEW k, NEW t, Holds(k, t)'
      PROVE  Past(t)' /\ k <= t /\ \A j \in DOMAIN lists' : k < j => t < j
  <2>1. Holds(k, t)
    BY <1>3, ShrunkHolds
  <2>2. Past(t) /\ k <= t /\ \A j \in DOMAIN lists : k < j => t < j
    BY <2>1 DEF Partition
  <2> QED
    BY <1>1, <2>2
<1>4. daemon' \in {"ready", "expire"} => Past(key)' /\ Newest(key)'
  <2>1. CASE daemon \in {"ready", "expire"} /\ key' = key
    <3>1. Past(key) /\ Newest(key)
      BY <2>1 DEF Partition
    <3>2. Past(key)'
      <4>1. \A t : t = key' /\ Past(t)' => Past(key)'
        BY DEF Past
      <4> QED
        BY <2>1, <3>1, <4>1
    <3>3. Newest(key)'
      <4>1. \A j, t : Holds(j, t)' => Holds(j, t)
        BY ShrunkHolds
      <4> QED
        BY <1>1, <2>1, <3>1, <4>1 DEF Newest
    <3> QED
      BY <3>2, <3>3
  <2>2. CASE Past(key)' /\ DOMAIN lists' = {}
    <3>1. Newest(key)'
      BY <2>2 DEF Newest, Holds
    <3> QED
      BY <2>2, <3>1
  <2> QED
    BY <2>1, <2>2
<1> QED
  BY <1>2, <1>3, <1>4 DEF Partition

\* The query, when it takes no step itself and nothing is stored that it owes.
LEMMA QueryKept ==
    ASSUME Loop, Owing, UNCHANGED scraperVars, \A t : Past(t) => Past(t)',
           \A k, t : Holds(k, t)' => Holds(k, t) \/ t \notin owed
    PROVE  Loop' /\ Owing'
<1>1. UNCHANGED <<scraper, low, high, keys, last_key, readout_keys, message, owed>>
  BY DEF scraperVars, loopVars
<1>2. Loop'
  BY <1>1 DEF Loop, Inside
<1>3. \A k, t : Selected(k, t) => Selected(k, t)'
  BY <1>1 DEF Selected
<1>4. \A t : Inside(t) => Inside(t)'
  BY <1>1 DEF Inside
<1>5. ASSUME NEW t \in owed'
      PROVE  Past(t)' /\ Inside(t)' /\ \A k : Holds(k, t)' => t \in message' \/ Selected(k, t)'
  <2>1. t \in owed
    BY <1>1
  <2>2. Past(t) /\ Inside(t) /\ \A k : Holds(k, t) => t \in message \/ Selected(k, t)
    BY <2>1 DEF Owing
  <2>3. ASSUME NEW k, Holds(k, t)' PROVE t \in message' \/ Selected(k, t)'
    <3>1. Holds(k, t)
      BY <2>1, <2>3
    <3>2. t \in message \/ Selected(k, t)
      BY <2>2, <3>1
    <3> QED
      BY <1>1, <1>3, <3>2
  <2> QED
    BY <1>4, <2>2, <2>3
<1> QED
  BY <1>2, <1>5 DEF Owing

\* What waits stays in order, while the clock runs on and nothing is read.
LEMMA OrderedRests ==
    ASSUME Clock, Waiting, Ordered, UNCHANGED readerVars, now' = now + 1 \/ now' = now
    PROVE  Ordered'
<1>1. filling' = filling /\ queue' = queue
  BY DEF readerVars
<1>2. now \in Int /\ now' \in Int /\ now <= now'
  BY DEF Clock
<1>3. ASSUME NEW m \in Seq(Nat), Rising(m, now) PROVE Rising(m, now')
  <2>1. \A x \in DOMAIN m : m[x] \in Nat
    OBVIOUS
  <2> QED
    BY <1>2, <1>3, <2>1 DEF Rising
<1>4. filling \in Seq(Nat) /\ \A i \in 1 .. Len(queue) : queue[i] \in Seq(Nat)
  BY DEF Waiting
<1>5. Rising(filling, now')
  BY <1>3, <1>4 DEF Ordered
<1>6. \A i \in 1 .. Len(queue) : Rising(queue[i], now') /\ Precedes(queue[i], Successor(i))
  BY <1>3, <1>4 DEF Ordered
<1>7. \A i : Successor(i)' = Successor(i)
  BY <1>1 DEF Successor
<1> QED
  BY <1>1, <1>5, <1>6, <1>7 DEF Ordered

\* A cycle that is read comes after everything else.
LEMMA OrderedReads ==
    ASSUME Clock, Waiting, Ordered, ReadCycle
    PROVE  Ordered'
<1> DEFINE m == Append(filling, now')
           Following(i) == IF i < Len(queue) THEN queue[i + 1] ELSE m
<1>1. now \in Nat /\ now' = now + 1 /\ now' \in Nat
  BY ClockLate DEF ReadCycle, Advance
<1>2. filling \in Seq(Nat) /\ queue \in Seq(Seq(Nat)) /\ Len(queue) \in Nat
  BY DEF Waiting
<1>3. \A i \in 1 .. Len(queue) : queue[i] \in Seq(Nat)
  BY <1>2
<1>4. ASSUME NEW n \in Seq(Nat), Rising(n, now) PROVE Rising(n, now')
  <2>1. \A x \in DOMAIN n : n[x] \in Nat
    OBVIOUS
  <2> QED
    BY <1>1, <1>4, <2>1 DEF Rising
<1>5. /\ Len(filling) \in Nat /\ (filling = <<>> <=> Len(filling) = 0)
      /\ m \in Seq(Nat) /\ Len(m) = Len(filling) + 1
      /\ DOMAIN m = 1 .. Len(filling) + 1 /\ DOMAIN filling = 1 .. Len(filling)
      /\ m[Len(filling) + 1] = now'
      /\ \A x \in 1 .. Len(filling) : m[x] = filling[x] /\ filling[x] \in Nat
  BY <1>1, <1>2
<1> HIDE DEF m
<1>6. filling # <<>> => m[1] = filling[1]
  BY <1>5
<1>7. filling = <<>> => m[1] = now'
  BY <1>5
<1>8. Rising(m, now')
  <2>1. Rising(filling, now)
    BY DEF Ordered
  <2>2. m[1] <= now'
    <3>1. CASE filling = <<>>
      BY <1>1, <1>7, <3>1
    <3>2. CASE filling # <<>>
      <4>1. 1 \in 1 .. Len(filling)
        BY <1>5, <3>2
      <4>2. filling[1] <= now
        BY <1>5, <2>1, <4>1 DEF Rising
      <4> QED
        BY <1>1, <1>5, <1>6, <3>2, <4>1, <4>2
    <3> QED
      BY <3>1, <3>2
  <2>3. ASSUME NEW x \in DOMAIN m PROVE m[1] <= m[x] /\ m[x] <= now'
    <3>1. CASE x = Len(filling) + 1
      BY <1>1, <1>5, <2>2, <3>1
    <3>2. CASE x # Len(filling) + 1
      <4>1. x \in 1 .. Len(filling) /\ filling # <<>>
        BY <1>5, <3>2
      <4>2. filling[1] <= filling[x] /\ filling[x] <= now
        BY <1>5, <2>1, <4>1 DEF Rising
      <4> QED
        BY <1>1, <1>5, <1>6, <4>1, <4>2
    <3> QED
      BY <3>1, <3>2
  <2> QED
    BY <2>3 DEF Rising
<1>9. ASSUME NEW i \in 1 .. Len(queue)
      PROVE  Rising(queue[i], now') /\ Precedes(queue[i], Following(i))
  <2>1. Rising(queue[i], now) /\ Precedes(queue[i], Successor(i))
    BY DEF Ordered
  <2>2. Rising(queue[i], now')
    BY <1>3, <1>4, <2>1
  <2>3. CASE i < Len(queue)
    BY <2>1, <2>2, <2>3 DEF Successor
  <2>4. CASE ~(i < Len(queue)) /\ filling # <<>>
    BY <1>6, <2>1, <2>2, <2>4 DEF Successor, Precedes
  <2>5. CASE ~(i < Len(queue)) /\ filling = <<>>
    <3>1. ASSUME NEW x \in DOMAIN queue[i] PROVE queue[i][x] < m[1]
      <4>1. queue[i][x] \in Nat /\ queue[i][x] <= now
        BY <1>3, <2>1 DEF Rising
      <4> QED
        BY <1>1, <1>7, <2>5, <4>1
    <3> QED
      BY <2>2, <2>5, <3>1 DEF Precedes
  <2> QED
    BY <2>3, <2>4, <2>5
<1>10. \/ filling' = m /\ queue' = queue
       \/ filling' = <<>> /\ queue' = Append(queue, m)
  BY DEF ReadCycle, m
<1>11. CASE filling' = m /\ queue' = queue
  <2>1. \A i \in 1 .. Len(queue) : Successor(i)' = Following(i)
    BY <1>11 DEF Successor
  <2> QED
    BY <1>8, <1>9, <1>11, <2>1 DEF Ordered
<1>12. CASE filling' = <<>> /\ queue' = Append(queue, m)
  <2>1. /\ Len(queue') = Len(queue) + 1 /\ queue'[Len(queue) + 1] = m
        /\ \A i \in 1 .. Len(queue) : queue'[i] = queue[i]
    BY <1>2, <1>5, <1>12
  <2>2. Rising(filling', now')
    BY <1>12 DEF Rising
  <2>3. ASSUME NEW i \in 1 .. Len(queue')
        PROVE  Rising(queue'[i], now') /\ Precedes(queue'[i], Successor(i)')
    <3>1. CASE i = Len(queue) + 1
      <4>1. Successor(i)' = <<>> /\ queue'[i] = m
        BY <1>2, <1>12, <2>1, <3>1 DEF Successor
      <4> QED
        BY <1>8, <4>1 DEF Precedes
    <3>2. CASE i # Len(queue) + 1
      <4>1. i \in 1 .. Len(queue) /\ queue'[i] = queue[i]
        BY <1>2, <2>1, <3>2
      <4>2. Successor(i)' = Following(i)
        <5>1. Successor(i)' = queue'[i + 1]
          BY <1>2, <2>1, <4>1 DEF Successor
        <5>2. CASE i < Len(queue)
          <6>1. i + 1 \in 1 .. Len(queue)
            BY <1>2, <4>1, <5>2
          <6> QED
            BY <2>1, <5>1, <5>2, <6>1
        <5>3. CASE ~(i < Len(queue))
          <6>1. i = Len(queue)
            BY <1>2, <4>1, <5>3
          <6> QED
            BY <2>1, <5>1, <5>3, <6>1
        <5> QED
          BY <5>2, <5>3
      <4> QED
        BY <1>9, <4>1, <4>2
    <3> QED
      BY <3>1, <3>2
  <2> QED
    BY <2>2, <2>3 DEF Ordered
<1> QED
  BY <1>10, <1>11, <1>12

\* What is left of a queue.
LEMMA Rest ==
    ASSUME NEW q \in Seq(Seq(Nat)), Len(q) \in Nat, Len(q) > 0
    PROVE  /\ Len(q) = 1 \/ Len(q) > 1
           /\ Len(q) = 1 => Tail(q) = <<>>
           /\ Len(q) > 1 => /\ 2 \in 1 .. Len(q)
                            /\ Tail(q) # <<>> /\ Tail(q)[1] = q[2]
<1> DEFINE p == Tail(q)
<1>1. p \in Seq(Seq(Nat)) /\ Len(p) = Len(q) - 1
  OBVIOUS
<1>2. \A i \in 1 .. Len(q) - 1 : p[i] = q[i + 1]
  OBVIOUS
<1> HIDE DEF p
<1>3. p = <<>> <=> Len(p) = 0
  BY <1>1, EmptySeq
<1>4. Len(q) > 1 => 2 \in 1 .. Len(q) /\ 1 \in 1 .. Len(q) - 1
  OBVIOUS
<1>5. Len(q) > 1 => p[1] = q[2]
  BY <1>2, <1>4
<1>6. (Len(q) = 1 => p = <<>>) /\ (Len(q) > 1 => p # <<>>)
  BY <1>1, <1>3
<1>7. \A n \in Nat : n > 0 => n = 1 \/ n > 1
  OBVIOUS
<1> QED
  BY <1>4, <1>5, <1>6, <1>7 DEF p

\* The oldest measurement is stored: the others stay in order and come after it.
LEMMA OrderedStores ==
    ASSUME Clock, Waiting, Ordered, queue # <<>>, queue' = Tail(queue), filling' = filling, now' = now
    PROVE  /\ Ordered'
           /\ \A t : Past(t) => Past(t)'
           /\ \A x \in DOMAIN Oldest :
                 /\ Oldest[1] <= Oldest[x]
                 /\ \A t : Past(t) => t < Oldest[x]
                 /\ \A t : t = Oldest[x] => Past(t)'
<1>1. /\ filling \in Seq(Nat) /\ queue \in Seq(Seq(Nat)) /\ now \in Int
      /\ \A i \in 1 .. Len(queue) : queue[i] # <<>>
  BY DEF Waiting, Clock
<1>2. Len(queue) \in Nat /\ Len(queue) > 0 /\ 1 \in 1 .. Len(queue)
  BY <1>1
<1>3. /\ queue' \in Seq(Seq(Nat)) /\ Len(queue') = Len(queue) - 1
      /\ \A i \in 1 .. Len(queue') : queue'[i] = queue[i + 1]
  BY <1>1, <1>2
<1>4. Oldest = queue[1] /\ Oldest \in Seq(Nat) /\ Oldest # <<>>
  BY <1>1, <1>2 DEF Oldest
<1>5. Oldest' = Successor(1)
  <2>1. CASE Len(queue) = 1
    <3>1. queue' = <<>>
      BY <1>1, <1>2, <2>1, Rest
    <3> QED
      BY <2>1, <3>1 DEF Oldest, Successor
  <2>2. CASE Len(queue) > 1
    <3>1. queue' # <<>> /\ queue'[1] = queue[2]
      BY <1>1, <1>2, <2>2, Rest
    <3> QED
      BY <2>2, <3>1 DEF Oldest, Successor
  <2> QED
    BY <1>1, <1>2, <2>1, <2>2, Rest
<1>6. ASSUME NEW i \in 1 .. Len(queue')
      PROVE  Rising(queue'[i], now') /\ Precedes(queue'[i], Successor(i)')
  <2>1. i + 1 \in 1 .. Len(queue) /\ queue'[i] = queue[i + 1]
    BY <1>2, <1>3
  <2>2. Successor(i)' = Successor(i + 1)
    <3>1. CASE i < Len(queue')
      <4>1. i + 1 \in 1 .. Len(queue') /\ i + 1 < Len(queue)
        BY <1>2, <1>3, <3>1
      <4> QED
        BY <1>3, <3>1, <4>1 DEF Successor
    <3>2. CASE ~(i < Len(queue'))
      <4>1. ~(i + 1 < Len(queue))
        BY <1>2, <1>3, <3>2
      <4> QED
        BY <3>2, <4>1 DEF Successor
    <3> QED
      BY <3>1, <3>2
  <2> QED
    BY <2>1, <2>2 DEF Ordered
<1>7. Ordered'
  BY <1>6 DEF Ordered
<1>8. Rising(Oldest, now) /\ Precedes(Oldest, Oldest')
  BY <1>2, <1>4, <1>5 DEF Ordered
<1>9. 1 \in DOMAIN Oldest /\ \A x \in DOMAIN Oldest : Oldest[x] \in Nat
  BY <1>4
<1>10. Oldest' # <<>> => Oldest'[1] \in Nat
  <2>1. CASE Len(queue) = 1
    BY <1>1, <1>5, <2>1 DEF Successor
  <2>2. CASE Len(queue) > 1
    <3>1. 2 \in 1 .. Len(queue)
      BY <1>1, <1>2, <2>2, Rest
    <3> QED
      BY <1>1, <1>5, <2>2, <3>1 DEF Successor
  <2> QED
    BY <1>1, <1>2, <2>1, <2>2, Rest
<1> DEFINE next == Oldest'
<1>11. next # <<>> => next[1] \in Nat /\ \A x \in DOMAIN Oldest : Oldest[x] < next[1]
  BY <1>8, <1>10 DEF Precedes
<1>12. \A t : Past(t)' <=> t \in Nat /\ t <= now /\ (next # <<>> => t < next[1])
  BY DEF Past
<1> HIDE DEF next
<1>13. ASSUME NEW t, Past(t) PROVE Past(t)'
  <2>1. t \in Nat /\ t <= now /\ t < Oldest[1]
    BY <1>4, <1>13 DEF Past
  <2>2. next # <<>> => t < next[1]
    BY <1>9, <1>11, <2>1
  <2> QED
    BY <1>12, <2>1, <2>2
<1>14. ASSUME NEW x \in DOMAIN Oldest
       PROVE  /\ Oldest[1] <= Oldest[x]
              /\ \A t : Past(t) => t < Oldest[x]
              /\ \A t : t = Oldest[x] => Past(t)'
  <2>1. Oldest[x] \in Nat /\ Oldest[1] \in Nat /\ Oldest[1] <= Oldest[x] /\ Oldest[x] <= now
    BY <1>8, <1>9 DEF Rising
  <2>2. next # <<>> => Oldest[x] < next[1]
    BY <1>11
  <2>3. \A t : t = Oldest[x] => Past(t)'
    BY <1>12, <2>1, <2>2
  <2>4. \A t : Past(t) => t < Oldest[x]
    BY <1>4, <2>1 DEF Past
  <2> QED
    BY <2>1, <2>3, <2>4
<1> QED
  BY <1>7, <1>13, <1>14

\* What the lists hold after a push.
LEMMA PushedHolds ==
    ASSUME NEW k, NEW m, lists' = Pushed(k, m), NEW j, NEW t, Holds(j, t)', ~Holds(j, t)
    PROVE  j = k /\ \E x \in DOMAIN m : m[x] = t
<1> DEFINE list == IF k \in DOMAIN lists THEN lists[k] ELSE [items |-> {}, expires |-> Never]
<1>1. lists' = [i \in DOMAIN lists \cup {k} |->
                    IF i = k THEN [items |-> list.items \cup {m}, expires |-> list.expires]
                    ELSE lists[i]]
  BY DEF Pushed
<1>2. DOMAIN lists' = DOMAIN lists \cup {k}
  BY <1>1
<1>3. lists'[k].items = list.items \cup {m}
  BY <1>1
<1>4. \A i \in DOMAIN lists : i # k => lists'[i] = lists[i]
  BY <1>1
<1>5. \A n \in list.items : k \in DOMAIN lists /\ n \in lists[k].items
  OBVIOUS
<1> HIDE DEF list
<1>6. j \in DOMAIN lists' /\ \E n \in lists'[j].items : \E x \in DOMAIN n : n[x] = t
  BY DEF Holds
<1>7. PICK n \in lists'[j].items : \E x \in DOMAIN n : n[x] = t
  BY <1>6
<1>8. ~(j \in DOMAIN lists /\ n \in lists[j].items)
  BY <1>7 DEF Holds
<1>9. j = k
  BY <1>2, <1>4, <1>6, <1>8
<1>10. n = m
  BY <1>3, <1>5, <1>7, <1>8, <1>9
<1> QED
  BY <1>7, <1>9, <1>10

\* The newest list gets a later measurement, or such a one starts a new list.
LEMMA PushedPartition ==
    ASSUME Partition, NEW k, NEW m, lists' = Pushed(k, m), k = m[1] \/ Past(k),
           1 \in DOMAIN m, key' = k,
           Newest(k),
           \A t : Past(t) => Past(t)',
           \A x \in DOMAIN m : /\ m[1] <= m[x]
                               /\ \A t : Past(t) => t < m[x]
                               /\ \A t : t = m[x] => Past(t)'
    PROVE  /\ Partition'
           /\ \A j, t : Holds(j, t)' => Holds(j, t) \/ ~Past(t)
<1>1. /\ DOMAIN lists' = DOMAIN lists \cup {k}
      /\ \A j, t : Holds(j, t)' => Holds(j, t) \/ (j = k /\ \E x \in DOMAIN m : m[x] = t)
  <2>1. DOMAIN lists' = DOMAIN lists \cup {k}
    BY DEF Pushed
  <2>2. ASSUME NEW j, NEW t, Holds(j, t)', ~Holds(j, t)
        PROVE  j = k /\ \E x \in DOMAIN m : m[x] = t
    BY <2>2, PushedHolds
  <2> QED
    BY <2>1, <2>2
<1>2. \A j \in DOMAIN lists : Past(j)
  BY DEF Partition
<1>3. \A t : Past(t) => t \in Nat
  BY DEF Past
<1>4. \A t : Past(t)' => t \in Nat
  BY DEF Past
<1>5. Past(k)' /\ k \in Nat
  <2>1. CASE k = m[1]
    <3>1. \A t : t = m[1] => Past(t)'
      OBVIOUS
    <3>2. Past(k)'
      BY <2>1, <3>1
    <3> QED
      BY <1>4, <3>2
  <2>2. CASE Past(k)
    BY <1>3, <2>2
  <2> QED
    BY <2>1, <2>2
<1>6. \A j \in DOMAIN lists' : Past(j)'
  <2>1. \A j \in DOMAIN lists : Past(j)'
    BY <1>2
  <2> QED
    BY <1>1, <1>5, <2>1
<1>7. \A j \in DOMAIN lists' : j \in Nat /\ j <= k
  BY <1>1, <1>2, <1>3, <1>5 DEF Newest
<1>8. ASSUME NEW j, NEW t, Holds(j, t)'
      PROVE  /\ Past(t)' /\ j <= t
             /\ \A i \in DOMAIN lists' : j < i => t < i
             /\ Holds(j, t) \/ ~Past(t)
  <2>1. CASE Holds(j, t)
    <3>1. Past(t) /\ j <= t /\ \A i \in DOMAIN lists : j < i => t < i
      BY <2>1 DEF Partition
    <3>2. j < k => t < k
      BY <2>1 DEF Newest
    <3> QED
      BY <1>1, <2>1, <3>1, <3>2
  <2>2. CASE j = k /\ \E x \in DOMAIN m : m[x] = t
    <3>1. PICK x \in DOMAIN m : m[x] = t
      BY <2>2
    <3>2. \A u : u = m[x] => Past(u)'
      OBVIOUS
    <3>3. Past(t)' /\ t \in Nat
      BY <1>4, <3>1, <3>2
    <3>4. ~Past(t)
      <4>1. SUFFICES ASSUME Past(t) PROVE FALSE
        OBVIOUS
      <4>2. t < t
        BY <3>1, <4>1
      <4> QED
        BY <3>3, <4>2
    <3>5. k <= t
      <4>1. CASE k = m[1]
        BY <3>1, <4>1
      <4>2. CASE Past(k)
        <5>1. k < t
          BY <3>1, <4>2
        <5> QED
          BY <1>5, <3>3, <5>1
      <4> QED
        BY <4>1, <4>2
    <3>6. \A i \in DOMAIN lists' : ~(j < i)
      BY <1>5, <1>7, <2>2
    <3> QED
      BY <2>2, <3>3, <3>4, <3>5, <3>6
  <2> QED
    BY <1>1, <1>8, <2>1, <2>2
<1>9. Newest(key)'
  <2>1. ASSUME NEW j, NEW t, Holds(j, t)', j < k PROVE t < k
    <3>1. j # k
      BY <1>5, <2>1
    <3> QED
      BY <1>1, <2>1, <3>1 DEF Newest
  <2> QED
    BY <1>7, <2>1 DEF Newest
<1>10. Past(key)'
  BY <1>5 DEF Past
<1> QED
  BY <1>6, <1>8, <1>9, <1>10 DEF Partition

\* LPUSH keeps the lists apart, and does not give the query new debts.
LEMMA LPushRange ==
    ASSUME Inv, Ordered, Partition, Loop, Owing, LPush
    PROVE  Ordered' /\ Partition' /\ Loop' /\ Owing'
<1>1. Clock /\ Waiting /\ Current
  BY DEF Inv
<1> DEFINE m == Head(queue)
<1>2. /\ daemon = "ready" /\ queue # <<>> /\ queue' = Tail(queue)
      /\ now' = now /\ stepped' = stepped /\ filling' = filling /\ UNCHANGED scraperVars
  BY DEF LPush, PushRotating
<1>3. \/ key' = m[1] /\ lists' = IF connected THEN Pushed(m[1], m) ELSE lists
      \/ key' = key /\ lists' = IF connected THEN Pushed(key, m) ELSE lists
  BY DEF LPush, PushRotating
<1>4. m = Oldest /\ Oldest # <<>> /\ Stamped(m[1], Latest)
  BY <1>1, <1>2, WaitingStores
<1>5. /\ Ordered'
      /\ \A t : Past(t) => Past(t)'
      /\ \A x \in DOMAIN m : /\ m[1] <= m[x]
                             /\ \A t : Past(t) => t < m[x]
                             /\ \A t : t = m[x] => Past(t)'
  BY <1>1, <1>2, <1>4, OrderedStores
<1>6. 1 \in DOMAIN m
  <2>1. queue \in Seq(Seq(Nat)) /\ Oldest = queue[1]
    BY <1>1, <1>2 DEF Waiting, Oldest
  <2>2. 1 \in 1 .. Len(queue)
    BY <1>2, <2>1
  <2>3. m \in Seq(Nat) /\ m # <<>>
    BY <1>4, <2>1, <2>2
  <2> QED
    BY <2>3
<1> HIDE DEF m
<1>7. Past(key) /\ Newest(key)
  BY <1>2 DEF Partition
<1>8. PICK k : /\ key' = k /\ lists' = IF connected THEN Pushed(k, m) ELSE lists
               /\ k = m[1] \/ k = key
  BY <1>3
<1>9. Newest(k)
  <2>1. CASE k = m[1]
    <3>1. m[1] \in Nat /\ \A t : Past(t) => t \in Nat /\ t < m[1]
      BY <1>4, <1>5, <1>6 DEF Stamped, Past
    <3>2. \A j \in DOMAIN lists : Past(j)
      BY DEF Partition
    <3>3. \A j, t : Holds(j, t) => Past(t)
      BY DEF Partition
    <3> QED
      BY <2>1, <3>1, <3>2, <3>3 DEF Newest
  <2>2. CASE k = key
    BY <1>7, <2>2
  <2> QED
    BY <1>8, <2>1, <2>2
<1>10. k = m[1] \/ Past(k)
  BY <1>7, <1>8
<1>11. Partition' /\ \A j, t : Holds(j, t)' => Holds(j, t) \/ ~Past(t)
  <2>1. CASE connected
    <3>1. lists' = Pushed(k, m) /\ key' = k
      BY <1>8, <2>1
    <3> QED
      BY <1>5, <1>6, <1>9, <1>10, <3>1, PushedPartition
  <2>2. CASE ~connected
    <3>1. lists' = lists /\ key' = k
      BY <1>8, <2>2
    <3>2. Past(k)'
      BY <1>5, <1>6, <1>10
    <3>3. \A j, t : Holds(j, t)' <=> Holds(j, t)
      BY <3>1 DEF Holds
    <3>4. Past(key)' /\ Newest(key)'
      BY <1>9, <3>1, <3>2, <3>3 DEF Past, Newest
    <3>5. \A j \in DOMAIN lists' : Past(j)'
      BY <1>5, <3>1 DEF Partition
    <3>6. ASSUME NEW j, NEW t, Holds(j, t)'
          PROVE  Past(t)' /\ j <= t /\ \A i \in DOMAIN lists' : j < i => t < i
      <4>1. Past(t) /\ j <= t /\ \A i \in DOMAIN lists : j < i => t < i
        BY <3>3, <3>6 DEF Partition
      <4> QED
        BY <1>5, <3>1, <4>1
    <3> QED
      BY <3>3, <3>4, <3>5, <3>6 DEF Partition
  <2> QED
    BY <1>1, <2>1, <2>2 DEF Current
<1>12. \A t \in owed : Past(t)
  BY DEF Owing
<1>13. Loop' /\ Owing'
  BY <1>2, <1>5, <1>11, <1>12, QueryKept
<1> QED
  BY <1>5, <1>11, <1>13

\* A step of the query changes nothing that is stored or waits.
LEMMA ScraperRests ==
    ASSUME Clock, Waiting, Ordered, Partition,
           UNCHANGED <<now, stepped, readerVars, daemonVars, lists>>
    PROVE  /\ Ordered' /\ Partition'
           /\ \A t : Past(t) => Past(t)'
           /\ \A k, t : Holds(k, t)' => Holds(k, t)
<1>1. UNCHANGED <<now, stepped, filling, queue, daemon, lastRotation, key, lists>>
  BY DEF readerVars, daemonVars
<1>2. Ordered'
  BY <1>1, OrderedRests DEF readerVars
<1>3. \A t : Past(t) => Past(t)'
  BY <1>1 DEF Past, Oldest
<1>4. Shrunk
  BY <1>1 DEF Shrunk
<1>5. Partition'
  BY <1>1, <1>3, <1>4, PartitionKept
<1>6. \A k, t : Holds(k, t)' => Holds(k, t)
  BY <1>4, ShrunkHolds
<1> QED
  BY <1>2, <1>3, <1>5, <1>6

\* keys(): every list that holds something of the window is among the keys, and
\* the others lie before it or after what it holds.
LEMMA KeysRange ==
    ASSUME Inv, Ordered, Partition, Loop, Keys
    PROVE  Ordered' /\ Partition' /\ Loop' /\ Owing'
<1>1. /\ UNCHANGED <<now, stepped, readerVars, daemonVars, lists>>
      /\ keys' = DOMAIN lists /\ last_key' = 0 /\ readout_keys' = <<>> /\ scraper' = "read"
      /\ owed' = IF \E k \in DOMAIN lists : low' < k /\ k < high'
                 THEN {t \in CyclesIn(lists) : low' < t /\ t < high'} ELSE {}
  BY DEF Keys
<1>2. low' \in Nat /\ high' \in Nat
  <2>1. PICK w \in Windows : low' = w[1] /\ high' = w[2]
    BY DEF Keys
  <2>2. w \in (0 .. MaxTime) \X (0 .. MaxTime) /\ MaxTime \in Nat
    BY ClockAssumption
  <2> QED
    BY <2>1, <2>2
<1>3. /\ Ordered' /\ Partition' /\ \A t : Past(t) => Past(t)'
      /\ \A k, t : Holds(k, t)' => Holds(k, t)
  BY <1>1, ScraperRests DEF Inv
<1>4. \A k \in DOMAIN lists : k \in Nat
  BY DEF Partition, Past
<1>5. owed' # {} => \E k \in DOMAIN lists : low' < k /\ k < high'
  BY <1>1
<1>6. Loop'
  <2>1. keys' \subseteq Nat /\ last_key' \in Nat /\ readout_keys' \in Seq(Nat)
    BY <1>1, <1>4
  <2>2. owed' # {} => \E k \in keys' : Inside(k)'
    BY <1>1, <1>5 DEF Inside
  <2> QED
    BY <1>1, <1>2, <2>1, <2>2 DEF Loop
<1>7. ASSUME NEW t \in owed'
      PROVE  Past(t)' /\ Inside(t)' /\ \A k : Holds(k, t)' => t \in message' \/ Selected(k, t)'
  <2>1. t \in CyclesIn(lists) /\ low' < t /\ t < high'
    BY <1>1
  <2>2. Inside(t)'
    BY <2>1 DEF Inside
  <2>3. PICK j : Holds(j, t)
    BY <2>1 DEF CyclesIn, Measurements, ToSet, Holds
  <2>4. Past(t)'
    BY <1>3, <2>3 DEF Partition
  <2>5. ASSUME NEW k, Holds(k, t)' PROVE Selected(k, t)'
    <3>1. Holds(k, t)
      BY <1>3, <2>5
    <3>2. k \in DOMAIN lists /\ \A i \in DOMAIN lists : k < i => t < i
      BY <3>1 DEF Partition, Holds
    <3>3. k \in keys' /\ \A i \in keys' : k < i => t < i
      BY <1>1, <3>2
    <3> QED
      BY <3>3 DEF Selected
  <2> QED
    BY <2>2, <2>4, <2>5
<1> QED
  BY <1>3, <1>6, <1>7 DEF Owing

\* A turn of the loop passes no list that holds something owed.
LEMMA VisitRange ==
    ASSUME Inv, Ordered, Partition, Loop, Owing, Visit
    PROVE  Ordered' /\ Partition' /\ Loop' /\ Owing'
<1>1. /\ UNCHANGED <<now, stepped, readerVars, daemonVars, lists>>
      /\ UNCHANGED <<scraper, low, high, message, owed>>
  BY DEF Visit, VisitAfter
<1>2. PICK k \in keys :
        /\ \A j \in keys : k <= j
        /\ \/ /\ Inside(k)
              /\ readout_keys' = Append(IF readout_keys = <<>> THEN <<last_key>> ELSE readout_keys, k)
              /\ keys' = keys \ {k} /\ last_key' = k
           \/ /\ ~Inside(k) /\ k > high
              /\ readout_keys' = Append(readout_keys, k)
              /\ keys' = {} /\ last_key' = last_key
           \/ /\ ~Inside(k) /\ k <= high
              /\ keys' = keys \ {k} /\ last_key' = k
              /\ readout_keys' = readout_keys
  BY DEF Visit, VisitAfter
<1>3. /\ Ordered' /\ Partition' /\ \A t : Past(t) => Past(t)'
      /\ \A j, t : Holds(j, t)' => Holds(j, t)
  BY <1>1, ScraperRests DEF Inv
<1>4. /\ low \in Nat /\ high \in Nat
      /\ keys \subseteq Nat /\ last_key \in Nat /\ readout_keys \in Seq(Nat)
      /\ scraper = "idle" => owed = {} /\ keys = {}
      /\ readout_keys # <<>> => \A j \in keys : low < j
      /\ owed # {} /\ readout_keys = <<>> /\ keys # {} => \E j \in keys : Inside(j)
  BY DEF Loop
<1>5. k \in Nat /\ \A j \in keys : j \in Nat /\ (j = k \/ k < j)
  BY <1>2, <1>4
<1>6. \A t : Inside(t) <=> low < t /\ t < high
  BY DEF Inside
<1>7. \A t : Inside(t)' <=> Inside(t)
  BY <1>1 DEF Inside
<1>8. scraper' # "idle"
  BY <1>1, <1>2, <1>4
<1>9. ASSUME NEW t \in owed
      PROVE  /\ Past(t)' /\ Inside(t)
             /\ \A j : Holds(j, t)' => t \in message \/ (Selected(j, t) /\ j <= t)
             /\ t \in Nat /\ low < t /\ t < high
  <2>1. Past(t) /\ Inside(t) /\ \A j : Holds(j, t) => t \in message \/ Selected(j, t)
    BY DEF Owing
  <2>2. \A j : Holds(j, t) => j <= t
    BY DEF Partition
  <2>3. t \in Nat
    BY <2>1 DEF Past
  <2> QED
    BY <1>3, <1>6, <2>1, <2>2, <2>3
<1>10. CASE /\ Inside(k)
            /\ readout_keys' = Append(IF readout_keys = <<>> THEN <<last_key>> ELSE readout_keys, k)
            /\ keys' = keys \ {k} /\ last_key' = k
  <2> DEFINE r == IF readout_keys = <<>> THEN <<last_key>> ELSE readout_keys
  <2>1. r \in Seq(Nat) /\ (readout_keys = <<>> => Len(r) = 1 /\ r[1] = last_key)
                       /\ (readout_keys # <<>> => r = readout_keys)
    BY <1>4
  <2> HIDE DEF r
  <2>2. /\ readout_keys' \in Seq(Nat) /\ readout_keys' # <<>>
        /\ Len(readout_keys') = Len(r) + 1 /\ readout_keys'[Len(r) + 1] = k
        /\ \A i \in 1 .. Len(r) : readout_keys'[i] = r[i]
    <3>1. readout_keys' = Append(r, k)
      BY <1>10 DEF r
    <3> QED
      BY <1>5, <2>1, <3>1
  <2>3. Len(r) \in Nat
    BY <2>1
  <2>4. Loop'
    <3>1. keys' \subseteq Nat /\ last_key' \in Nat
      BY <1>4, <1>5, <1>10
    <3>2. \A j \in keys' : low < j
      BY <1>4, <1>5, <1>6, <1>10
    <3> QED
      BY <1>1, <1>4, <1>8, <2>2, <3>1, <3>2 DEF Loop
  <2>5. ASSUME NEW t \in owed, NEW j, Selected(j, t) PROVE Selected(j, t)'
    <3>1. CASE \E i \in 1 .. Len(readout_keys) : readout_keys[i] = j
      <4>1. PICK i \in 1 .. Len(readout_keys) : readout_keys[i] = j
        BY <3>1
      <4>2. readout_keys # <<>>
        BY <1>4, <4>1
      <4>3. i \in 1 .. Len(readout_keys') /\ readout_keys'[i] = j
        BY <2>1, <2>2, <2>3, <4>1, <4>2
      <4> QED
        BY <4>3 DEF Selected
    <3>2. CASE j \in keys /\ \A i \in keys : j < i => t < i
      <4>1. CASE j = k
        <5>1. Len(r) + 1 \in 1 .. Len(readout_keys')
          BY <2>2, <2>3
        <5> QED
          BY <2>2, <4>1, <5>1 DEF Selected
      <4>2. CASE j # k
        BY <1>10, <3>2, <4>2 DEF Selected
      <4> QED
        BY <4>1, <4>2
    <3>3. CASE j = last_key /\ readout_keys = <<>>
      <4>1. 1 \in 1 .. Len(readout_keys') /\ 1 \in 1 .. Len(r) /\ r[1] = j
        BY <2>1, <2>2, <2>3, <3>3
      <4>2. readout_keys'[1] = j
        BY <2>2, <4>1
      <4> QED
        BY <4>1, <4>2 DEF Selected
    <3> QED
      BY <2>5, <3>1, <3>2, <3>3 DEF Selected
  <2> QED
    BY <1>1, <1>3, <1>7, <1>9, <2>4, <2>5 DEF Owing
<1>11. CASE /\ ~Inside(k) /\ k > high
            /\ readout_keys' = Append(readout_keys, k)
            /\ keys' = {} /\ last_key' = last_key
  <2>1. Len(readout_keys) \in Nat
    BY <1>4
  <2>2. /\ readout_keys' \in Seq(Nat) /\ readout_keys' # <<>>
        /\ Len(readout_keys') = Len(readout_keys) + 1
        /\ \A i \in 1 .. Len(readout_keys) : readout_keys'[i] = readout_keys[i]
    BY <1>4, <1>5, <1>11
  <2>3. Loop'
    BY <1>1, <1>4, <1>8, <1>11, <2>2 DEF Loop
  <2>4. ASSUME NEW t \in owed, NEW j, Selected(j, t), j <= t PROVE Selected(j, t)'
    <3>1. CASE \E i \in 1 .. Len(readout_keys) : readout_keys[i] = j
      <4>1. PICK i \in 1 .. Len(readout_keys) : readout_keys[i] = j
        BY <3>1
      <4>2. i \in 1 .. Len(readout_keys') /\ readout_keys'[i] = j
        BY <2>1, <2>2, <4>1
      <4> QED
        BY <4>2 DEF Selected
    <3>2. CASE j \in keys
      <4>1. j \in Nat /\ k <= j
        BY <1>2, <1>4, <3>2
      <4>2. t \in Nat /\ t < high
        BY <1>9
      <4>3. FALSE
        BY <1>4, <1>5, <1>11, <2>4, <4>1, <4>2
      <4> QED
        BY <4>3
    <3>3. CASE readout_keys = <<>>
      <4>1. PICK i \in keys : Inside(i)
        BY <1>2, <1>4, <2>4, <3>3
      <4>2. i \in Nat /\ k <= i /\ i < high
        BY <1>2, <1>4, <1>6, <4>1
      <4>3. FALSE
        BY <1>4, <1>5, <1>11, <4>2
      <4> QED
        BY <4>3
    <3> QED
      BY <2>4, <3>1, <3>2, <3>3 DEF Selected
  <2> QED
    BY <1>1, <1>3, <1>7, <1>9, <2>3, <2>4 DEF Owing
<1>12. CASE /\ ~Inside(k) /\ k <= high
            /\ keys' = keys \ {k} /\ last_key' = k
            /\ readout_keys' = readout_keys
  <2>1. k <= low \/ k = high
    BY <1>4, <1>5, <1>6, <1>12
  <2>2. owed # {} /\ readout_keys = <<>> => \E i \in keys' : Inside(i)
    <3>1. SUFFICES ASSUME owed # {}, readout_keys = <<>> PROVE \E i \in keys' : Inside(i)
      OBVIOUS
    <3>2. PICK i \in keys : Inside(i)
      BY <1>2, <1>4, <3>1
    <3>3. i # k
      BY <1>12, <3>2
    <3> QED
      BY <1>12, <3>2, <3>3
  <2>3. Loop'
    <3>1. keys' \subseteq Nat /\ last_key' \in Nat
      BY <1>4, <1>5, <1>12
    <3>2. readout_keys' # <<>> => \A j \in keys' : low' < j
      BY <1>1, <1>4, <1>12
    <3>3. owed' # {} /\ readout_keys' = <<>> => \E j \in keys' : Inside(j)'
      BY <1>1, <1>7, <1>12, <2>2
    <3> QED
      BY <1>1, <1>4, <1>8, <1>12, <3>1, <3>2, <3>3 DEF Loop
  <2>4. ASSUME NEW t \in owed, NEW j, Selected(j, t), j <= t PROVE Selected(j, t)'
    <3>1. CASE \E i \in 1 .. Len(readout_keys) : readout_keys[i] = j
      BY <1>12, <3>1 DEF Selected
    <3>2. CASE j \in keys /\ \A i \in keys : j < i => t < i
      <4>1. CASE j # k
        BY <1>12, <3>2, <4>1 DEF Selected
      <4>2. CASE j = k
        <5>1. t \in Nat /\ low < t /\ t < high
          BY <1>9
        <5>2. k <= low
          BY <1>4, <1>5, <2>1, <2>4, <4>2, <5>1
        <5>3. readout_keys = <<>>
          BY <1>2, <1>4, <1>5, <5>2
        <5>4. keys' # {}
          BY <2>2, <2>4, <5>3
        <5>5. \A i \in keys' : t < i
          BY <1>5, <1>12, <3>2, <4>2
        <5> QED
          BY <1>12, <4>2, <5>3, <5>4, <5>5 DEF Selected
      <4> QED
        BY <4>1, <4>2
    <3>3. CASE readout_keys = <<>> /\ \A i \in keys : t < i
      <4>1. t \in Nat /\ low < t /\ t < high
        BY <1>9
      <4>2. t < k
        BY <1>2, <3>3
      <4>3. k = high
        BY <1>4, <1>5, <2>1, <4>1, <4>2
      <4>4. PICK i \in keys : Inside(i)
        BY <1>2, <1>4, <2>4, <3>3
      <4>5. i \in Nat /\ k <= i /\ i < high
        BY <1>2, <1>4, <1>6, <4>4
      <4>6. FALSE
        BY <1>4, <1>5, <4>3, <4>5
      <4> QED
        BY <4>6
    <3> QED
      BY <2>4, <3>1, <3>2, <3>3 DEF Selected
  <2> QED
    BY <1>1, <1>3, <1>7, <1>9, <2>3, <2>4 DEF Owing
<1> QED
  BY <1>2, <1>10, <1>11, <1>12

\* What is left of the chosen keys.
LEMMA RestOfKeys ==
    ASSUME NEW q \in Seq(Nat), q # <<>>
    PROVE  /\ Tail(q) \in Seq(Nat)
           /\ \A k : (\E i \in 1 .. Len(q) : q[i] = k) =>
                        k = Head(q) \/ \E i \in 1 .. Len(Tail(q)) : Tail(q)[i] = k
<1> DEFINE p == Tail(q)
<1>1. Len(q) \in Nat /\ Head(q) = q[1] /\ p \in Seq(Nat) /\ Len(p) = Len(q) - 1
  OBVIOUS
<1>2. \A i \in 1 .. Len(q) - 1 : p[i] = q[i + 1]
  OBVIOUS
<1> HIDE DEF p
<1>3. ASSUME NEW i \in 1 .. Len(q), i # 1
      PROVE  \E j \in 1 .. Len(p) : p[j] = q[i]
  <2>1. i - 1 \in 1 .. Len(q) - 1 /\ (i - 1) + 1 = i
    BY <1>1, <1>3
  <2>2. p[i - 1] = q[i]
    BY <1>2, <2>1
  <2> QED
    BY <1>1, <2>1, <2>2
<1> QED
  BY <1>1, <1>3 DEF p

\* LRANGE on the next list returns what is owed of it.
LEMMA LRangeRange ==
    ASSUME Inv, Ordered, Partition, Loop, Owing, LRange
    PROVE  Ordered' /\ Partition' /\ Loop' /\ Owing'
<1> DEFINE h == Head(readout_keys)
           found == IF h \in DOMAIN lists
                    THEN {t \in UNION {ToSet(m) : m \in lists[h].items} : Inside(t)}
                    ELSE {}
<1>1. /\ UNCHANGED <<now, stepped, readerVars, daemonVars, lists>>
      /\ UNCHANGED <<scraper, low, high, keys, last_key, owed>>
      /\ keys = {} /\ readout_keys # <<>> /\ readout_keys' = Tail(readout_keys)
      /\ message' = message \cup found
  BY DEF LRange
<1>2. /\ Ordered' /\ Partition' /\ \A t : Past(t) => Past(t)'
      /\ \A k, t : Holds(k, t)' => Holds(k, t)
  BY <1>1, ScraperRests DEF Inv
<1>3. readout_keys \in Seq(Nat)
  BY DEF Loop
<1>4. readout_keys' \in Seq(Nat)
  BY <1>1, <1>3, RestOfKeys
<1>5. Loop'
  BY <1>1, <1>4 DEF Loop
<1>6. \A t : Inside(t) => Inside(t)'
  BY <1>1 DEF Inside
<1>7. ASSUME NEW t, Inside(t), Holds(h, t) PROVE t \in found
  <2>1. h \in DOMAIN lists
    BY <1>7 DEF Holds
  <2>2. PICK m \in lists[h].items : \E x \in DOMAIN m : m[x] = t
    BY <1>7 DEF Holds
  <2>3. t \in ToSet(m)
    BY <2>2 DEF ToSet
  <2> QED
    BY <1>7, <2>1, <2>3
<1> HIDE DEF h, found
<1>8. \A k, t : Selected(k, t) => k = h \/ Selected(k, t)'
  <2>1. SUFFICES ASSUME NEW k, NEW t, Selected(k, t), k # h PROVE Selected(k, t)'
    OBVIOUS
  <2>2. \E i \in 1 .. Len(readout_keys) : readout_keys[i] = k
    BY <1>1, <2>1 DEF Selected
  <2>3. \E i \in 1 .. Len(readout_keys') : readout_keys'[i] = k
    BY <1>1, <1>3, <2>1, <2>2, RestOfKeys DEF h
  <2> QED
    BY <2>3 DEF Selected
<1>9. ASSUME NEW t \in owed'
      PROVE  Past(t)' /\ Inside(t)' /\ \A k : Holds(k, t)' => t \in message' \/ Selected(k, t)'
  <2>1. t \in owed
    BY <1>1
  <2>2. Past(t) /\ Inside(t) /\ \A k : Holds(k, t) => t \in message \/ Selected(k, t)
    BY <2>1 DEF Owing
  <2>3. ASSUME NEW k, Holds(k, t)' PROVE t \in message' \/ Selected(k, t)'
    <3>1. Holds(k, t)
      BY <1>2, <2>3
    <3>2. t \in message \/ Selected(k, t)
      BY <2>2, <3>1
    <3>3. k = h => t \in found
      BY <1>7, <2>2, <3>1
    <3> QED
      BY <1>1, <1>8, <3>2, <3>3
  <2> QED
    BY <1>2, <1>6, <2>2, <2>3
<1> QED
  BY <1>2, <1>5, <1>9 DEF Owing

\* The query ends and owes nothing.
LEMMA ReturnRange ==
    ASSUME Inv, Ordered, Partition, Loop, Return
    PROVE  Ordered' /\ Partition' /\ Loop' /\ Owing'
<1>1. /\ UNCHANGED <<now, stepped, readerVars, daemonVars, lists, keys, readout_keys>>
      /\ keys = {} /\ readout_keys = <<>>
      /\ low' = 0 /\ high' = 0 /\ last_key' = 0 /\ owed' = {}
  BY DEF Return
<1>2. Ordered' /\ Partition'
  BY <1>1, ScraperRests DEF Inv
<1>3. Loop'
  BY <1>1 DEF Loop
<1>4. Owing'
  BY <1>1 DEF Owing
<1> QED
  BY <1>2, <1>3, <1>4

\* A tick drops lists, and may begin a measurement.
LEMMA AdvanceRange ==
    ASSUME Inv, Ordered, Partition, Loop, Owing, Tick \/ ReadCycle
    PROVE  Ordered' /\ Partition' /\ Loop' /\ Owing'
<1>1. Clock /\ Waiting
  BY DEF Inv
<1>2. Advance
  BY DEF Tick, ReadCycle
<1>3. /\ now' = now + 1 /\ stepped' = stepped
      /\ UNCHANGED daemonVars /\ UNCHANGED scraperVars
  BY <1>2 DEF Advance
<1>4. Ordered'
  BY <1>1, <1>3, OrderedRests, OrderedReads DEF Tick
<1>5. Oldest' # <<>> => \/ Oldest # <<>> /\ Oldest'[1] = Oldest[1]
                        \/ now' = now + 1 /\ Oldest'[1] = now'
  <2>1. CASE Tick
    <3>1. Oldest' = Oldest
      BY <1>1, <1>3, <2>1, WaitingRests DEF Tick
    <3> QED
      BY <3>1
  <2>2. CASE ReadCycle
    BY <1>1, <1>3, <2>2, WaitingReads
  <2> QED
    BY <2>1, <2>2
<1>6. ASSUME NEW t, Past(t) PROVE Past(t)'
  BY <1>1, <1>3, <1>5, <1>6, PastKept
<1>7. Shrunk
  <2> DEFINE Kept == {k \in DOMAIN lists : lists[k].expires = Never \/ lists[k].expires >= now'}
  <2>1. lists' = [k \in Kept |-> lists[k]]
    BY <1>2 DEF Advance, Restrict
  <2> QED
    BY <2>1 DEF Shrunk
<1>8. daemon' = daemon /\ key' = key
  BY <1>3 DEF daemonVars
<1>9. Partition'
  BY <1>6, <1>7, <1>8, PartitionKept
<1>10. \A k, t : Holds(k, t)' => Holds(k, t)
  BY <1>7, ShrunkHolds
<1>11. Loop' /\ Owing'
  BY <1>3, <1>6, <1>10, QueryKept
<1> QED
  BY <1>4, <1>9, <1>11

\* FLUSHALL, EXPIRE, the end of the daemon or of its connection and its next
\* start store nothing.
LEMMA DaemonRange ==
    ASSUME Inv, Ordered, Partition, Loop, Owing, FlushAll \/ Expire \/ Disconnect \/ Exit \/ Restart
    PROVE  Ordered' /\ Partition' /\ Loop' /\ Owing'
<1>1. Clock /\ Waiting
  BY DEF Inv
<1>2. now' = now /\ stepped' = stepped /\ UNCHANGED scraperVars
  BY DEF FlushAll, Expire, ExpireIn, Disconnect, Exit, Restart
<1>3. UNCHANGED readerVars \/ (filling' = <<>> /\ queue' = <<>>)
  BY DEF FlushAll, Expire, ExpireIn, Disconnect, Exit, Restart
<1>4. Ordered'
  <2>1. CASE UNCHANGED readerVars
    BY <1>1, <1>2, <2>1, OrderedRests
  <2>2. CASE filling' = <<>> /\ queue' = <<>>
    BY <2>2 DEF Ordered, Rising
  <2> QED
    BY <1>3, <2>1, <2>2
<1>5. Oldest' # <<>> => Oldest' = Oldest
  <2>1. CASE UNCHANGED readerVars
    BY <1>1, <1>2, <2>1, WaitingRests
  <2>2. CASE filling' = <<>> /\ queue' = <<>>
    BY <2>2 DEF Oldest
  <2> QED
    BY <1>3, <2>1, <2>2
<1>6. ASSUME NEW t, Past(t) PROVE Past(t)'
  BY <1>2, <1>5, <1>6 DEF Past
<1>7. Shrunk
  <2>1. CASE FlushAll
    <3>1. lists' = <<>>
      BY <2>1 DEF FlushAll
    <3> QED
      BY <3>1 DEF Shrunk
  <2>2. CASE Expire
    BY <2>2, ExpireInv DEF Shrunk
  <2>3. CASE Disconnect \/ Exit \/ Restart
    BY <2>3 DEF Disconnect, Exit, Restart, Shrunk
  <2> QED
    BY <2>1, <2>2, <2>3
<1>8. daemon' \in {"ready", "expire"} =>
          \/ daemon \in {"ready", "expire"} /\ key' = key
          \/ Past(key)' /\ DOMAIN lists' = {}
  <2>1. CASE FlushAll
    <3>1. key' = 0 /\ DOMAIN lists' = {}
      BY <2>1 DEF FlushAll, Inv, Current, Epoch
    <3>2. Past(0)
      <4>1. now \in Nat
        BY <1>1, ClockLate
      <4>2. Oldest # <<>> => Oldest[1] \in Nat /\ Oldest[1] >= Rotation
        BY <1>1, OldestStamped, StampLate
      <4>3. Oldest # <<>> => 0 < Oldest[1]
        BY <4>2, Spans
      <4> QED
        BY <4>1, <4>3 DEF Past
    <3>3. Past(key)'
      <4>1. Past(0)'
        BY <1>6, <3>2
      <4> QED
        BY <3>1, <4>1 DEF Past
    <3> QED
      BY <3>1, <3>3
  <2>2. CASE Expire \/ Disconnect \/ Exit \/ Restart
    BY <2>2 DEF Expire, ExpireIn, Disconnect, Exit, Restart
  <2> QED
    BY <2>1, <2>2
<1>9. Partition'
  BY <1>6, <1>7, <1>8, PartitionKept
<1>10. \A k, t : Holds(k, t)' => Holds(k, t)
  BY <1>7, ShrunkHolds
<1>11. Loop' /\ Owing'
  BY <1>2, <1>6, <1>10, QueryKept
<1> QED
  BY <1>4, <1>9, <1>11

\* Redis is empty, and the query has not begun.
LEMMA InitRange ==
    ASSUME Init
    PROVE  RangeInv
<1>1. /\ filling = <<>> /\ queue = <<>> /\ daemon = "flush" /\ lists = <<>>
      /\ low = 0 /\ high = 0 /\ keys = {} /\ last_key = 0 /\ readout_keys = <<>> /\ owed = {}
  BY DEF Init
<1>2. Ordered
  BY <1>1 DEF Ordered, Rising
<1>3. DOMAIN lists = {}
  BY <1>1
<1>4. Partition
  BY <1>1, <1>3 DEF Partition, Holds
<1>5. Loop
  BY <1>1 DEF Loop
<1>6. Owing
  BY <1>1 DEF Owing
<1> QED
  BY <1>2, <1>4, <1>5, <1>6, InitInv DEF RangeInv

\* Every step.
LEMMA NextRange ==
    ASSUME RangeInv, [Next]_vars
    PROVE  RangeInv'
<1>1. Inv /\ Inv'
  BY NextInv DEF RangeInv
<1>2. SUFFICES ASSUME ~stepped' PROVE Ordered' /\ Partition' /\ Loop' /\ Owing'
  BY <1>1 DEF RangeInv
<1>3. ~SetBack
  BY <1>2 DEF SetBack
<1>4. stepped' = stepped
  BY <1>3 DEF Next, Tick, ReadCycle, Advance, FlushAll, sendToRedis, LPush, PushRotating,
              Expire, ExpireIn, Disconnect, Exit, Restart, getRange, Keys, Visit, VisitAfter, LRange,
              Return, vars
<1>5. Ordered /\ Partition /\ Loop /\ Owing
  BY <1>2, <1>4 DEF RangeInv
<1>6. CASE Tick \/ ReadCycle
  BY <1>1, <1>5, <1>6, AdvanceRange
<1>7. CASE LPush
  BY <1>1, <1>5, <1>7, LPushRange
<1>8. CASE FlushAll \/ Expire \/ Disconnect \/ Exit \/ Restart
  BY <1>1, <1>5, <1>8, DaemonRange
<1>9. CASE getRange
  BY <1>1, <1>5, <1>9, KeysRange, VisitRange, LRangeRange, ReturnRange DEF getRange
<1>10. CASE UNCHANGED vars
  <2>1. /\ UNCHANGED <<now, stepped, readerVars, daemonVars, lists>>
        /\ UNCHANGED scraperVars
    BY <1>10 DEF vars
  <2>2. /\ Ordered' /\ Partition' /\ \A t : Past(t) => Past(t)'
        /\ \A k, t : Holds(k, t)' => Holds(k, t)
    BY <1>1, <1>5, <2>1, ScraperRests DEF Inv
  <2> QED
    BY <1>5, <2>1, <2>2, QueryKept
<1> QED
  BY <1>3, <1>6, <1>7, <1>8, <1>9, <1>10 DEF Next, sendToRedis

\* As long as the clock is not set back, what the Reader stamps is stored in
\* the order of time, each list holds what lies between its key and the next,
\* and getRange's choice leaves out no list that holds something it owes.
THEOREM RangeInvariant == Spec => []RangeInv
<1>1. Init => RangeInv
  BY InitRange
<1>2. RangeInv /\ [Next]_vars => RangeInv'
  BY NextRange
<1> QED
  BY <1>1, <1>2, PTL DEF Spec

\* getRange returns every cycle of the window that stays stored while it
\* reads, whatever sendToRedis, the expiry of lists, FLUSHALL and the end of
\* the daemon do between its commands.
THEOREM RangeCorrect == Spec => []RangeComplete
<1>1. RangeInv => RangeComplete
  <2>1. SUFFICES ASSUME RangeInv, keys = {}, readout_keys = <<>>, ~stepped,
                        NEW t \in owed \cap CyclesIn(lists)
                 PROVE  t \in message
    BY DEF RangeComplete
  <2>2. PICK k : Holds(k, t)
    BY <2>1 DEF CyclesIn, Measurements, ToSet, Holds
  <2>3. t \in message \/ Selected(k, t)
    BY <2>1, <2>2 DEF RangeInv, Owing
  <2>4. ~Selected(k, t)
    BY <2>1 DEF Selected
  <2> QED
    BY <2>3, <2>4
<1> QED
  BY <1>1, RangeInvariant, PTL

=============================================================================
