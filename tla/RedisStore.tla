---------------------------- MODULE RedisStore ----------------------------
(***************************************************************************)
(* The measurements in Redis: RedisSerializer::sendToRedis of the          *)
(* triggering daemon stores them in lists that are rotated and expire,     *)
(* RedisScraper.getRange of the acquisition service reads a time window    *)
(* out of them, each through commands that the other's may come between.   *)
(*                                                                         *)
(* Times are ticks of the wall clock the Reader stamps cycles with, which  *)
(* is also the clock of the local Redis server.  A tick stands for the     *)
(* millisecond of keys and cycle times and is shorter than a cycle.  A     *)
(* measurement is the sequence of its cycles' times, a key the time it was *)
(* made of; samples and the order inside a list are left out.              *)
(***************************************************************************)
EXTENDS Integers, Sequences, FiniteSets, SequencesExt

CONSTANTS
    SECOND,                 \* ticks of a second
    redisRecordTTL,         \* the setting redis.ttl, in seconds (100)
    redisRecordRotation,    \* the setting redis.rotation, in seconds (10)
    FramesPerMeasurement,   \* the setting frames_per_measurement (10)
    MaxQueue,               \* bound: measurements that wait before the Reader pauses
    Start, MaxTime,         \* bound: first and last time of the clock
    StepBack,               \* ticks by which the clock is set back, at most once
    Windows                 \* pairs of bounds that are queried

ASSUME ClockAssumption ==
    /\ SECOND \in Nat \ {0} /\ StepBack \in Nat /\ FramesPerMeasurement \in Nat \ {0}
    /\ MaxQueue \in Nat /\ Start \in Nat /\ MaxTime \in Nat
    /\ Windows \subseteq (0 .. MaxTime) \X (0 .. MaxTime)
\* The epoch is long ago, so the first measurement starts a list.
ASSUME EpochAssumption == Start - StepBack >= (redisRecordRotation + 1) * SECOND
ASSUME TtlAssumption == redisRecordTTL \in Nat /\ redisRecordRotation \in Nat

VARIABLES
    now, stepped,       \* the clock; was it set back?
    filling,            \* Reader: the measurement being filled
    queue,              \* measurements on their way to sendToRedis
    daemon,             \* "flush", "ready", "expire" or "down"
    connected,          \* does its connection with Redis stand?
    lastRotation, key,
    late,               \* history: keys that were pushed to late
    lists,              \* Redis: key -> [items, expires]
    scraper,            \* "idle" or "read"
    low, high,          \* its window
    keys, last_key,     \* the keys its loop has not visited yet, the last one it has
    readout_keys, message,
    owed                \* history: cycles the query has to return

readerVars  == <<filling, queue>>
daemonVars  == <<daemon, connected, lastRotation, key, late>>
loopVars    == <<keys, last_key, readout_keys>>
scraperVars == <<scraper, low, high, loopVars, message, owed>>
vars == <<now, stepped, readerVars, daemonVars, lists, scraperVars>>

Never == -1
Epoch == 0

Measurements(db) == UNION {db[k].items : k \in DOMAIN db}
CyclesIn(db) == UNION {ToSet(m) : m \in Measurements(db)}
Inside(t) == low < t /\ t < high

Init ==
    /\ now = Start /\ stepped = FALSE
    /\ filling = <<>> /\ queue = <<>>
    /\ daemon = "flush" /\ connected = TRUE
    /\ lastRotation = Epoch /\ key = Epoch /\ late = {}
    /\ lists = <<>>
    /\ scraper = "idle" /\ low = 0 /\ high = 0
    /\ keys = {} /\ last_key = 0 /\ readout_keys = <<>>
    /\ message = {} /\ owed = {}

-----------------------------------------------------------------------------
(***************************************************************************)
(* The clock, and the Reader that stamps cycles with it.                   *)
(***************************************************************************)
\* A tick; Redis drops the lists whose time is over.
Advance ==
    /\ now < MaxTime
    /\ now' = now + 1
    /\ lists' = Restrict(lists, {k \in DOMAIN lists :
                         lists[k].expires = Never \/ lists[k].expires >= now'})
    /\ UNCHANGED <<stepped, daemonVars, scraperVars>>

Tick == Advance /\ UNCHANGED readerVars

\* Reader::loop reads a cycle; the last one completes the measurement.
ReadCycle ==
    /\ daemon # "down" /\ Len(queue) < MaxQueue
    /\ Advance
    /\ LET m == Append(filling, now') IN
       \/ Len(m) < FramesPerMeasurement /\ filling' = m /\ UNCHANGED queue
       \/ Len(m) = FramesPerMeasurement /\ filling' = <<>> /\ queue' = Append(queue, m)

\* The clock is set back, as by NTP.
SetBack ==
    /\ ~stepped /\ StepBack > 0
    /\ now' = now - StepBack
    /\ stepped' = TRUE
    /\ UNCHANGED <<readerVars, daemonVars, lists, scraperVars>>

-----------------------------------------------------------------------------
(***************************************************************************)
(* RedisSerializer.                                                        *)
(***************************************************************************)
\* The constructor: FLUSHALL.
FlushAll ==
    /\ daemon = "flush"
    /\ daemon' = "ready"
    /\ lists' = <<>> /\ late' = {}
    /\ UNCHANGED <<now, stepped, readerVars, connected, lastRotation, key, scraperVars>>

\* Whole seconds between two times.
Difference(a, b) == (a - b) \div SECOND

\* LPUSH makes the list if there is none, without an expiry.
Pushed(k, m) ==
    LET list == IF k \in DOMAIN lists THEN lists[k] ELSE [items |-> {}, expires |-> Never] IN
    [j \in DOMAIN lists \cup {k} |->
        IF j = k THEN [items |-> list.items \cup {m}, expires |-> list.expires] ELSE lists[j]]

\* The time until which a stored measurement is kept at least.
KeptUntil(m) ==
    m[1] + (redisRecordTTL - redisRecordRotation - 1) * SECOND - (IF stepped THEN StepBack ELSE 0)

\* The first half of sendToRedis: make a new key if the old one is older than
\* redis.rotation, LPUSH, and go on with EXPIRE for a new key.  A command on a
\* connection that was lost does nothing, and as the result of redisGetReply is
\* ignored and reply holds anything, the thread may go on (or end, by Exit).
PushRotating(afterNewKey) ==
    /\ daemon = "ready" /\ queue # <<>>
    /\ queue' = Tail(queue)
    /\ LET m == Head(queue) IN
       \/ /\ Difference(m[1], lastRotation) > redisRecordRotation
          /\ lastRotation' = m[1] /\ key' = m[1]
          /\ lists' = IF connected THEN Pushed(m[1], m) ELSE lists
          /\ daemon' = afterNewKey
          /\ UNCHANGED late
       \/ /\ Difference(m[1], lastRotation) <= redisRecordRotation
          /\ lists' = IF connected THEN Pushed(key, m) ELSE lists
          /\ late' = IF now > KeptUntil(m) THEN late \cup {key} ELSE late
          /\ UNCHANGED <<lastRotation, key, daemon>>
    /\ UNCHANGED <<now, stepped, filling, connected, scraperVars>>

\* Mutant: EXPIRE is forgotten.
MNoExpire == PushRotating("ready")

LPush == PushRotating("expire")

\* The second half, for a new key: EXPIRE.
ExpireIn(seconds) ==
    /\ daemon = "expire"
    /\ daemon' = "ready"
    /\ lists' = IF connected /\ key \in DOMAIN lists
                THEN [lists EXCEPT ![key].expires = now + seconds * SECOND]
                ELSE lists
    /\ UNCHANGED <<now, stepped, readerVars, connected, lastRotation, key, late, scraperVars>>

\* Mutant: the one setting for the other.
MExpire == ExpireIn(redisRecordRotation)

Expire == ExpireIn(redisRecordTTL)

\* The connection is lost, before or after Redis got the last command.
Disconnect ==
    /\ daemon \in {"ready", "expire"} /\ connected
    /\ connected' = FALSE
    /\ UNCHANGED <<now, stepped, readerVars, daemon, lastRotation, key, late, lists, scraperVars>>

\* exit(0) after an error reply, or any other end of the process ...
Exit ==
    /\ daemon # "down"
    /\ daemon' = "down"
    /\ filling' = <<>> /\ queue' = <<>>
    /\ UNCHANGED <<now, stepped, connected, lastRotation, key, late, lists, scraperVars>>

\* ... and its next start.
Restart ==
    /\ daemon = "down"
    /\ daemon' = "flush"
    /\ connected' = TRUE
    /\ lastRotation' = Epoch /\ key' = Epoch
    /\ UNCHANGED <<now, stepped, readerVars, late, lists, scraperVars>>

-----------------------------------------------------------------------------
(***************************************************************************)
(* RedisScraper.getRange.                                                  *)
(***************************************************************************)
\* keys(): the loop begins.
Keys ==
    /\ scraper = "idle"
    /\ scraper' = "read"
    /\ \E w \in Windows : low' = w[1] /\ high' = w[2]
    /\ keys' = DOMAIN lists /\ last_key' = 0 /\ readout_keys' = <<>>
    /\ owed' = IF \E k \in DOMAIN lists : low' < k /\ k < high'
               THEN {t \in CyclesIn(lists) : low' < t /\ t < high'} ELSE {}
    /\ UNCHANGED <<now, stepped, readerVars, daemonVars, lists, message>>

\* A turn of the loop over the keys, the least one first; before precedes the
\* first key that lies in the window.
VisitAfter(before) ==
    /\ scraper = "read"
    /\ \E k \in keys :
        /\ \A j \in keys : k <= j
        /\ \/ /\ Inside(k)
              /\ readout_keys' = Append(IF readout_keys = <<>> THEN before ELSE readout_keys, k)
              /\ keys' = keys \ {k} /\ last_key' = k
           \/ /\ ~Inside(k) /\ k > high
              /\ readout_keys' = Append(readout_keys, k)
              /\ keys' = {} /\ UNCHANGED last_key
           \/ /\ ~Inside(k) /\ k <= high
              /\ keys' = keys \ {k} /\ last_key' = k
              /\ UNCHANGED readout_keys
    /\ UNCHANGED <<now, stepped, readerVars, daemonVars, lists,
                   scraper, low, high, message, owed>>

\* Mutant: the list before the window is not read.
MVisit == VisitAfter(<<>>)

Visit == VisitAfter(<<last_key>>)

\* lrange on the next list, and the filter.
LRange ==
    /\ scraper = "read" /\ keys = {} /\ readout_keys # <<>>
    /\ readout_keys' = Tail(readout_keys)
    /\ message' = message \cup
           IF Head(readout_keys) \in DOMAIN lists
           THEN {t \in UNION {ToSet(m) : m \in lists[Head(readout_keys)].items} : Inside(t)}
           ELSE {}
    /\ UNCHANGED <<now, stepped, readerVars, daemonVars, lists,
                   scraper, low, high, keys, last_key, owed>>

Return ==
    /\ scraper = "read" /\ keys = {} /\ readout_keys = <<>>
    /\ scraper' = "idle" /\ low' = 0 /\ high' = 0 /\ last_key' = 0
    /\ message' = {} /\ owed' = {}
    /\ UNCHANGED <<now, stepped, readerVars, daemonVars, lists, keys, readout_keys>>

-----------------------------------------------------------------------------
sendToRedis == LPush \/ Expire
getRange == Keys \/ Visit \/ LRange \/ Return

Next ==
    \/ Tick \/ ReadCycle \/ SetBack
    \/ FlushAll \/ sendToRedis \/ Disconnect \/ Exit \/ Restart
    \/ getRange

Spec == Init /\ [][Next]_vars

-----------------------------------------------------------------------------
(***************************************************************************)
(* Correctness.                                                            *)
(***************************************************************************)
(***************************************************************************)
(* No list is left without an expiry, but for one that waits for EXPIRE,   *)
(* or whose EXPIRE was lost with the connection or the daemon, until       *)
(* FLUSHALL of the next start; and for those that an LPUSH made anew       *)
(* because it came later than the time its measurement would have been     *)
(* kept, which nothing in the code prevents.                               *)
(***************************************************************************)
ListsExpire ==
    LET immortal == {k \in DOMAIN lists \ late : lists[k].expires = Never} IN
    /\ Cardinality(immortal) <= 1
    /\ connected /\ daemon = "ready" => immortal = {}
    /\ connected /\ daemon = "expire" => immortal \subseteq {key}

(***************************************************************************)
(* Unless a start of the daemon flushes it, a stored measurement stays     *)
(* readable until redis.ttl less redis.rotation less one second after it   *)
(* was taken, although all measurements of a list expire together and the  *)
(* list's age is compared in whole seconds.  A clock that was set back     *)
(* takes off at most the time it was set back by.                          *)
(***************************************************************************)
Retained ==
    [][daemon = "flush" \/
       \A m \in Measurements(lists) \ Measurements(lists') : now' > KeptUntil(m)]_vars

(***************************************************************************)
(* A query whose window has a key strictly inside returns every cycle of   *)
(* the window that was stored when keys() was answered and is stored when  *)
(* the query ends, whatever was pushed, rotated, expired or flushed while  *)
(* it read list after list.  The clock must not have been set back: the    *)
(* choice of the lists relies on cycles lying between their key and the    *)
(* next.                                                                   *)
(***************************************************************************)
RangeComplete ==
    (scraper = "read" /\ keys = {} /\ readout_keys = <<>> /\ ~stepped)
        => owed \cap CyclesIn(lists) \subseteq message

=============================================================================
