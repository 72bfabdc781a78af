------------------------------ MODULE Settings ------------------------------
(***************************************************************************)
(* The settings of the triggering daemon (Settings.cpp), a map from keys   *)
(* to values with change callbacks, and the Reader, the one class that     *)
(* registers a callback.  Every operation but saveToFile holds the mutex   *)
(* from its first to its last access, callbacks included, and is one step; *)
(* the Reader's constructor is two operations.                             *)
(*                                                                         *)
(* A value is the number of an int setting, or NotInt for any other type.  *)
(* A file is the set of its lines that loadFromFile does not skip.         *)
(***************************************************************************)
EXTENDS Integers, FiniteSets, FiniteSetsExt, Functions, TLC

CONSTANTS
    Readers,        \* objects of class Reader
    Keys,           \* keys, "frames_per_measurement" among them
    Ints,           \* values of int settings
    MaxId           \* bound: callbacks registered on a key

VARIABLES
    settings,       \* _settings: key -> [setting, callbacks, lastId]
    file,           \* the settings file: key -> value
    reader,         \* "none", "read", "alive" or "gone"
    frames,         \* _frames_per_measurement of each Reader
    handle          \* _fpm_callback_id of each Reader

readerVars == <<reader, frames, handle>>
vars == <<settings, file, readerVars>>

fpm == "frames_per_measurement"
NotInt == -1
Values == Ints \cup {NotInt}

\* A new entry of std::map: lastId is 0, no callbacks.
Entry(v) == [setting |-> v, callbacks |-> <<>>, lastId |-> 0]

\* getSetting and getInt: 0 when the key is missing or of another type.
getInt(k) ==
    IF k \in DOMAIN settings /\ settings[k].setting # NotInt THEN settings[k].setting ELSE 0

\* _settings[k].setting = v.
Assign(db, k, v) == IF k \in DOMAIN db THEN [db EXCEPT ![k].setting = v] ELSE db @@ k :> Entry(v)

Init ==
    /\ settings = <<>>
    /\ file \in UNION {[K -> Values] : K \in SUBSET Keys}
    /\ reader = [r \in Readers |-> "none"]
    /\ frames = [r \in Readers |-> 0]
    /\ handle = [r \in Readers |-> 0]

-----------------------------------------------------------------------------
\* Each callback is called with the value; the Reader's assigns its frames, or
\* throws when the value is not an int.
setSetting(k, v) ==
    /\ settings' = Assign(settings, k, v)
    /\ frames' = [r \in Readers |->
           IF k \in DOMAIN settings /\ v # NotInt /\ r \in Range(settings[k].callbacks)
           THEN v ELSE frames[r]]
    /\ UNCHANGED <<file, reader, handle>>

\* No callback is called.
loadFromFile ==
    /\ settings' = [k \in DOMAIN settings \cup DOMAIN file |->
           IF k \in DOMAIN file THEN Assign(settings, k, file[k])[k] ELSE settings[k]]
    /\ UNCHANGED <<file, readerVars>>

saveToFile ==
    /\ file' = [k \in DOMAIN settings |-> settings[k].setting]
    /\ UNCHANGED <<settings, readerVars>>

erase(k) ==
    /\ settings' = Restrict(settings, DOMAIN settings \ {k})
    /\ UNCHANGED <<file, readerVars>>

clear == settings' = <<>> /\ UNCHANGED <<file, readerVars>>

-----------------------------------------------------------------------------
\* Reader::Reader: getInt ...
ReaderReads(r) ==
    /\ reader[r] = "none"
    /\ reader' = [reader EXCEPT ![r] = "read"]
    /\ frames' = [frames EXCEPT ![r] = getInt(fpm)]
    /\ UNCHANGED <<settings, file, handle>>

\* ... and onChangeCallback, which returns -1 when the key is missing.
onChangeCallback(r, k) ==
    IF k \in DOMAIN settings
    THEN LET id == settings[k].lastId + 1 IN
         /\ id <= MaxId
         /\ settings' = [settings EXCEPT ![k].lastId = id, ![k].callbacks = @ @@ id :> r]
         /\ handle' = [handle EXCEPT ![r] = id]
    ELSE handle' = [handle EXCEPT ![r] = -1] /\ UNCHANGED settings

ReaderRegisters(r) ==
    /\ reader[r] = "read"
    /\ reader' = [reader EXCEPT ![r] = "alive"]
    /\ onChangeCallback(r, fpm)
    /\ UNCHANGED <<file, frames>>

removeChangeCallback(k, id) ==
    settings' = IF k \in DOMAIN settings
                THEN [settings EXCEPT ![k].callbacks = Restrict(@, DOMAIN @ \ {id})]
                ELSE settings

\* Reader::~Reader passes its number of frames, not its handle.
ReaderGoes(r) ==
    /\ reader[r] = "alive"
    /\ reader' = [reader EXCEPT ![r] = "gone"]
    /\ removeChangeCallback(fpm, frames[r])
    /\ UNCHANGED <<file, frames, handle>>

-----------------------------------------------------------------------------
Next ==
    \/ \E k \in Keys : erase(k) \/ \E v \in Values : setSetting(k, v)
    \/ loadFromFile \/ saveToFile \/ clear
    \/ \E r \in Readers : ReaderReads(r) \/ ReaderRegisters(r) \/ ReaderGoes(r)

Spec == Init /\ [][Next]_vars

(***************************************************************************)
(* "a handle for the remove function": a Reader that is gone has taken its *)
(* callback back, so no update calls into an object that does not exist.   *)
(***************************************************************************)
NoDanglingCallback ==
    \A k \in DOMAIN settings : \A r \in Range(settings[k].callbacks) : reader[r] # "gone"

=============================================================================
