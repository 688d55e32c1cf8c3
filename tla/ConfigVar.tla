------------------------------ MODULE ConfigVar ------------------------------
(***************************************************************************)
(* ConfigVar (include/common/config.h): a value, and listeners that are    *)
(* told of its changes.  setValue tells the listeners under the shared     *)
(* lock and stores the value afterwards under the exclusive one.           *)
(*                                                                         *)
(* The counter of the keys is one for all variables of a type, but each    *)
(* variable has a mutex of its own: when another variable gets a listener, *)
(* the counter moves on, or falls back to the successor of a number that   *)
(* addListener had read there before, and keys are used again.             *)
(***************************************************************************)
EXTENDS Integers, FiniteSets

CONSTANTS
    Values,
    InitialValue,
    Setters,     \* threads that set the value
    Listeners,
    NoKey,       \* a listener that was not added yet
    NoValue,     \* a setter between two calls
    MaxSets,     \* bound: calls of setValue by one thread
    MaxKey       \* bound: keys

InitialAssumption == InitialValue \in Values /\ NoValue \notin Values /\ MaxKey \in Nat

VARIABLES
    value,    \* value_
    cbs,      \* cbs_: the listener of each key
    sFunId,   \* the next key, a static variable of addListener
    key,      \* what addListener has returned to each listener
    setting,  \* the value that a setter has announced and not stored yet
    sets,     \* how many calls it has made
    told,     \* the values each listener has been told of, with the one it began with
    late      \* the listeners added while an announced value was not stored

configVars == <<value, cbs, sFunId, key, setting, sets, told, late>>

Added == { cbs[k] : k \in DOMAIN cbs }

ConfigTypeOK ==
    /\ value \in Values
    /\ sFunId \in 0..MaxKey
    /\ DOMAIN cbs \subseteq 0..MaxKey - 1 /\ Added \subseteq Listeners
    /\ key \in [Listeners -> {NoKey} \cup 1..MaxKey]
    /\ late \subseteq Listeners
    /\ setting \in [Setters -> Values \cup {NoValue}]
    /\ told \in [Listeners -> SUBSET Values]

ConfigInit ==
    /\ value = InitialValue
    /\ cbs = [k \in {} |-> 0] /\ sFunId = 0 /\ key = [l \in Listeners |-> NoKey]
    /\ setting = [t \in Setters |-> NoValue] /\ sets = [t \in Setters |-> 0]
    /\ told = [l \in Listeners |-> {}] /\ late = {}

\* What sFunId may be once listeners were added, here or to other variables.
NextKeys == 1..sFunId + 1

\* Another variable gets a listener.
AddElsewhere ==
    /\ sFunId < MaxKey /\ sFunId' \in NextKeys
    /\ UNCHANGED <<value, cbs, key, setting, sets, told, late>>

\* A listener that starts from the value; emplace keeps the old listener of a key that was
\* used before, and the new one is dropped. The key it gets back is that of the next.
AddListener(l) ==
    /\ key[l] = NoKey
    /\ sFunId < MaxKey /\ sFunId' \in NextKeys
    /\ cbs' = [k \in DOMAIN cbs \cup {sFunId} |-> IF k \in DOMAIN cbs THEN cbs[k] ELSE l]
    /\ key' = [key EXCEPT ![l] = sFunId']
    /\ told' = [told EXCEPT ![l] = {value}]
    /\ late' = IF \E t \in Setters : setting[t] # NoValue THEN late \cup {l} ELSE late
    /\ UNCHANGED <<value, setting, sets>>

\* The listener of that key, if there is one, is erased: not l but the one added after it.
DelListener(l) ==
    /\ key[l] # NoKey /\ key[l] \in DOMAIN cbs
    /\ cbs' = [k \in DOMAIN cbs \ {key[l]} |-> cbs[k]]
    /\ UNCHANGED <<value, sFunId, key, setting, sets, told, late>>

\* No listener is left; the keys go on from where they were.
ClearListener ==
    /\ cbs # [k \in {} |-> 0]
    /\ cbs' = [k \in {} |-> 0]
    /\ UNCHANGED <<value, sFunId, key, setting, sets, told, late>>

\* Only a listener that comes first is told.
SetTellsOne(t, v) ==
    /\ setting[t] = NoValue /\ sets[t] < MaxSets
    /\ sets' = [sets EXCEPT ![t] = @ + 1]
    /\ IF v = value THEN UNCHANGED <<setting, told>>
       ELSE /\ setting' = [setting EXCEPT ![t] = v]
            /\ told' = [l \in Listeners |->
                   IF 0 \in DOMAIN cbs /\ l = cbs[0] THEN told[l] \cup {v} ELSE told[l]]
    /\ UNCHANGED <<value, cbs, sFunId, key, late>>

\* setValue: a value that differs is announced; the lock is shared, so others may be
\* announcing theirs.
SetAnnounce(t, v) ==
    /\ setting[t] = NoValue /\ sets[t] < MaxSets
    /\ sets' = [sets EXCEPT ![t] = @ + 1]
    /\ IF v = value THEN UNCHANGED <<setting, told>>
       ELSE /\ setting' = [setting EXCEPT ![t] = v]
            /\ told' = [l \in Listeners |-> IF l \in Added THEN told[l] \cup {v} ELSE told[l]]
    /\ UNCHANGED <<value, cbs, sFunId, key, late>>

\* A listener throws: some were told, the value is not stored. fromString catches it.
SetThrows(t, v) ==
    /\ setting[t] = NoValue /\ sets[t] < MaxSets
    /\ sets' = [sets EXCEPT ![t] = @ + 1]
    /\ v # value /\ Added # {}
    /\ \E some \in SUBSET Added :
        told' = [l \in Listeners |-> IF l \in some THEN told[l] \cup {v} ELSE told[l]]
    /\ UNCHANGED <<value, cbs, sFunId, key, setting, late>>

SetStore(t) ==
    /\ setting[t] # NoValue
    /\ value' = setting[t]
    /\ setting' = [setting EXCEPT ![t] = NoValue]
    /\ UNCHANGED <<cbs, sFunId, key, sets, told, late>>

ConfigNext ==
    \/ \E l \in Listeners : AddListener(l) \/ DelListener(l)
    \/ AddElsewhere \/ ClearListener
    \/ \E t \in Setters : SetStore(t) \/ \E v \in Values : SetAnnounce(t, v) \/ SetThrows(t, v)

ConfigSpec == ConfigInit /\ [][ConfigNext]_configVars

-----------------------------------------------------------------------------

\* Whatever calls of setValue overlap, a listener has been told of the value that is
\* stored, or began with it: no change is stored that the listeners at the time of its
\* announcement did not hear of, also when some announcements end in an exception. Only one
\* that was added between the two can miss it.
ToldOfValue == \A l \in Added \ late : value \in told[l]
=============================================================================
