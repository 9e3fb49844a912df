------------------------------ MODULE Metrics -------------------------------
(***************************************************************************)
(* The metric table of modules/metrics/src/metrics.c.  It lies in memory   *)
(* that is not initialised at start-up, so it outlives a reset; a magic    *)
(* entry and the key kept in every slot tell whether it did.  Every call   *)
(* runs under metrics_lock, so a call is a step.  Here Counters are keys   *)
(* the application only increases, Hi and Lo keep the extremes of its      *)
(* samples (metrics_set_max_min), Pct a percentage.                        *)
(***************************************************************************)
EXTENDS Integers, FiniteSets, FiniteSetsExt

CONSTANTS
    Counters, Hi, Lo, Pct,   \* the keys of the table
    Samples,                 \* values passed to metrics_set_max_min
    EntrySize, HeaderSize,   \* what metrics_encode_each and _header write
    MaxCount                 \* bound on increments

ASSUME MetricsAssumption ==
    /\ Hi \notin Counters /\ Lo \notin Counters /\ Pct \notin Counters
    /\ Hi # Lo /\ Hi # Pct /\ Lo # Pct
    /\ Samples \subseteq Int

VARIABLES
    metrics,    \* metrics[k] = [value, is_set]
    magic,      \* the magic entry and the keys are as metrics_init left them
    up,         \* metrics_init has been called since the last reset
    counted,    \* ghost: increments since the table was last initialised or reset
    reported,   \* ghost: those handed out by metrics_collect_reset
    samples     \* ghost: samples since then, of Hi and of Lo

tableVars == <<metrics, magic, up, counted, reported, samples>>

Keys == Counters \cup {Hi, Lo, Pct}
Unset == [value |-> 0, is_set |-> FALSE]
ResetAll == [k \in Keys |-> Unset]
NoCounts == [k \in Counters |-> 0]
NoSamples == [k \in {Hi, Lo} |-> {}]

IsSet(k) == metrics[k].is_set
SetMetricValue(t, k, v) == [t EXCEPT ![k] = [value |-> v, is_set |-> TRUE]]

\* Bugs the runs must notice: an unset slot's zero taken for a sample.
SetMetricValueIfMinZero(t, k, v) ==
    IF v < t[k].value THEN SetMetricValue(t, k, v) ELSE t

SetMetricValueIfMin(t, k, v) ==
    IF ~t[k].is_set \/ v < t[k].value THEN SetMetricValue(t, k, v) ELSE t

SetMetricValueIfMax(t, k, v) ==
    IF ~t[k].is_set \/ v > t[k].value THEN SetMetricValue(t, k, v) ELSE t

CountUpdated == Cardinality({k \in Keys : IsSet(k)})

\* encode_all without a buffer: the size of a report.
Required == HeaderSize + CountUpdated * EntrySize

\* The number of entries that fit into a buffer: one that does not fit is left out.
Encoded(bufsize) ==
    IF bufsize < HeaderSize THEN Min({CountUpdated, bufsize \div EntrySize})
    ELSE Min({CountUpdated, (bufsize - HeaderSize) \div EntrySize})

ReportWritten(bufsize) ==
    (IF bufsize < HeaderSize THEN 0 ELSE HeaderSize) + Encoded(bufsize) * EntrySize

-----------------------------------------------------------------------------
\* At power-on the memory holds anything, so the magic entry does not match.
TableInit ==
    /\ metrics = ResetAll
    /\ magic = FALSE
    /\ up = FALSE
    /\ counted = NoCounts
    /\ reported = NoCounts
    /\ samples = NoSamples

Forget == counted' = NoCounts /\ reported' = NoCounts /\ samples' = NoSamples

MetricsInit(force) ==
    /\ ~up
    /\ up' = TRUE
    /\ IF force \/ ~magic
         THEN metrics' = ResetAll /\ magic' = TRUE /\ Forget
         ELSE UNCHANGED <<metrics, magic, counted, reported, samples>>

\* A reset keeps the memory, a loss of power does not.
Reboot(power) ==
    /\ up
    /\ up' = FALSE
    /\ magic' = ~power
    /\ UNCHANGED <<metrics, counted, reported, samples>>

Increase(k) ==
    /\ up
    /\ counted[k] < MaxCount
    /\ metrics' = SetMetricValue(metrics, k, metrics[k].value + 1)
    /\ counted' = [counted EXCEPT ![k] = @ + 1]
    /\ UNCHANGED <<magic, up, reported, samples>>

SetMaxMin(v) ==
    /\ up
    /\ metrics' = SetMetricValueIfMin(SetMetricValueIfMax(metrics, Hi, v), Lo, v)
    /\ samples' = [k \in {Hi, Lo} |-> samples[k] \cup {v}]
    /\ UNCHANGED <<magic, up, counted, reported>>

SetPct(num, denom) ==
    /\ up
    /\ denom # 0
    /\ metrics' = SetMetricValue(metrics, Pct, (num * 100) \div denom)
    /\ UNCHANGED <<magic, up, counted, reported, samples>>

MetricsClear(k) ==
    /\ up
    /\ metrics' = [metrics EXCEPT ![k] = IF @.is_set THEN Unset ELSE @]
    /\ counted' = [c \in Counters |-> IF c = k THEN reported[c] ELSE counted[c]]
    /\ samples' = [h \in {Hi, Lo} |-> IF h = k THEN {} ELSE samples[h]]
    /\ UNCHANGED <<magic, up, reported>>

MetricsReset ==
    /\ up
    /\ metrics' = ResetAll
    /\ Forget
    /\ UNCHANGED <<magic, up>>

\* Bugs the runs must notice: reset after a report that was cut short.
CollectResetAlways(bufsize) ==
    /\ up
    /\ bufsize > 0
    /\ metrics' = ResetAll
    /\ samples' = NoSamples
    /\ reported' = [k \in Counters |->
            reported[k] + (IF bufsize >= Required THEN metrics[k].value ELSE 0)]
    /\ UNCHANGED <<magic, up, counted>>

\* The table is cleared only when the whole of it fits into the buffer.
CollectReset(bufsize) ==
    /\ up
    /\ bufsize > 0
    /\ IF Required > 0 /\ bufsize >= Required
             /\ ReportWritten(bufsize) >= Required /\ ReportWritten(bufsize) <= bufsize
         THEN /\ metrics' = ResetAll
              /\ samples' = NoSamples
              /\ reported' = [k \in Counters |-> reported[k] + metrics[k].value]
         ELSE UNCHANGED <<metrics, samples, reported>>
    /\ UNCHANGED <<magic, up, counted>>

TableNext ==
    \/ \E force \in BOOLEAN : MetricsInit(force)
    \/ \E power \in BOOLEAN : Reboot(power)
    \/ \E k \in Counters : Increase(k)
    \/ \E v \in Samples : SetMaxMin(v)
    \/ \E num \in {0, 1}, denom \in {0, 2} : SetPct(num, denom)
    \/ \E k \in Keys : MetricsClear(k)
    \/ MetricsReset
    \/ \E n \in {EntrySize, Required} : CollectReset(n)

TableSpec == TableInit /\ [][TableNext]_tableVars

-----------------------------------------------------------------------------
\* metrics_collect_reset loses nothing: across buffers that are too small,
\* resets of the processor and restarts, every increment is either in the
\* table or in a report that was handed out whole, and in no two of them.
CountsConserved ==
    up => \A k \in Counters : counted[k] = reported[k] + metrics[k].value

\* The extremes are those of the samples since the table was last cleared.
ExtremesExact ==
    up => \A k \in {Hi, Lo} :
            /\ IsSet(k) = (samples[k] # {})
            /\ IsSet(k) => metrics[k].value = IF k = Hi THEN Max(samples[k]) ELSE Min(samples[k])

\* Collected metrics lose and double nothing, and extremes are those of the
\* samples.
MetricsConserved == CountsConserved /\ ExtremesExact
=============================================================================
