-------------------------------- MODULE Usage --------------------------------
(***************************************************************************)
(* UsageCollector of src/observability/usage.ts for one module, and what    *)
(* system.usage.module (src/sys-modules/usage.ts) shows of it.  Time passes *)
(* in ticks, some of them to the hour; a bucket is its hour.  Records are   *)
(* made at the time they are for, as UsageMiddleware makes them.            *)
(***************************************************************************)
EXTENDS Integers, Sequences, FiniteSets, SequencesExt, FiniteSetsExt

CONSTANTS
  TicksPerHour,
  RetentionHours,       \* retentionHours
  MaxPerBucket,         \* _maxRecordsPerBucket
  ShownHours,           \* the hours padHourlyDistribution shows: 24
  Outcomes,             \* the calls there are: [caller, ok]
  PeriodHours,          \* the periods asked for
  MaxTicks, MaxRecorded \* bounds: of the time and of the calls

ASSUME UsageAssumption ==
  /\ TicksPerHour \in Nat \ {0} /\ RetentionHours \in Nat /\ MaxPerBucket \in Nat
  /\ ShownHours \in Nat \ {0} /\ PeriodHours \subseteq Nat \ {0}
  /\ MaxTicks \in Nat /\ MaxRecorded \in Nat
  /\ \A o \in Outcomes : o.ok \in BOOLEAN

VARIABLES
  usageClock,   \* Date.now()
  buckets,      \* _data of the module: hour -> its records in order, [at, caller, ok]
  recorded,     \* history: every record that was made, in order
  full          \* history: the places of those that found their bucket full

usageVars == <<usageClock, buckets, recorded, full>>

BucketKey(time) == time \div TicksPerHour

UsageInit ==
  /\ usageClock \in 0 .. (TicksPerHour - 1)
  /\ buckets = <<>> /\ recorded = <<>> /\ full = {}

TimePasses ==
  /\ usageClock < MaxTicks /\ usageClock' = usageClock + 1
  /\ UNCHANGED <<buckets, recorded, full>>

Bucket(hour) == IF hour \in DOMAIN buckets THEN buckets[hour] ELSE <<>>

\* mutant: an hour goes as soon as the cutoff is in it.
ExpiredEarly(hour) == hour <= BucketKey(usageClock - RetentionHours * TicksPerHour)

\* _cleanupExpired: an hour stays while any part of it is to be retained.
Expired(hour) == hour < BucketKey(usageClock - RetentionHours * TicksPerHour)

\* record(): a full bucket refuses the record, and the expired ones go.
RecordUsage ==
  /\ Len(recorded) < MaxRecorded
  /\ \E o \in Outcomes :
       LET hour == BucketKey(usageClock)
           entry == [at |-> usageClock, caller |-> o.caller, ok |-> o.ok]
           refused == Len(Bucket(hour)) >= MaxPerBucket
       IN /\ buckets' = [h \in {h \in DOMAIN buckets \cup {hour} : ~Expired(h)} |->
                           IF h = hour /\ ~refused THEN Append(Bucket(h), entry) ELSE Bucket(h)]
          /\ recorded' = Append(recorded, entry)
          /\ full' = IF refused THEN full \cup {Len(recorded) + 1} ELSE full
  /\ UNCHANGED usageClock

UsageNext == TimePasses \/ RecordUsage

UsageSpec == UsageInit /\ [][UsageNext]_usageVars

----------------------------------------------------------------------------
(* What is reported: a record is named by its hour and its place there.     *)

CollectRecords(from, to) ==
  UNION {{<<h, i>> : i \in {i \in DOMAIN buckets[h] : buckets[h][i].at \in from .. to}} :
           h \in {h \in DOMAIN buckets : BucketKey(from) <= h /\ h <= BucketKey(to)}}

\* computeTrend: 1.2 and 0.8 are the ratios.
Trend(current, previous) ==
  CASE current = 0 /\ previous = 0 -> "stable"
    [] current = 0 -> "inactive"
    [] previous = 0 -> "new"
    [] 10 * current > 12 * previous -> "rising"
    [] 10 * current < 8 * previous -> "declining"
    [] OTHER -> "stable"

ErrorsAmong(places) == {p \in places : ~buckets[p[1]][p[2]].ok}
CallersAmong(places) == {buckets[p[1]][p[2]].caller : p \in places}
OfCaller(places, caller) == {p \in places : buckets[p[1]][p[2]].caller = caller}
OfHour(places, hour) == {p \in places : BucketKey(buckets[p[1]][p[2]].at) = hour}

\* getSummary and getModule for a period, in ticks.
Detail(period) ==
  LET cutoff == usageClock - period
      current == CollectRecords(cutoff, usageClock)
      previous == CollectRecords(cutoff - period, cutoff)
  IN [callCount |-> Cardinality(current),
      errorCount |-> Cardinality(ErrorsAmong(current)),
      trend |-> Trend(Cardinality(current), Cardinality(previous)),
      callers |-> [c \in CallersAmong(current) |->
                     [callCount |-> Cardinality(OfCaller(current, c)),
                      errorCount |-> Cardinality(ErrorsAmong(OfCaller(current, c)))]],
      hours |-> [h \in {BucketKey(buckets[p[1]][p[2]].at) : p \in current} |->
                   Cardinality(OfHour(current, h))]]

\* padHourlyDistribution: the last hours, with zeros for those without a call.
PadHourlyDistribution(hours) ==
  LET keys == DOMAIN hours \cup {BucketKey(usageClock - i * TicksPerHour) : i \in 0 .. (ShownHours - 1)}
      latest == {k \in keys : Cardinality({l \in keys : l > k}) < ShownHours}
  IN [k \in latest |-> IF k \in DOMAIN hours THEN hours[k] ELSE 0]

----------------------------------------------------------------------------

MadeIn(from, to) == {i \in DOMAIN recorded \ full : recorded[i].at \in from .. to}
SumOver(f) == FoldFunction(+, 0, f)

\* Over every period within the retention, the report is of the calls that
\* were made in it, those apart that found their bucket full: none has
\* expired, whatever order hours and calls came in, and none is out of date.
CountsExact(period) ==
  period <= RetentionHours * TicksPerHour =>
    LET made == MadeIn(usageClock - period, usageClock) IN
    /\ Detail(period).callCount = Cardinality(made)
    /\ Detail(period).errorCount = Cardinality({i \in made : ~recorded[i].ok})
    /\ DOMAIN Detail(period).callers = {recorded[i].caller : i \in made}

\* The trend compares with the whole period before as long as that is
\* retained too.
TrendExact(period) ==
  2 * period <= RetentionHours * TicksPerHour =>
    Detail(period).trend =
      Trend(Cardinality(MadeIn(usageClock - period, usageClock)),
            Cardinality(MadeIn(usageClock - 2 * period, usageClock - period)))

\* The breakdowns add up to the whole, and the hours shown leave out at most
\* an hour that the period has cut into.
AddsUp(period) ==
  LET d == Detail(period)
      shown == PadHourlyDistribution(d.hours)
  IN /\ SumOver([c \in DOMAIN d.callers |-> d.callers[c].callCount]) = d.callCount
     /\ SumOver([c \in DOMAIN d.callers |-> d.callers[c].errorCount]) = d.errorCount
     /\ Cardinality(DOMAIN shown) = ShownHours
     /\ period <= ShownHours * TicksPerHour =>
          SumOver(shown) + (IF BucketKey(usageClock - period) \in DOMAIN d.hours \ DOMAIN shown
                              THEN d.hours[BucketKey(usageClock - period)] ELSE 0) = d.callCount

\* What a usage report says of a module is what its callers did.
UsageTold ==
  recorded # <<>> => \A hours \in PeriodHours :
    LET period == hours * TicksPerHour
    IN CountsExact(period) /\ TrendExact(period) /\ AddsUp(period)
=============================================================================
