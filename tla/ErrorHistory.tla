---------------------------- MODULE ErrorHistory ----------------------------
(***************************************************************************)
(* ErrorHistory of src/observability/error-history.ts: deduplicated errors   *)
(* in two indexes, by fingerprint and by module, and a heap of (time, seq)   *)
(* items from which the oldest is evicted.  Items are never taken out of the *)
(* heap when their entry is updated or removed; they are recognised as stale *)
(* when they are popped.  An entry is named by its place among all ever made. *)
(***************************************************************************)
EXTENDS Integers, Sequences, FiniteSets, SequencesExt

CONSTANTS
  ErrorModule,      \* of each fingerprint, the module it is an error of
  PerModuleMax,     \* maxEntriesPerModule
  TotalMax,         \* maxTotalEntries
  MaxErrors         \* bound: the errors recorded

ErrorFps == DOMAIN ErrorModule
ErrorMods == {ErrorModule[f] : f \in ErrorFps}

ASSUME HistoryAssumption == PerModuleMax \in Nat /\ TotalMax \in Nat /\ MaxErrors \in Nat

VARIABLES
  made,         \* the entries ever made: [fp, last]
  fpIndex,      \* fingerprint -> entry, 0 for none
  listed,       \* module -> its entries in order
  heap,         \* the items [ts, seq, entry]
  now           \* [time, seq]

historyVars == <<made, fpIndex, listed, heap, now>>

HistoryInit ==
  /\ made = <<>>
  /\ fpIndex = [f \in ErrorFps |-> 0]
  /\ listed = [m \in ErrorMods |-> <<>>]
  /\ heap = {} /\ now = [time |-> 0, seq |-> 0]

Indexed(ix) == {ix[f] : f \in ErrorFps} \ {0}

\* The indexes, the lists and the heap, while record() works on them.
Books(ix, lists, items) == [ix |-> ix, lists |-> lists, items |-> items]

\* _evictModule: the head of the list, with whatever its fingerprint leads to.
EvictModule(b, m) ==
  LET over == Len(b.lists[m]) - PerModuleMax
      gone == {made'[b.lists[m][i]].fp : i \in 1..over} IN
  IF over <= 0 THEN b
  ELSE Books([f \in ErrorFps |-> IF f \in gone THEN 0 ELSE b.ix[f]],
             [b.lists EXCEPT ![m] = SubSeq(@, over + 1, Len(@))], b.items)

Before(x, y) == x.ts < y.ts \/ (x.ts = y.ts /\ x.seq < y.seq)

\* The item is recognised by fingerprint and time, not by entry.
Stale(b, item) ==
  \/ b.ix[made'[item.entry].fp] = 0
  \/ made'[item.entry].last # item.ts

\* _popOldest, run by _evictTotal while there are too many fingerprints: the
\* oldest item that is not stale, and every item before it, leave the heap.
EvictTotal(b) ==
  LET live == {x \in b.items : ~Stale(b, x)}
      oldest == CHOOSE x \in live : \A y \in live : y = x \/ Before(x, y)
      fp == made'[oldest.entry].fp
      m  == ErrorModule[fp] IN
  IF Cardinality(Indexed(b.ix)) <= TotalMax THEN b
  ELSE IF live = {} THEN Books(b.ix, b.lists, {})
  ELSE Books([b.ix EXCEPT ![fp] = 0],
             [b.lists EXCEPT ![m] = RemoveFirst(@, oldest.entry)],
             {x \in b.items : Before(oldest, x)})

\* mutant: an error that is known already is not pushed again.
PushedOnce(f, item) == IF fpIndex[f] # 0 THEN heap ELSE heap \cup {item}

Pushed(f, item) == heap \cup {item}

\* record(): the clock may have moved on since the last error, or not.
Record(f) ==
  /\ now.seq < MaxErrors
  /\ \E t \in {now.time, now.time + 1} :
     LET seq == now.seq + 1
         m   == ErrorModule[f]
         e   == IF fpIndex[f] = 0 THEN Len(made) + 1 ELSE fpIndex[f]
         items == Pushed(f, [ts |-> t, seq |-> seq, entry |-> e])
     IN
       /\ now' = [time |-> t, seq |-> seq]
       /\ made' = IF fpIndex[f] = 0 THEN Append(made, [fp |-> f, last |-> t])
                                       ELSE [made EXCEPT ![e].last = t]
       /\ LET b == IF fpIndex[f] # 0 THEN Books(fpIndex, listed, items)
                   ELSE EvictTotal(EvictModule(
                          Books([fpIndex EXCEPT ![f] = e],
                                [listed EXCEPT ![m] = Append(@, e)], items), m))
          IN fpIndex' = b.ix /\ listed' = b.lists /\ heap' = b.items

\* clear(): the heap keeps its items.
ClearHistory ==
  /\ fpIndex' = [f \in ErrorFps |-> 0]
  /\ listed' = [m \in ErrorMods |-> <<>>]
  /\ UNCHANGED <<made, heap, now>>

ClearModule(m) ==
  /\ LET gone == {made[e].fp : e \in ToSet(listed[m])} IN
       fpIndex' = [f \in ErrorFps |-> IF f \in gone THEN 0 ELSE fpIndex[f]]
  /\ listed' = [listed EXCEPT ![m] = <<>>]
  /\ UNCHANGED <<made, heap, now>>

HistoryNext ==
  \/ \E f \in ErrorFps : Record(f)
  \/ ClearHistory
  \/ \E m \in ErrorMods : ClearModule(m)

HistorySpec == HistoryInit /\ [][HistoryNext]_historyVars

----------------------------------------------------------------------------
(* Properties *)

\* Whatever was evicted, cleared and recorded anew, the history stays within
\* its limits, every error a lookup by fingerprint finds is one its module
\* lists, and has an item in the heap that is not stale: eviction always finds
\* something to evict, instead of looping for ever over an empty heap.
Evictable ==
  /\ Cardinality(Indexed(fpIndex)) <= TotalMax
  /\ \A m \in ErrorMods : Len(listed[m]) <= PerModuleMax /\ IsInjective(listed[m])
  /\ \A f \in ErrorFps : fpIndex[f] # 0 =>
       /\ fpIndex[f] \in ToSet(listed[ErrorModule[f]])
       /\ \E x \in heap : x.entry = fpIndex[f] /\ x.ts = made[fpIndex[f]].last
=============================================================================
