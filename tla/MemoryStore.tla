----------------------------- MODULE MemoryStore -----------------------------
(***************************************************************************)
(* ratelimit/memory.go: the map of bucket entries with its key counter and  *)
(* key limit, the per-entry mutexes, the TTL cleanup goroutine and Close.   *)
(*                                                                         *)
(* One step is one access to shared state: a sync.Map call, an atomic add   *)
(* on keyCount, or a critical section of an entry's mutex.  Taking the      *)
(* mutex is joined with the first access under it and releasing it with the *)
(* last.  Calls that fail at once (closed store, cancelled context, a key   *)
(* that is too long) change nothing and are not steps.                      *)
(***************************************************************************)
EXTENDS Integers, FiniteSets

CONSTANTS
  Clients,        \* goroutines calling the store
  Keys,
  Entries,        \* the pool of *bucketEntry; an unreferenced one is collected
  States,         \* the BucketStates an updateFn may produce
  Ops,            \* the operations the clients use
  MaxKeys,        \* maxKeys
  EntryTTL,       \* entryTTL
  MaxStoreClock,  \* bound on the clock
  Nil, Free, Janitor

ASSUME StoreAssumption ==
  /\ MaxKeys \in Nat \ {0} /\ EntryTTL \in Nat \ {0} /\ MaxStoreClock \in Nat
  /\ Ops \subseteq {"update", "get", "delete", "reset"}
ASSUME SetsAssumption == IsFiniteSet(Clients) /\ IsFiniteSet(Keys)
ASSUME NamesAssumption ==
  /\ Nil \notin Entries \cup States \cup Keys
  /\ Free \notin Clients /\ Janitor \notin Clients /\ Free # Janitor

VARIABLES
  buckets,      \* the sync.Map: the entry of each key, or Nil
  entry,        \* per *bucketEntry: state, lastAccess, mu
  keyCount,     \* the atomic counter
  op,           \* per client: where its call is and its local values
  jan,          \* cleanupLoop: where it is and its local values
  storeClosed,  \* "no", "closing" (Close waits for cleanupLoop) or "yes"
  storeClock    \* time.Now()

storeVars == <<buckets, entry, keyCount, op, jan, storeClosed, storeClock>>

NoCall == [pc |-> "idle", key |-> Nil, entry |-> Nil, now |-> 0, todo |-> {}, found |-> {}]

StoreInit ==
  /\ buckets = [k \in Keys |-> Nil]
  /\ entry = [e \in Entries |-> [state |-> Nil, lastAccess |-> 0, mu |-> Free]]
  /\ keyCount = 0
  /\ op = [c \in Clients |-> NoCall]
  /\ jan = NoCall
  /\ storeClosed = "no"
  /\ storeClock = 0

Stored == {k \in Keys : buckets[k] # Nil}
Referenced == {buckets[k] : k \in Keys} \cup {op[c].entry : c \in Clients} \cup {jan.entry}

At(c, pc) == op[c].pc = pc
Goto(c, pc) == op' = [op EXCEPT ![c].pc = pc]
Return(c) == op' = [op EXCEPT ![c] = NoCall]
Holding(e, owner) == entry' = [entry EXCEPT ![e].mu = owner]

\* LoadAndDelete(k) under the lock of e: the key's present entry goes, if any.
LoadAndDelete(k) == buckets' = [buckets EXCEPT ![k] = Nil]

-----------------------------------------------------------------------------
(* AtomicUpdate                                                             *)

Begin(c, kind, k) ==
  /\ At(c, "idle") /\ storeClosed = "no" /\ kind \in Ops
  /\ op' = [op EXCEPT ![c].pc = kind, ![c].key = k]
  /\ UNCHANGED <<buckets, entry, keyCount, jan, storeClosed, storeClock>>

UpdateLoad(c) ==
  /\ At(c, "update")
  /\ LET e == buckets[op[c].key]
     IN  op' = [op EXCEPT ![c].pc = IF e = Nil THEN "count" ELSE "apply", ![c].entry = e]
  /\ UNCHANGED <<buckets, entry, keyCount, jan, storeClosed, storeClock>>

\* Slip: the count is compared with the limit before it is incremented.
UpdateCountLate(c) ==
  /\ At(c, "count")
  /\ IF keyCount < MaxKeys
     THEN op' = [op EXCEPT ![c].pc = "store", ![c].now = storeClock] /\ UNCHANGED keyCount
     ELSE op' = [op EXCEPT ![c].pc = "uncount"] /\ keyCount' = keyCount + 1
  /\ UNCHANGED <<buckets, entry, jan, storeClosed, storeClock>>

\* keyCount.Add(1) and the comparison with maxKeys; the new entry's lastAccess.
UpdateCount(c) ==
  /\ At(c, "count")
  /\ keyCount' = keyCount + 1
  /\ op' = IF keyCount + 1 > MaxKeys THEN [op EXCEPT ![c].pc = "uncount"]
           ELSE [op EXCEPT ![c].pc = "store", ![c].now = storeClock]
  /\ UNCHANGED <<buckets, entry, jan, storeClosed, storeClock>>

\* keyCount.Add(-1) and ErrKeyLimitExceeded.
UpdateRefused(c) ==
  /\ At(c, "uncount")
  /\ keyCount' = keyCount - 1
  /\ Return(c)
  /\ UNCHANGED <<buckets, entry, jan, storeClosed, storeClock>>

\* LoadOrStore.
UpdateStore(c) ==
  /\ At(c, "store")
  /\ LET k == op[c].key
     IN  \/ /\ buckets[k] = Nil
            /\ \E e \in Entries \ Referenced :
                 /\ buckets' = [buckets EXCEPT ![k] = e]
                 /\ entry' = [entry EXCEPT ![e] =
                                [state |-> Nil, lastAccess |-> op[c].now, mu |-> Free]]
                 /\ op' = [op EXCEPT ![c].pc = "apply", ![c].entry = e, ![c].now = 0]
         \/ /\ buckets[k] # Nil
            /\ op' = [op EXCEPT ![c].pc = "surplus", ![c].entry = buckets[k], ![c].now = 0]
            /\ UNCHANGED <<buckets, entry>>
  /\ UNCHANGED <<keyCount, jan, storeClosed, storeClock>>

\* Another goroutine stored the key first: keyCount.Add(-1).
UpdateSurplus(c) ==
  /\ At(c, "surplus")
  /\ keyCount' = keyCount - 1
  /\ Goto(c, "apply")
  /\ UNCHANGED <<buckets, entry, jan, storeClosed, storeClock>>

\* The critical section: give up if ctx is done, else apply updateFn, which may
\* return nil and so leave the state alone.
UpdateApply(c) ==
  /\ At(c, "apply") /\ entry[op[c].entry].mu = Free
  /\ \/ UNCHANGED entry
     \/ \E s \in States \cup {Nil} :
          entry' = [entry EXCEPT ![op[c].entry].lastAccess = storeClock,
                                 ![op[c].entry].state = IF s = Nil THEN @ ELSE s]
  /\ Return(c)
  /\ UNCHANGED <<buckets, keyCount, jan, storeClosed, storeClock>>

-----------------------------------------------------------------------------
(* Get and Delete                                                           *)

GetLoad(c) ==
  /\ At(c, "get")
  /\ LET e == buckets[op[c].key]
     IN  op' = IF e = Nil THEN [op EXCEPT ![c] = NoCall]
               ELSE [op EXCEPT ![c].pc = "read", ![c].entry = e]
  /\ UNCHANGED <<buckets, entry, keyCount, jan, storeClosed, storeClock>>

GetRead(c) ==
  /\ At(c, "read") /\ entry[op[c].entry].mu = Free
  /\ Return(c)
  /\ UNCHANGED <<buckets, entry, keyCount, jan, storeClosed, storeClock>>

DeleteLoad(c) ==
  /\ At(c, "delete")
  /\ LET e == buckets[op[c].key]
     IN  op' = IF e = Nil THEN [op EXCEPT ![c] = NoCall]
               ELSE [op EXCEPT ![c].pc = "remove", ![c].entry = e]
  /\ UNCHANGED <<buckets, entry, keyCount, jan, storeClosed, storeClock>>

\* Slip: whoever holds the lock decrements, whether it deleted anything or not.
DeleteRemoveBlindly(c) ==
  /\ At(c, "remove") /\ entry[op[c].entry].mu = Free
  /\ LoadAndDelete(op[c].key)
  /\ Goto(c, "removed") /\ Holding(op[c].entry, c)
  /\ UNCHANGED <<keyCount, jan, storeClosed, storeClock>>

\* LoadAndDelete under the lock of the entry loaded before.
DeleteRemove(c) ==
  /\ At(c, "remove") /\ entry[op[c].entry].mu = Free
  /\ LoadAndDelete(op[c].key)
  /\ IF buckets[op[c].key] = Nil THEN Return(c) /\ UNCHANGED entry
     ELSE Goto(c, "removed") /\ Holding(op[c].entry, c)
  /\ UNCHANGED <<keyCount, jan, storeClosed, storeClock>>

\* Slip: the lock is not released after a deletion.
DeleteCountHolding(c) ==
  /\ At(c, "removed")
  /\ keyCount' = keyCount - 1
  /\ Return(c)
  /\ UNCHANGED <<buckets, entry, jan, storeClosed, storeClock>>

DeleteCount(c) ==
  /\ At(c, "removed")
  /\ keyCount' = keyCount - 1
  /\ Holding(op[c].entry, Free)
  /\ Return(c)
  /\ UNCHANGED <<buckets, jan, storeClosed, storeClock>>

-----------------------------------------------------------------------------
(* Reset: Range collects the keys, then they are deleted one by one.        *)

ResetBegin(c) ==
  /\ At(c, "idle") /\ storeClosed = "no" /\ "reset" \in Ops
  /\ op' = [op EXCEPT ![c].pc = "range", ![c].todo = Keys]
  /\ UNCHANGED <<buckets, entry, keyCount, jan, storeClosed, storeClock>>

ResetRange(c) ==
  /\ At(c, "range")
  /\ \/ op[c].todo = {} /\ op' = [op EXCEPT ![c].pc = "next"]
     \/ \E k \in op[c].todo :
          op' = [op EXCEPT ![c].todo = @ \ {k},
                           ![c].found = IF k \in Stored THEN @ \cup {k} ELSE @]
  /\ UNCHANGED <<buckets, entry, keyCount, jan, storeClosed, storeClock>>

\* The next collected key, or return: at the end, or because ctx is done.
ResetNext(c) ==
  /\ At(c, "next")
  /\ \/ Return(c)
     \/ \E k \in op[c].found :
          op' = IF buckets[k] = Nil THEN [op EXCEPT ![c].found = @ \ {k}]
                ELSE [op EXCEPT ![c].found = @ \ {k}, ![c].pc = "clear",
                                ![c].key = k, ![c].entry = buckets[k]]
  /\ UNCHANGED <<buckets, entry, keyCount, jan, storeClosed, storeClock>>

ResetClear(c) ==
  /\ At(c, "clear") /\ entry[op[c].entry].mu = Free
  /\ LoadAndDelete(op[c].key)
  /\ IF buckets[op[c].key] = Nil
     THEN op' = [op EXCEPT ![c].pc = "next", ![c].key = Nil, ![c].entry = Nil] /\ UNCHANGED entry
     ELSE Goto(c, "cleared") /\ Holding(op[c].entry, c)
  /\ UNCHANGED <<keyCount, jan, storeClosed, storeClock>>

ResetCount(c) ==
  /\ At(c, "cleared")
  /\ keyCount' = keyCount - 1
  /\ Holding(op[c].entry, Free)
  /\ op' = [op EXCEPT ![c].pc = "next", ![c].key = Nil, ![c].entry = Nil]
  /\ UNCHANGED <<buckets, jan, storeClosed, storeClock>>

-----------------------------------------------------------------------------
(* cleanupLoop, cleanup and Close                                           *)

\* The ticker fires and cleanup reads the clock; Range is about to start.
CleanupBegin ==
  /\ jan.pc = "idle"
  /\ jan' = [jan EXCEPT !.pc = "visit", !.now = storeClock, !.todo = Keys]
  /\ UNCHANGED <<buckets, entry, keyCount, op, storeClosed, storeClock>>

Expired(e) == jan.now - entry[e].lastAccess > EntryTTL

CleanupVisit ==
  /\ jan.pc = "visit"
  /\ \/ jan.todo = {} /\ jan' = NoCall
     \/ \E k \in jan.todo :
          jan' = IF buckets[k] # Nil /\ Expired(buckets[k])
                 THEN [jan EXCEPT !.todo = @ \ {k}, !.pc = "evict", !.key = k, !.entry = buckets[k]]
                 ELSE [jan EXCEPT !.todo = @ \ {k}]
  /\ UNCHANGED <<buckets, entry, keyCount, op, storeClosed, storeClock>>

\* The second look at lastAccess, under the entry's lock, and LoadAndDelete.
CleanupEvict ==
  /\ jan.pc = "evict" /\ entry[jan.entry].mu = Free
  /\ IF Expired(jan.entry) /\ buckets[jan.key] # Nil
     THEN /\ LoadAndDelete(jan.key) /\ Holding(jan.entry, Janitor)
          /\ jan' = [jan EXCEPT !.pc = "evicted"]
     ELSE /\ jan' = [jan EXCEPT !.pc = "visit", !.key = Nil, !.entry = Nil]
          /\ UNCHANGED <<buckets, entry>>
  /\ UNCHANGED <<keyCount, op, storeClosed, storeClock>>

CleanupCount ==
  /\ jan.pc = "evicted"
  /\ keyCount' = keyCount - 1
  /\ Holding(jan.entry, Free)
  /\ jan' = [jan EXCEPT !.pc = "visit", !.key = Nil, !.entry = Nil]
  /\ UNCHANGED <<buckets, op, storeClosed, storeClock>>

\* cleanupLoop sees done between two cleanups.
JanitorExits ==
  /\ jan.pc = "idle" /\ storeClosed # "no"
  /\ jan' = [jan EXCEPT !.pc = "exited"]
  /\ UNCHANGED <<buckets, entry, keyCount, op, storeClosed, storeClock>>

\* Close: closed.Swap(true) and close(done), then wg.Wait.
CloseBegin ==
  /\ storeClosed = "no" /\ storeClosed' = "closing"
  /\ UNCHANGED <<buckets, entry, keyCount, op, jan, storeClock>>

CloseEnd ==
  /\ storeClosed = "closing" /\ jan.pc = "exited" /\ storeClosed' = "yes"
  /\ UNCHANGED <<buckets, entry, keyCount, op, jan, storeClock>>

StoreTick ==
  /\ storeClock < MaxStoreClock /\ storeClock' = storeClock + 1
  /\ UNCHANGED <<buckets, entry, keyCount, op, jan, storeClosed>>

-----------------------------------------------------------------------------

AtomicUpdate(c) == \/ UpdateLoad(c) \/ UpdateCount(c) \/ UpdateRefused(c) \/ UpdateStore(c)
                   \/ UpdateSurplus(c) \/ UpdateApply(c)
Get(c) == GetLoad(c) \/ GetRead(c)
Delete(c) == DeleteLoad(c) \/ DeleteRemove(c) \/ DeleteCount(c)
StoreReset(c) == ResetRange(c) \/ ResetNext(c) \/ ResetClear(c) \/ ResetCount(c)
Call(c) == AtomicUpdate(c) \/ Get(c) \/ Delete(c) \/ StoreReset(c)
Cleanup == CleanupVisit \/ CleanupEvict \/ CleanupCount

StoreNext ==
  \/ \E c \in Clients : \/ \E kind \in {"update", "get", "delete"}, k \in Keys : Begin(c, kind, k)
                        \/ ResetBegin(c)
                        \/ Call(c)
  \/ CleanupBegin \/ Cleanup \/ JanitorExits
  \/ CloseBegin \/ CloseEnd
  \/ StoreTick

StoreSpec == StoreInit /\ [][StoreNext]_storeVars

-----------------------------------------------------------------------------
(* Properties                                                               *)

ClientPcs == {"idle", "update", "count", "uncount", "store", "surplus", "apply", "get", "read",
              "delete", "remove", "removed", "range", "next", "clear", "cleared"}
CallSet(pcs) == [pc : pcs, key : Keys \cup {Nil}, entry : Entries \cup {Nil}, now : Nat,
                 todo : SUBSET Keys, found : SUBSET Keys]

\* keyCount is a count, every lock has one owner at most, and every call and the
\* janitor are at one of their steps (memory.go:85-107).
StoreTypeOK ==
  /\ buckets \in [Keys -> Entries \cup {Nil}]
  /\ entry \in [Entries -> [state : States \cup {Nil}, lastAccess : Nat,
                            mu : Clients \cup {Free, Janitor}]]
  /\ keyCount \in Nat
  /\ op \in [Clients -> CallSet(ClientPcs)]
  /\ jan \in CallSet({"idle", "visit", "evict", "evicted", "exited"})
  /\ storeClosed \in {"no", "closing", "yes"}
  /\ storeClock \in Nat

\* Goroutines that have counted a key that is not, or no longer, in the map.
Reserving == {c \in Clients : op[c].pc = "store"}
Undoing == {c \in Clients : op[c].pc \in {"uncount", "surplus", "removed", "cleared"}}
JanitorUndoing == IF jan.pc = "evicted" THEN 1 ELSE 0

\* keyCount never drifts from the map: the difference is exactly the calls that
\* are between their two updates of it, whichever of AtomicUpdate, Delete, Reset
\* and cleanup race for the same key (memory.go:172-175, 203-224, 318-322).
CountAccountsForKeys ==
  keyCount = Cardinality(Stored) + Cardinality(Reserving) + Cardinality(Undoing) + JanitorUndoing

\* The map never holds more than maxKeys keys, also when many callers create
\* keys at once (the TOCTOU race of memory.go:205-206).
KeysBounded == Cardinality(Stored) + Cardinality(Reserving) <= MaxKeys

\* Nobody waits for a lock in vain: an entry's lock is free, or its holder is at its
\* last access under it, which needs no other lock, and then releases it.  So the
\* janitor always gets through, and with it Close, which waits for the janitor
\* (memory.go:169-178, 316-323, 335-336).
LocksComeFree ==
  \A e \in Entries :
    \/ entry[e].mu = Free
    \/ entry[e].mu = Janitor /\ jan.pc = "evicted" /\ jan.entry = e
    \/ \E c \in Clients : /\ entry[e].mu = c /\ op[c].entry = e
                          /\ op[c].pc \in {"removed", "cleared"}
=============================================================================
