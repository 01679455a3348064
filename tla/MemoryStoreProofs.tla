-------------------------- MODULE MemoryStoreProofs --------------------------
(***************************************************************************)
(* keyCount never drifts from the map and the map never outgrows maxKeys,   *)
(* for any number of clients, keys and entries.  The invariant is that the  *)
(* difference between the counter and the map is the calls that are between *)
(* their two updates; it is inductive together with the typing and with the *)
(* fact that a call that is about to touch the map knows its key.           *)
(***************************************************************************)
EXTENDS MemoryStore, FiniteSetTheorems, TLAPS

Calls == CallSet(ClientPcs)
JanitorCalls == CallSet({"idle", "visit", "evict", "evicted", "exited"})
EntryRecords == [state : States \cup {Nil}, lastAccess : Nat, mu : Clients \cup {Free, Janitor}]

\* TypeOK but for keyCount, which the counting below shows to be no less than 0.
Typed ==
  /\ buckets \in [Keys -> Entries \cup {Nil}]
  /\ entry \in [Entries -> EntryRecords]
  /\ keyCount \in Int
  /\ op \in [Clients -> Calls]
  /\ jan \in JanitorCalls
  /\ storeClosed \in {"no", "closing", "yes"}
  /\ storeClock \in Nat

KeyPcs == {"update", "count", "uncount", "store", "surplus", "apply", "get", "read",
           "delete", "remove", "removed", "clear", "cleared"}
EntryPcs == {"surplus", "apply", "read", "remove", "removed", "clear", "cleared"}

\* A call on its way has its key and, once it has loaded it, its entry.
KnownCall(r) == (r.pc \in KeyPcs => r.key \in Keys) /\ (r.pc \in EntryPcs => r.entry \in Entries)
Known ==
  /\ \A c \in Clients : KnownCall(op[c])
  /\ jan.pc \in {"evict", "evicted"} => jan.key \in Keys /\ jan.entry \in Entries

IInv == Typed /\ Known /\ CountAccountsForKeys /\ KeysBounded

-----------------------------------------------------------------------------
(* Counting.                                                                *)

One(b) == IF b THEN 1 ELSE 0
UndoPcs == {"uncount", "surplus", "removed", "cleared"}

\* Adding or removing one element changes a finite set's cardinality by the
\* difference of its two memberships.
LEMMA CardinalityOfChange ==
  ASSUME NEW S, IsFiniteSet(S), NEW x, NEW T, T = S \cup {x} \/ T = S \ {x}
  PROVE  /\ IsFiniteSet(T) /\ Cardinality(S) \in Nat /\ Cardinality(T) \in Nat
         /\ Cardinality(T) = Cardinality(S) + One(x \in T) - One(x \in S)
<1>1. Cardinality(S) \in Nat
  BY FS_CardinalityType
<1>2. CASE T = S \cup {x}
  <2>1. CASE x \in S
    <3>1. T = S
      BY <1>2, <2>1
    <3> QED BY <1>1, <2>1, <3>1 DEF One
  <2>2. CASE x \notin S
    <3>1. IsFiniteSet(T) /\ Cardinality(T) = Cardinality(S) + 1
      BY <1>2, <2>2, FS_AddElement
    <3>2. x \in T
      BY <1>2
    <3> QED BY <1>1, <2>2, <3>1, <3>2 DEF One
  <2> QED BY <2>1, <2>2
<1>3. CASE T = S \ {x}
  <2>1. CASE x \in S
    <3>1. IsFiniteSet(T) /\ Cardinality(T) = Cardinality(S) - 1
      BY <1>3, <2>1, FS_RemoveElement
    <3>2. Cardinality(T) \in Nat
      BY <3>1, FS_CardinalityType
    <3>3. x \notin T
      BY <1>3
    <3> QED BY <1>1, <2>1, <3>1, <3>2, <3>3 DEF One
  <2>2. CASE x \notin S
    <3>1. T = S
      BY <1>3, <2>2
    <3> QED BY <1>1, <2>2, <3>1 DEF One
  <2> QED BY <2>1, <2>2
<1> QED BY <1>2, <1>3

\* The three counted sets are finite: keys and goroutines are.
LEMMA Finite == IsFiniteSet(Stored) /\ IsFiniteSet(Reserving) /\ IsFiniteSet(Undoing)
<1>1. Stored \subseteq Keys /\ Reserving \subseteq Clients /\ Undoing \subseteq Clients
  BY DEF Stored, Reserving, Undoing
<1> QED BY <1>1, SetsAssumption, FS_Subset

\* The terms of CountAccountsForKeys are natural numbers.
LEMMA Counted ==
  /\ Cardinality(Stored) \in Nat /\ Cardinality(Reserving) \in Nat /\ Cardinality(Undoing) \in Nat
  /\ JanitorUndoing \in {0, 1}
BY Finite, FS_CardinalityType DEF JanitorUndoing

\* One client moves.
LEMMA ClientMoves ==
  ASSUME NEW c \in Clients, \A d \in Clients \ {c} : op'[d] = op[d]
  PROVE  /\ Cardinality(Reserving') = Cardinality(Reserving)
                + One(op'[c].pc = "store") - One(op[c].pc = "store")
         /\ Cardinality(Undoing') = Cardinality(Undoing)
                + One(op'[c].pc \in UndoPcs) - One(op[c].pc \in UndoPcs)
<1>1. Reserving' = Reserving \cup {c} \/ Reserving' = Reserving \ {c}
  BY DEF Reserving
<1>2. Undoing' = Undoing \cup {c} \/ Undoing' = Undoing \ {c}
  BY DEF Undoing
<1>3. /\ (c \in Reserving) = (op[c].pc = "store") /\ (c \in Reserving') = (op'[c].pc = "store")
      /\ (c \in Undoing) = (op[c].pc \in UndoPcs) /\ (c \in Undoing') = (op'[c].pc \in UndoPcs)
  BY DEF Reserving, Undoing, UndoPcs
<1>4. Cardinality(Reserving') = Cardinality(Reserving) + One(c \in Reserving') - One(c \in Reserving)
  BY <1>1, Finite, CardinalityOfChange
<1>5. Cardinality(Undoing') = Cardinality(Undoing) + One(c \in Undoing') - One(c \in Undoing)
  BY <1>2, Finite, CardinalityOfChange
<1> QED BY <1>3, <1>4, <1>5

\* One key is set or cleared.
LEMMA KeyChanges ==
  ASSUME NEW k \in Keys, \A j \in Keys \ {k} : buckets'[j] = buckets[j]
  PROVE  Cardinality(Stored') = Cardinality(Stored)
                + One(buckets'[k] # Nil) - One(buckets[k] # Nil)
<1>1. Stored' = Stored \cup {k} \/ Stored' = Stored \ {k}
  BY DEF Stored
<1>2. (k \in Stored) = (buckets[k] # Nil) /\ (k \in Stored') = (buckets'[k] # Nil)
  BY DEF Stored
<1>3. Cardinality(Stored') = Cardinality(Stored) + One(k \in Stored') - One(k \in Stored)
  BY <1>1, Finite, CardinalityOfChange
<1> QED BY <1>2, <1>3

\* A step that leaves the sync.Map alone leaves the stored keys alone.
LEMMA MapUnchanged == ASSUME buckets' = buckets PROVE Stored' = Stored
BY DEF Stored

\* A step of cleanup or of Close moves no client.
LEMMA ClientsUnchanged == ASSUME op' = op PROVE Reserving' = Reserving /\ Undoing' = Undoing
BY DEF Reserving, Undoing

\* A client's step does not move cleanup.
LEMMA JanitorUnchanged == ASSUME jan' = jan PROVE JanitorUndoing' = JanitorUndoing
BY DEF JanitorUndoing

-----------------------------------------------------------------------------
(* Typing.                                                                  *)

\* A new store is well typed (NewMemoryStore).
LEMMA InitTyped == StoreInit => Typed /\ Known
BY DEF StoreInit, Typed, Known, NoCall, Calls, JanitorCalls, CallSet, ClientPcs, EntryRecords, KnownCall, KeyPcs, EntryPcs

\* A call that moves leaves the others alone.
Alone(c) == op' = [d \in Clients |-> op'[d]] /\ \A d \in Clients \ {c} : op'[d] = op[d]

\* A client's step keeps the typing if the call it becomes is well typed.
LEMMA ClientTyped ==
  ASSUME Typed, Known, jan' = jan, NEW c \in Clients, Alone(c), op'[c] \in Calls, KnownCall(op'[c])
  PROVE  op' \in [Clients -> Calls] /\ jan' \in JanitorCalls /\ Known'
<1>1. op' \in [Clients -> Calls] /\ jan' \in JanitorCalls
  BY DEF Typed, Alone
<1> QED BY <1>1 DEF Known, Alone

\* Every step of a call keeps the typing, and a call that is about to touch the
\* map or an entry knows which.
LEMMA ClientStep ==
  ASSUME Typed, Known, NEW c \in Clients,
         (\E kind \in {"update", "get", "delete"}, k \in Keys : Begin(c, kind, k)) \/ ResetBegin(c) \/ Call(c)
  PROVE  Typed' /\ Known' /\ Alone(c)
<1> USE DEF At, Goto, Return, Holding, LoadAndDelete
<1> DEFINE F == op \in [Clients -> Calls]
<1>a. F /\ op[c] \in Calls /\ KnownCall(op[c]) /\ buckets \in [Keys -> Entries \cup {Nil}]
  BY DEF Typed, Known
<1>1. CASE \E kind \in {"update", "get", "delete"}, k \in Keys : Begin(c, kind, k)
  <2>0. PICK kind \in {"update", "get", "delete"}, k \in Keys : Begin(c, kind, k)
    BY <1>1
  <2>1. Alone(c)
    BY <2>0, <1>a DEF Begin, Alone
  <2>2. op'[c] \in Calls /\ KnownCall(op'[c])
    <3>1. op'[c] = [op[c] EXCEPT !.pc = kind, !.key = k] /\ op[c].pc = "idle"
      BY <2>0, <1>a DEF Begin
    <3> QED BY <3>1, <1>a DEF Calls, CallSet, ClientPcs, KnownCall, KeyPcs, EntryPcs
  <2> QED BY <2>0, <2>1, <2>2, ClientTyped DEF Begin, Typed
<1>2. CASE UpdateLoad(c)
  <2>1. Alone(c)
    BY <1>2, <1>a DEF UpdateLoad, Alone
  <2>2. op'[c] \in Calls /\ KnownCall(op'[c])
    BY <1>2, <1>a DEF UpdateLoad, NoCall, Calls, CallSet, ClientPcs, KnownCall, KeyPcs, EntryPcs, Typed
  <2> QED BY <2>1, <2>2, <1>2, <1>a, ClientTyped DEF UpdateLoad, Typed, KnownCall, EntryPcs, KeyPcs, EntryRecords
<1>3. CASE UpdateCount(c)
  <2>1. Alone(c)
    BY <1>3, <1>a DEF UpdateCount, Alone
  <2>2. op'[c] \in Calls /\ KnownCall(op'[c])
    BY <1>3, <1>a DEF UpdateCount, NoCall, Calls, CallSet, ClientPcs, KnownCall, KeyPcs, EntryPcs, Typed
  <2> QED BY <2>1, <2>2, <1>3, <1>a, ClientTyped DEF UpdateCount, Typed, KnownCall, EntryPcs, KeyPcs, EntryRecords
<1>4. CASE UpdateRefused(c)
  <2>1. Alone(c)
    BY <1>4, <1>a DEF UpdateRefused, Alone
  <2>2. op'[c] \in Calls /\ KnownCall(op'[c])
    BY <1>4, <1>a DEF UpdateRefused, NoCall, Calls, CallSet, ClientPcs, KnownCall, KeyPcs, EntryPcs, Typed
  <2> QED BY <2>1, <2>2, <1>4, <1>a, ClientTyped DEF UpdateRefused, Typed, KnownCall, EntryPcs, KeyPcs, EntryRecords
<1>5. CASE UpdateStore(c)
  <2>0. op[c].key \in Keys /\ jan' = jan
    BY <1>5, <1>a DEF UpdateStore, KnownCall, KeyPcs
  <2>1. Alone(c)
    BY <1>5, <1>a DEF UpdateStore, Alone
  <2>2. CASE buckets[op[c].key] = Nil
    <3>1. PICK e \in Entries :
            /\ buckets' = [buckets EXCEPT ![op[c].key] = e]
            /\ entry' = [entry EXCEPT ![e] = [state |-> Nil, lastAccess |-> op[c].now, mu |-> Free]]
            /\ op' = [op EXCEPT ![c].pc = "apply", ![c].entry = e, ![c].now = 0]
      BY <1>5, <2>2 DEF UpdateStore
    <3>2. op'[c] = [op[c] EXCEPT !.pc = "apply", !.entry = e, !.now = 0]
      BY <3>1, <1>a
    <3>3. op'[c] \in Calls /\ KnownCall(op'[c])
      <4>1. PICK r \in Calls : r = op[c] /\ r.key \in Keys
        BY <2>0, <1>a
      <4>2. PICK p \in ClientPcs, n \in Nat : p = "apply" /\ n = 0
        BY DEF ClientPcs
      <4>3. op'[c] = [r EXCEPT !.pc = p, !.entry = e, !.now = n]
        BY <3>2, <4>1, <4>2
      <4>4. op'[c] \in Calls /\ op'[c].key \in Keys /\ op'[c].entry \in Entries
        BY <4>1, <4>3 DEF Calls, CallSet
      <4> QED BY <4>4 DEF KnownCall
    <3>4. [state |-> Nil, lastAccess |-> op[c].now, mu |-> Free] \in EntryRecords
      BY <1>a DEF Calls, CallSet, EntryRecords
    <3>5. entry' \in [Entries -> EntryRecords] /\ buckets' \in [Keys -> Entries \cup {Nil}]
      BY <3>1, <3>4, <1>a DEF Typed
    <3> QED BY <3>3, <3>5, <2>0, <2>1, <1>5, ClientTyped DEF UpdateStore, Typed
  <2>3. CASE buckets[op[c].key] # Nil
    <3>1. buckets[op[c].key] \in Entries
      BY <2>0, <2>3, <1>a
    <3>2. PICK e \in Entries : op' = [op EXCEPT ![c].pc = "surplus", ![c].entry = e, ![c].now = 0]
      BY <3>1, <1>5, <2>3 DEF UpdateStore
    <3>3. op'[c] = [op[c] EXCEPT !.pc = "surplus", !.entry = e, !.now = 0]
      BY <3>2, <1>a
    <3>4. op'[c] \in Calls /\ KnownCall(op'[c])
      <4>1. PICK r \in Calls : r = op[c] /\ r.key \in Keys
        BY <2>0, <1>a
      <4>2. PICK p \in ClientPcs, n \in Nat : p = "surplus" /\ n = 0
        BY DEF ClientPcs
      <4>3. op'[c] = [r EXCEPT !.pc = p, !.entry = e, !.now = n]
        BY <3>3, <4>1, <4>2
      <4>4. op'[c] \in Calls /\ op'[c].key \in Keys /\ op'[c].entry \in Entries
        BY <4>1, <4>3 DEF Calls, CallSet
      <4> QED BY <4>4 DEF KnownCall
    <3> QED BY <3>4, <2>0, <2>1, <2>3, <1>5, ClientTyped DEF UpdateStore, Typed
  <2> QED BY <2>2, <2>3
<1>6. CASE UpdateSurplus(c)
  <2>1. Alone(c)
    BY <1>6, <1>a DEF UpdateSurplus, Alone
  <2>2. op'[c] \in Calls /\ KnownCall(op'[c])
    BY <1>6, <1>a DEF UpdateSurplus, NoCall, Calls, CallSet, ClientPcs, KnownCall, KeyPcs, EntryPcs, Typed
  <2> QED BY <2>1, <2>2, <1>6, <1>a, ClientTyped DEF UpdateSurplus, Typed, KnownCall, EntryPcs, KeyPcs, EntryRecords
<1>7. CASE UpdateApply(c)
  <2>1. Alone(c)
    BY <1>7, <1>a DEF UpdateApply, Alone
  <2>2. op'[c] \in Calls /\ KnownCall(op'[c])
    BY <1>7, <1>a DEF UpdateApply, NoCall, Calls, CallSet, ClientPcs, KnownCall, KeyPcs, EntryPcs
  <2>3. entry' \in [Entries -> EntryRecords]
    <3>1. entry \in [Entries -> EntryRecords] /\ storeClock \in Nat
      BY DEF Typed
    <3>2. SUFFICES ASSUME NEW s \in States \cup {Nil},
                          entry' = [entry EXCEPT ![op[c].entry].lastAccess = storeClock,
                                                 ![op[c].entry].state = IF s = Nil THEN @ ELSE s]
                   PROVE  entry' \in [Entries -> EntryRecords]
      BY <1>7, <3>1 DEF UpdateApply
    <3>3. PICK e \in Entries : e = op[c].entry
      BY <1>7, <1>a DEF UpdateApply, KnownCall, EntryPcs
    <3>4. entry' = [d \in Entries |-> entry'[d]] /\ \A d \in Entries \ {e} : entry'[d] = entry[d]
      BY <3>1, <3>2, <3>3
    <3>5. entry'[e] = [entry[e] EXCEPT !.lastAccess = storeClock, !.state = IF s = Nil THEN @ ELSE s]
      BY <3>1, <3>2, <3>3
    <3>6. entry'[e] \in EntryRecords
      BY <3>1, <3>5 DEF EntryRecords
    <3> QED BY <3>1, <3>4, <3>6
  <2> QED BY <2>1, <2>2, <2>3, <1>7, ClientTyped DEF UpdateApply, Typed
<1>8. CASE GetLoad(c)
  <2>1. Alone(c)
    BY <1>8, <1>a DEF GetLoad, Alone
  <2>2. op'[c] \in Calls /\ KnownCall(op'[c])
    BY <1>8, <1>a DEF GetLoad, NoCall, Calls, CallSet, ClientPcs, KnownCall, KeyPcs, EntryPcs, Typed
  <2> QED BY <2>1, <2>2, <1>8, <1>a, ClientTyped DEF GetLoad, Typed, KnownCall, EntryPcs, KeyPcs, EntryRecords
<1>9. CASE GetRead(c)
  <2>1. Alone(c)
    BY <1>9, <1>a DEF GetRead, Alone
  <2>2. op'[c] \in Calls /\ KnownCall(op'[c])
    BY <1>9, <1>a DEF GetRead, NoCall, Calls, CallSet, ClientPcs, KnownCall, KeyPcs, EntryPcs, Typed
  <2> QED BY <2>1, <2>2, <1>9, <1>a, ClientTyped DEF GetRead, Typed, KnownCall, EntryPcs, KeyPcs, EntryRecords
<1>10. CASE DeleteLoad(c)
  <2>1. Alone(c)
    BY <1>10, <1>a DEF DeleteLoad, Alone
  <2>2. op'[c] \in Calls /\ KnownCall(op'[c])
    BY <1>10, <1>a DEF DeleteLoad, NoCall, Calls, CallSet, ClientPcs, KnownCall, KeyPcs, EntryPcs, Typed
  <2> QED BY <2>1, <2>2, <1>10, <1>a, ClientTyped DEF DeleteLoad, Typed, KnownCall, EntryPcs, KeyPcs, EntryRecords
<1>11. CASE DeleteRemove(c)
  <2>1. Alone(c)
    BY <1>11, <1>a DEF DeleteRemove, Alone
  <2>2. op'[c] \in Calls /\ KnownCall(op'[c])
    BY <1>11, <1>a DEF DeleteRemove, NoCall, Calls, CallSet, ClientPcs, KnownCall, KeyPcs, EntryPcs, Typed
  <2> QED BY <2>1, <2>2, <1>11, <1>a, ClientTyped DEF DeleteRemove, Typed, KnownCall, EntryPcs, KeyPcs, EntryRecords
<1>12. CASE DeleteCount(c)
  <2>1. Alone(c)
    BY <1>12, <1>a DEF DeleteCount, Alone
  <2>2. op'[c] \in Calls /\ KnownCall(op'[c])
    BY <1>12, <1>a DEF DeleteCount, NoCall, Calls, CallSet, ClientPcs, KnownCall, KeyPcs, EntryPcs, Typed
  <2> QED BY <2>1, <2>2, <1>12, <1>a, ClientTyped DEF DeleteCount, Typed, KnownCall, EntryPcs, KeyPcs, EntryRecords
<1>13. CASE ResetBegin(c)
  <2>1. Alone(c)
    BY <1>13, <1>a DEF ResetBegin, Alone
  <2>2. op'[c] \in Calls /\ KnownCall(op'[c])
    BY <1>13, <1>a DEF ResetBegin, NoCall, Calls, CallSet, ClientPcs, KnownCall, KeyPcs, EntryPcs, Typed
  <2> QED BY <2>1, <2>2, <1>13, <1>a, ClientTyped DEF ResetBegin, Typed, KnownCall, EntryPcs, KeyPcs, EntryRecords
<1>14. CASE ResetRange(c)
  <2>1. Alone(c)
    BY <1>14, <1>a DEF ResetRange, Alone
  <2>2. op'[c] \in Calls /\ KnownCall(op'[c])
    <3>1. PICK t \in SUBSET Keys, f \in SUBSET Keys, p \in {"range", "next"} :
            op'[c] = [op[c] EXCEPT !.pc = p, !.todo = t, !.found = f]
      <4>1. CASE op[c].todo = {} /\ op' = [op EXCEPT ![c].pc = "next"]
        <5>1. op'[c] = [op[c] EXCEPT !.pc = "next", !.todo = op[c].todo, !.found = op[c].found]
          BY <4>1, <1>a DEF Calls, CallSet
        <5> QED BY <5>1, <1>a DEF Calls, CallSet
      <4>2. CASE \E k \in op[c].todo :
                   op' = [op EXCEPT ![c].todo = @ \ {k},
                                    ![c].found = IF k \in Stored THEN @ \cup {k} ELSE @]
        <5>1. PICK k \in op[c].todo :
                op' = [op EXCEPT ![c].todo = @ \ {k},
                                 ![c].found = IF k \in Stored THEN @ \cup {k} ELSE @]
          BY <4>2
        <5>2. PICK t, f : t = op[c].todo \ {k} /\ f = IF k \in Stored THEN op[c].found \cup {k} ELSE op[c].found
          OBVIOUS
        <5>3. op'[c] = [op[c] EXCEPT !.todo = t, !.found = f]
          BY <5>1, <5>2, <1>a DEF Calls, CallSet
        <5>4. op'[c] = [op[c] EXCEPT !.pc = "range", !.todo = t, !.found = f]
          BY <5>3, <1>14, <1>a DEF ResetRange, Calls, CallSet
        <5>5. t \in SUBSET Keys /\ f \in SUBSET Keys
          BY <5>1, <5>2, <1>a DEF Calls, CallSet, Stored
        <5> QED BY <5>4, <5>5
      <4> QED BY <1>14, <4>1, <4>2 DEF ResetRange
    <3> QED BY <3>1, <1>a DEF Calls, CallSet, ClientPcs, KnownCall, KeyPcs, EntryPcs
  <2> QED BY <2>1, <2>2, <1>14, ClientTyped DEF ResetRange, Typed
<1>15. CASE ResetNext(c)
  <2>1. Alone(c)
    BY <1>15, <1>a DEF ResetNext, Alone
  <2>2. op'[c] \in Calls /\ KnownCall(op'[c])
    <3>1. CASE Return(c)
      BY <3>1, <1>a DEF NoCall, Calls, CallSet, ClientPcs, KnownCall, KeyPcs, EntryPcs
    <3>2. CASE ~Return(c)
      <4>1. PICK k \in op[c].found :
              op' = IF buckets[k] = Nil THEN [op EXCEPT ![c].found = @ \ {k}]
                    ELSE [op EXCEPT ![c].found = @ \ {k}, ![c].pc = "clear",
                                    ![c].key = k, ![c].entry = buckets[k]]
        BY <1>15, <3>2 DEF ResetNext
      <4>2. PICK f \in SUBSET Keys : f = op[c].found \ {k}
        BY <1>a DEF Calls, CallSet
      <4>3. k \in Keys /\ op[c].pc = "next"
        BY <4>1, <1>15, <1>a DEF Calls, CallSet, ResetNext
      <4>4. PICK e \in Entries \cup {Nil} : e = buckets[k]
        BY <4>3, <1>a
      <4>5. CASE e = Nil
        <5>1. op'[c] = [op[c] EXCEPT !.found = f]
          BY <4>1, <4>2, <4>4, <4>5, <1>a
        <5> QED BY <5>1, <4>3, <1>a DEF Calls, CallSet, ClientPcs, KnownCall, KeyPcs, EntryPcs
      <4>6. CASE e # Nil
        <5>1. op'[c] = [op[c] EXCEPT !.found = f, !.pc = "clear", !.key = k, !.entry = e]
          BY <4>1, <4>2, <4>4, <4>6, <1>a
        <5> QED BY <5>1, <4>3, <4>6, <1>a DEF Calls, CallSet, ClientPcs, KnownCall, KeyPcs, EntryPcs
      <4> QED BY <4>5, <4>6
    <3> QED BY <3>1, <3>2
  <2> QED BY <2>1, <2>2, <1>15, ClientTyped DEF ResetNext, Typed
<1>16. CASE ResetClear(c)
  <2>1. Alone(c)
    BY <1>16, <1>a DEF ResetClear, Alone
  <2>2. op'[c] \in Calls /\ KnownCall(op'[c])
    BY <1>16, <1>a DEF ResetClear, NoCall, Calls, CallSet, ClientPcs, KnownCall, KeyPcs, EntryPcs, Typed
  <2> QED BY <2>1, <2>2, <1>16, <1>a, ClientTyped DEF ResetClear, Typed, KnownCall, EntryPcs, KeyPcs, EntryRecords
<1>17. CASE ResetCount(c)
  <2>1. Alone(c)
    BY <1>17, <1>a DEF ResetCount, Alone
  <2>2. op'[c] \in Calls /\ KnownCall(op'[c])
    BY <1>17, <1>a DEF ResetCount, NoCall, Calls, CallSet, ClientPcs, KnownCall, KeyPcs, EntryPcs, Typed
  <2> QED BY <2>1, <2>2, <1>17, <1>a, ClientTyped DEF ResetCount, Typed, KnownCall, EntryPcs, KeyPcs, EntryRecords
<1> QED BY <1>1, <1>2, <1>3, <1>4, <1>5, <1>6, <1>7, <1>8, <1>9, <1>10, <1>11, <1>12, <1>13, <1>14, <1>15, <1>16, <1>17 DEF Call, AtomicUpdate, Get, Delete, StoreReset

\* So does every step of cleanup, of Close and of the clock.
LEMMA JanitorStep ==
  ASSUME Typed, Known, CleanupBegin \/ Cleanup \/ JanitorExits \/ CloseBegin \/ CloseEnd \/ StoreTick
  PROVE  Typed' /\ Known'
<1>a. jan \in JanitorCalls /\ buckets \in [Keys -> Entries \cup {Nil}] /\ storeClock \in Nat
  BY DEF Typed
<1>1. CASE CleanupBegin
  <2>1. jan' \in JanitorCalls /\ jan'.pc = "visit"
    BY <1>1, <1>a DEF CleanupBegin, JanitorCalls, CallSet
  <2> QED BY <1>1, <2>1 DEF CleanupBegin, Typed, Known
<1>2. CASE CleanupVisit
  <2>1. jan' \in JanitorCalls /\ (jan'.pc \in {"evict", "evicted"} => jan'.key \in Keys /\ jan'.entry \in Entries)
    <3>1. CASE jan' = NoCall
      BY <3>1 DEF NoCall, JanitorCalls, CallSet
    <3>2. CASE jan' # NoCall
      <4>1. PICK k \in jan.todo :
              jan' = IF buckets[k] # Nil /\ Expired(buckets[k])
                     THEN [jan EXCEPT !.todo = @ \ {k}, !.pc = "evict", !.key = k, !.entry = buckets[k]]
                     ELSE [jan EXCEPT !.todo = @ \ {k}]
        BY <1>2, <3>2 DEF CleanupVisit
      <4>2. PICK t \in SUBSET Keys : t = jan.todo \ {k}
        BY <1>a DEF JanitorCalls, CallSet
      <4>3. k \in Keys /\ jan.pc = "visit"
        BY <4>1, <1>2, <1>a DEF JanitorCalls, CallSet, CleanupVisit
      <4>4. PICK e \in Entries \cup {Nil} : e = buckets[k]
        BY <4>3, <1>a
      <4>5. CASE e # Nil /\ Expired(e)
        <5>1. jan' = [jan EXCEPT !.todo = t, !.pc = "evict", !.key = k, !.entry = e]
          BY <4>1, <4>2, <4>4, <4>5
        <5> QED BY <5>1, <4>3, <4>5, <1>a DEF JanitorCalls, CallSet
      <4>6. CASE ~(e # Nil /\ Expired(e))
        <5>1. jan' = [jan EXCEPT !.todo = t]
          BY <4>1, <4>2, <4>4, <4>6
        <5> QED BY <5>1, <4>3, <1>a DEF JanitorCalls, CallSet
      <4> QED BY <4>5, <4>6
    <3> QED BY <3>1, <3>2
  <2> QED BY <1>2, <2>1 DEF CleanupVisit, Typed, Known
<1>3. CASE CleanupEvict
  <2>1. jan' \in JanitorCalls /\ (jan'.pc \in {"evict", "evicted"} => jan'.key \in Keys /\ jan'.entry \in Entries)
    BY <1>3, <1>a DEF CleanupEvict, JanitorCalls, CallSet, Known
  <2>2. entry' \in [Entries -> EntryRecords] /\ buckets' \in [Keys -> Entries \cup {Nil}]
    BY <1>3, <1>a DEF CleanupEvict, Typed, Holding, LoadAndDelete, EntryRecords
  <2> QED BY <1>3, <2>1, <2>2 DEF CleanupEvict, Typed, Known
<1>4. CASE CleanupCount
  <2>1. jan' \in JanitorCalls /\ jan'.pc = "visit"
    BY <1>4, <1>a DEF CleanupCount, JanitorCalls, CallSet
  <2>2. entry' \in [Entries -> EntryRecords]
    BY <1>4, <1>a DEF CleanupCount, Typed, Holding, EntryRecords
  <2> QED BY <1>4, <2>1, <2>2 DEF CleanupCount, Typed, Known
<1>5. CASE JanitorExits
  <2>1. jan' \in JanitorCalls /\ jan'.pc = "exited"
    BY <1>5, <1>a DEF JanitorExits, JanitorCalls, CallSet
  <2> QED BY <1>5, <2>1 DEF JanitorExits, Typed, Known
<1>6. CASE CloseBegin \/ CloseEnd \/ StoreTick
  BY <1>6 DEF CloseBegin, CloseEnd, StoreTick, Typed, Known
<1> QED BY <1>1, <1>2, <1>3, <1>4, <1>5, <1>6 DEF Cleanup

-----------------------------------------------------------------------------
(* The count.                                                               *)

Balanced == CountAccountsForKeys /\ KeysBounded

\* A step that touches neither the map nor the counter.
LEMMA Neutral ==
  ASSUME Balanced, buckets' = buckets, keyCount' = keyCount, jan' = jan, NEW c \in Clients, Alone(c),
         op[c].pc \notin UndoPcs \cup {"store"}, op'[c].pc \notin UndoPcs \cup {"store"}
  PROVE  Balanced'
<1>1. /\ Cardinality(Reserving') = Cardinality(Reserving) + 0 - 0
      /\ Cardinality(Undoing') = Cardinality(Undoing) + 0 - 0
  BY ClientMoves DEF One, Alone
<1>2. Cardinality(Stored') = Cardinality(Stored) /\ JanitorUndoing' = JanitorUndoing
  BY MapUnchanged, JanitorUnchanged
<1> QED BY <1>1, <1>2, Counted DEF Balanced, CountAccountsForKeys, KeysBounded

\* A step of a client that changes the map at its own key and the counter by d.
LEMMA Accounted ==
  ASSUME Balanced, keyCount \in Int, jan' = jan, NEW c \in Clients, Alone(c),
         NEW k \in Keys, \A j \in Keys \ {k} : buckets'[j] = buckets[j],
         NEW d \in Int, keyCount' = keyCount + d,
         d = One(buckets'[k] # Nil) - One(buckets[k] # Nil)
               + One(op'[c].pc = "store") - One(op[c].pc = "store")
               + One(op'[c].pc \in UndoPcs) - One(op[c].pc \in UndoPcs),
         \/ keyCount' <= MaxKeys
         \/ One(buckets'[k] # Nil) + One(op'[c].pc = "store") <= One(buckets[k] # Nil) + One(op[c].pc = "store")
  PROVE  Balanced'
<1> DEFINE s1 == One(buckets'[k] # Nil) s0 == One(buckets[k] # Nil)
           r1 == One(op'[c].pc = "store") r0 == One(op[c].pc = "store")
           u1 == One(op'[c].pc \in UndoPcs) u0 == One(op[c].pc \in UndoPcs)
<1>1. /\ s1 \in {0, 1} /\ s0 \in {0, 1} /\ r1 \in {0, 1} /\ r0 \in {0, 1}
      /\ u1 \in {0, 1} /\ u0 \in {0, 1}
  BY DEF One
<1>2. /\ Cardinality(Reserving') = Cardinality(Reserving) + r1 - r0
      /\ Cardinality(Undoing') = Cardinality(Undoing) + u1 - u0
  BY ClientMoves DEF Alone
<1>3. Cardinality(Stored') = Cardinality(Stored) + s1 - s0
  BY KeyChanges
<1>4. JanitorUndoing' = JanitorUndoing
  BY JanitorUnchanged
<1>5. d = s1 - s0 + r1 - r0 + u1 - u0 /\ (keyCount' <= MaxKeys \/ s1 + r1 <= s0 + r0)
  OBVIOUS
<1> HIDE DEF s1, s0, r1, r0, u1, u0
<1>6. CountAccountsForKeys'
  BY <1>1, <1>2, <1>3, <1>4, <1>5, Counted DEF Balanced, CountAccountsForKeys
<1>7. /\ Cardinality(Stored)' \in Nat /\ Cardinality(Reserving)' \in Nat
      /\ Cardinality(Undoing)' \in Nat /\ JanitorUndoing' \in {0, 1}
  <2>1. /\ Cardinality(Stored)' \in Nat /\ Cardinality(Reserving)' \in Nat
        /\ Cardinality(Undoing)' \in Nat
    <3>1. Stored' \subseteq Keys /\ Reserving' \subseteq Clients /\ Undoing' \subseteq Clients
      BY DEF Stored, Reserving, Undoing
    <3> QED BY <3>1, SetsAssumption, FS_Subset, FS_CardinalityType
  <2> QED BY <2>1, <1>4, Counted
<1>8. KeysBounded'
  BY <1>1, <1>2, <1>3, <1>5, <1>6, <1>7, Counted, StoreAssumption
     DEF Balanced, CountAccountsForKeys, KeysBounded
<1> QED BY <1>6, <1>8 DEF Balanced

\* Every step of AtomicUpdate, Get, Delete and Reset keeps the balance.
LEMMA ClientCounts ==
  ASSUME Typed, Known, Balanced, NEW c \in Clients, Alone(c), Typed',
         (\E kind \in {"update", "get", "delete"}, k \in Keys : Begin(c, kind, k)) \/ ResetBegin(c) \/ Call(c)
  PROVE  Balanced'
<1> USE DEF At, Goto, Return, Holding, LoadAndDelete
<1>a. /\ op \in [Clients -> Calls] /\ op[c] \in Calls /\ op'[c] \in Calls /\ KnownCall(op[c])
      /\ buckets \in [Keys -> Entries \cup {Nil}] /\ keyCount \in Int /\ Alone(c)
  BY DEF Typed, Known
<1>b. /\ op[c].pc \in KeyPcs => op[c].key \in Keys
      /\ op[c].pc \in EntryPcs => op[c].entry \in Entries
  BY <1>a DEF KnownCall
<1>1. CASE \E kind \in {"update", "get", "delete"}, k \in Keys : Begin(c, kind, k)
  <2>1. op[c].pc = "idle" /\ op'[c].pc \in {"update", "get", "delete"}
    BY <1>1, <1>a DEF Begin, Calls, CallSet
  <2>2. buckets' = buckets /\ keyCount' = keyCount /\ jan' = jan
    BY <1>1 DEF Begin
  <2> QED BY <2>1, <2>2, <1>a, Neutral DEF UndoPcs
<1>2. CASE UpdateLoad(c)
  <2>1. op[c].pc = "update" /\ op'[c].pc \in {"count", "apply"}
    BY <1>2, <1>a DEF UpdateLoad, NoCall, Calls, CallSet
  <2>2. buckets' = buckets /\ keyCount' = keyCount /\ jan' = jan
    BY <1>2 DEF UpdateLoad
  <2> QED BY <2>1, <2>2, <1>a, Neutral DEF UndoPcs
<1>3. CASE UpdateApply(c)
  <2>1. op[c].pc = "apply" /\ op'[c].pc \in {"idle"}
    BY <1>3, <1>a DEF UpdateApply, NoCall, Calls, CallSet
  <2>2. buckets' = buckets /\ keyCount' = keyCount /\ jan' = jan
    BY <1>3 DEF UpdateApply
  <2> QED BY <2>1, <2>2, <1>a, Neutral DEF UndoPcs
<1>4. CASE GetLoad(c)
  <2>1. op[c].pc = "get" /\ op'[c].pc \in {"idle", "read"}
    BY <1>4, <1>a DEF GetLoad, NoCall, Calls, CallSet
  <2>2. buckets' = buckets /\ keyCount' = keyCount /\ jan' = jan
    BY <1>4 DEF GetLoad
  <2> QED BY <2>1, <2>2, <1>a, Neutral DEF UndoPcs
<1>5. CASE GetRead(c)
  <2>1. op[c].pc = "read" /\ op'[c].pc \in {"idle"}
    BY <1>5, <1>a DEF GetRead, NoCall, Calls, CallSet
  <2>2. buckets' = buckets /\ keyCount' = keyCount /\ jan' = jan
    BY <1>5 DEF GetRead
  <2> QED BY <2>1, <2>2, <1>a, Neutral DEF UndoPcs
<1>6. CASE DeleteLoad(c)
  <2>1. op[c].pc = "delete" /\ op'[c].pc \in {"idle", "remove"}
    BY <1>6, <1>a DEF DeleteLoad, NoCall, Calls, CallSet
  <2>2. buckets' = buckets /\ keyCount' = keyCount /\ jan' = jan
    BY <1>6 DEF DeleteLoad
  <2> QED BY <2>1, <2>2, <1>a, Neutral DEF UndoPcs
<1>7. CASE ResetBegin(c)
  <2>1. op[c].pc = "idle" /\ op'[c].pc \in {"range"}
    BY <1>7, <1>a DEF ResetBegin, NoCall, Calls, CallSet
  <2>2. buckets' = buckets /\ keyCount' = keyCount /\ jan' = jan
    BY <1>7 DEF ResetBegin
  <2> QED BY <2>1, <2>2, <1>a, Neutral DEF UndoPcs
<1>8. CASE ResetRange(c)
  <2>1. op[c].pc = "range" /\ op'[c].pc \in {"range", "next"}
    BY <1>8, <1>a DEF ResetRange, NoCall, Calls, CallSet
  <2>2. buckets' = buckets /\ keyCount' = keyCount /\ jan' = jan
    BY <1>8 DEF ResetRange
  <2> QED BY <2>1, <2>2, <1>a, Neutral DEF UndoPcs
<1>9. CASE ResetNext(c)
  <2>1. op[c].pc = "next" /\ op'[c].pc \in {"idle", "next", "clear"}
    <3>1. CASE Return(c)
      BY <3>1, <1>9, <1>a DEF ResetNext, NoCall
    <3>2. CASE ~Return(c)
      <4>1. PICK k \in op[c].found :
              op' = IF buckets[k] = Nil THEN [op EXCEPT ![c].found = @ \ {k}]
                    ELSE [op EXCEPT ![c].found = @ \ {k}, ![c].pc = "clear",
                                    ![c].key = k, ![c].entry = buckets[k]]
        BY <1>9, <3>2 DEF ResetNext
      <4>2. op'[c].pc = IF buckets[k] = Nil THEN op[c].pc ELSE "clear"
        BY <4>1, <1>a DEF Calls, CallSet
      <4> QED BY <4>2, <1>9 DEF ResetNext
    <3> QED BY <3>1, <3>2
  <2>2. buckets' = buckets /\ keyCount' = keyCount /\ jan' = jan
    BY <1>9 DEF ResetNext
  <2> QED BY <2>1, <2>2, <1>a, Neutral DEF UndoPcs
<1>10. CASE UpdateRefused(c)
  <2>1. op[c].pc = "uncount" /\ op'[c].pc = "idle" /\ op[c].key \in Keys
    BY <1>10, <1>a, <1>b DEF UpdateRefused, NoCall, Calls, CallSet, KeyPcs
  <2>2. buckets' = buckets /\ keyCount' = keyCount + (-1) /\ jan' = jan
    BY <1>10, <1>a DEF UpdateRefused
  <2> QED BY <2>1, <2>2, <1>a, Accounted DEF UndoPcs, One
<1>11. CASE UpdateSurplus(c)
  <2>1. op[c].pc = "surplus" /\ op'[c].pc = "apply" /\ op[c].key \in Keys
    BY <1>11, <1>a, <1>b DEF UpdateSurplus, NoCall, Calls, CallSet, KeyPcs
  <2>2. buckets' = buckets /\ keyCount' = keyCount + (-1) /\ jan' = jan
    BY <1>11, <1>a DEF UpdateSurplus
  <2> QED BY <2>1, <2>2, <1>a, Accounted DEF UndoPcs, One
<1>12. CASE DeleteCount(c)
  <2>1. op[c].pc = "removed" /\ op'[c].pc = "idle" /\ op[c].key \in Keys
    BY <1>12, <1>a, <1>b DEF DeleteCount, NoCall, Calls, CallSet, KeyPcs
  <2>2. buckets' = buckets /\ keyCount' = keyCount + (-1) /\ jan' = jan
    BY <1>12, <1>a DEF DeleteCount
  <2> QED BY <2>1, <2>2, <1>a, Accounted DEF UndoPcs, One
<1>13. CASE ResetCount(c)
  <2>1. op[c].pc = "cleared" /\ op'[c].pc = "next" /\ op[c].key \in Keys
    BY <1>13, <1>a, <1>b DEF ResetCount, NoCall, Calls, CallSet, KeyPcs
  <2>2. buckets' = buckets /\ keyCount' = keyCount + (-1) /\ jan' = jan
    BY <1>13, <1>a DEF ResetCount
  <2> QED BY <2>1, <2>2, <1>a, Accounted DEF UndoPcs, One
<1>14. CASE UpdateCount(c)
  <2>1. op[c].pc = "count" /\ op[c].key \in Keys
    BY <1>14, <1>a, <1>b DEF UpdateCount, KeyPcs
  <2>2. buckets' = buckets /\ keyCount' = keyCount + 1 /\ jan' = jan
    BY <1>14 DEF UpdateCount
  <2>3. op'[c].pc = IF keyCount + 1 > MaxKeys THEN "uncount" ELSE "store"
    BY <1>14, <1>a DEF UpdateCount, Calls, CallSet
  <2>4. keyCount' <= MaxKeys \/ op'[c].pc = "uncount"
    BY <2>2, <2>3, <1>a, StoreAssumption
  <2>5. op'[c].pc \in {"uncount", "store"}
    BY <2>3
  <2> QED BY <2>1, <2>2, <2>4, <2>5, <1>a, Accounted DEF UndoPcs, One
<1>15. CASE UpdateStore(c)
  <2>1. op[c].pc = "store" /\ op[c].key \in Keys
    BY <1>15, <1>a, <1>b DEF UpdateStore, KeyPcs
  <2>2. keyCount' = keyCount + 0 /\ jan' = jan
    <3>1. UNCHANGED <<keyCount, jan>>
      BY <1>15 DEF UpdateStore
    <3> QED BY <3>1, <1>a
  <2>3. CASE buckets[op[c].key] = Nil
    <3>1. PICK e \in Entries : /\ buckets' = [buckets EXCEPT ![op[c].key] = e]
                               /\ op' = [op EXCEPT ![c].pc = "apply", ![c].entry = e, ![c].now = 0]
      BY <1>15, <2>3 DEF UpdateStore
    <3>2. buckets'[op[c].key] # Nil /\ \A j \in Keys \ {op[c].key} : buckets'[j] = buckets[j]
      BY <3>1, <2>1, <1>a, NamesAssumption
    <3>3. op'[c].pc = "apply"
      BY <3>1, <1>a DEF Calls, CallSet
    <3> QED BY <2>1, <2>2, <2>3, <3>2, <3>3, <1>a, Accounted DEF UndoPcs, One
  <2>4. CASE buckets[op[c].key] # Nil
    <3>0. /\ buckets' = buckets
          /\ op' = [op EXCEPT ![c].pc = "surplus", ![c].entry = buckets[op[c].key], ![c].now = 0]
      BY <1>15, <2>4 DEF UpdateStore
    <3>1. buckets' = buckets /\ op'[c].pc = "surplus"
      BY <3>0, <1>a DEF Calls, CallSet
    <3> QED BY <2>1, <2>2, <2>4, <3>1, <1>a, Accounted DEF UndoPcs, One
  <2> QED BY <2>3, <2>4
<1>16. CASE DeleteRemove(c)
  <2>1. op[c].pc = "remove" /\ op[c].key \in Keys
    BY <1>16, <1>a, <1>b DEF DeleteRemove, KeyPcs
  <2>2. keyCount' = keyCount + 0 /\ jan' = jan
    BY <1>16, <1>a DEF DeleteRemove
  <2>3. buckets'[op[c].key] = Nil /\ \A j \in Keys \ {op[c].key} : buckets'[j] = buckets[j]
    BY <1>16, <2>1, <1>a DEF DeleteRemove
  <2>4. op'[c].pc = IF buckets[op[c].key] = Nil THEN "idle" ELSE "removed"
    BY <1>16, <1>a DEF DeleteRemove, NoCall, Calls, CallSet
  <2> QED BY <2>1, <2>2, <2>3, <2>4, <1>a, Accounted DEF UndoPcs, One
<1>17. CASE ResetClear(c)
  <2>1. op[c].pc = "clear" /\ op[c].key \in Keys
    BY <1>17, <1>a, <1>b DEF ResetClear, KeyPcs
  <2>2. keyCount' = keyCount + 0 /\ jan' = jan
    BY <1>17, <1>a DEF ResetClear
  <2>3. buckets'[op[c].key] = Nil /\ \A j \in Keys \ {op[c].key} : buckets'[j] = buckets[j]
    BY <1>17, <2>1, <1>a DEF ResetClear
  <2>4. op'[c].pc = IF buckets[op[c].key] = Nil THEN "next" ELSE "cleared"
    BY <1>17, <1>a DEF ResetClear, NoCall, Calls, CallSet
  <2> QED BY <2>1, <2>2, <2>3, <2>4, <1>a, Accounted DEF UndoPcs, One
<1> QED BY <1>1, <1>2, <1>3, <1>4, <1>5, <1>6, <1>7, <1>8, <1>9, <1>10, <1>11, <1>12, <1>13, <1>14, <1>15, <1>16, <1>17
     DEF Call, AtomicUpdate, Get, Delete, StoreReset

\* Every step of cleanup keeps the balance.
LEMMA JanitorCounts ==
  ASSUME Typed, Known, Balanced, CleanupBegin \/ Cleanup \/ JanitorExits \/ CloseBegin \/ CloseEnd \/ StoreTick
  PROVE  Balanced'
<1>a. jan \in JanitorCalls /\ buckets \in [Keys -> Entries \cup {Nil}] /\ keyCount \in Int
  BY DEF Typed
<1>b. op' = op /\ Reserving' = Reserving /\ Undoing' = Undoing
  BY ClientsUnchanged DEF CleanupBegin, Cleanup, CleanupVisit, CleanupEvict, CleanupCount,
                          JanitorExits, CloseBegin, CloseEnd, StoreTick
<1>c. ASSUME buckets' = buckets, keyCount' = keyCount, JanitorUndoing' = JanitorUndoing
      PROVE  Balanced'
  BY <1>b, <1>c, MapUnchanged DEF Balanced, CountAccountsForKeys, KeysBounded
<1>1. CASE CleanupBegin \/ CleanupVisit \/ JanitorExits
  <2>1. jan.pc # "evicted" /\ jan'.pc # "evicted"
    <3>1. CASE CleanupBegin
      BY <3>1, <1>a DEF CleanupBegin, JanitorCalls, CallSet
    <3>2. CASE JanitorExits
      BY <3>2, <1>a DEF JanitorExits, JanitorCalls, CallSet
    <3>3. CASE CleanupVisit
      <4>1. jan.pc = "visit"
        BY <3>3 DEF CleanupVisit
      <4>2. CASE jan' = NoCall
        BY <4>1, <4>2 DEF NoCall
      <4>3. CASE jan' # NoCall
        <5>1. PICK k \in jan.todo :
                jan' = IF buckets[k] # Nil /\ Expired(buckets[k])
                       THEN [jan EXCEPT !.todo = @ \ {k}, !.pc = "evict", !.key = k, !.entry = buckets[k]]
                       ELSE [jan EXCEPT !.todo = @ \ {k}]
          BY <3>3, <4>3 DEF CleanupVisit
        <5>2. jan'.pc = "evict" \/ jan'.pc = jan.pc
          BY <5>1, <1>a DEF JanitorCalls, CallSet
        <5> QED BY <4>1, <5>2
      <4> QED BY <4>2, <4>3
    <3> QED BY <1>1, <3>1, <3>2, <3>3
  <2>2. buckets' = buckets /\ keyCount' = keyCount /\ JanitorUndoing' = JanitorUndoing
    BY <1>1, <2>1 DEF CleanupBegin, CleanupVisit, JanitorExits, JanitorUndoing
  <2> QED BY <2>2, <1>c
<1>2. CASE CloseBegin \/ CloseEnd \/ StoreTick
  BY <1>2, <1>c, JanitorUnchanged DEF CloseBegin, CloseEnd, StoreTick
<1>3. CASE CleanupEvict
  <2>1. jan.pc = "evict" /\ jan.key \in Keys /\ keyCount' = keyCount
    BY <1>3 DEF CleanupEvict, Known
  <2>2. CASE Expired(jan.entry) /\ buckets[jan.key] # Nil
    <3>1. buckets' = [buckets EXCEPT ![jan.key] = Nil] /\ jan'.pc = "evicted"
      BY <1>3, <2>2, <1>a DEF CleanupEvict, LoadAndDelete, JanitorCalls, CallSet
    <3>2. buckets'[jan.key] = Nil /\ \A j \in Keys \ {jan.key} : buckets'[j] = buckets[j]
      BY <3>1, <2>1, <1>a
    <3>3. Cardinality(Stored') = Cardinality(Stored) + 0 - 1
      BY <3>2, <2>1, <2>2, KeyChanges DEF One
    <3>4. JanitorUndoing = 0 /\ JanitorUndoing' = 1
      BY <2>1, <3>1 DEF JanitorUndoing
    <3> QED BY <1>b, <2>1, <3>3, <3>4, Counted, StoreAssumption
            DEF Balanced, CountAccountsForKeys, KeysBounded
  <2>3. CASE ~(Expired(jan.entry) /\ buckets[jan.key] # Nil)
    <3>1. buckets' = buckets /\ jan'.pc = "visit"
      BY <1>3, <2>3, <1>a DEF CleanupEvict, JanitorCalls, CallSet
    <3>2. JanitorUndoing' = JanitorUndoing
      BY <2>1, <3>1 DEF JanitorUndoing
    <3> QED BY <2>1, <3>1, <3>2, <1>c
  <2> QED BY <2>2, <2>3
<1>4. CASE CleanupCount
  <2>1. jan.pc = "evicted" /\ jan'.pc = "visit" /\ buckets' = buckets /\ keyCount' = keyCount - 1
    BY <1>4, <1>a DEF CleanupCount, JanitorCalls, CallSet
  <2>2. JanitorUndoing = 1 /\ JanitorUndoing' = 0
    BY <2>1 DEF JanitorUndoing
  <2>3. Cardinality(Stored') = Cardinality(Stored)
    BY <2>1, MapUnchanged
  <2> QED BY <1>b, <2>1, <2>2, <2>3, Counted DEF Balanced, CountAccountsForKeys, KeysBounded
<1> QED BY <1>1, <1>2, <1>3, <1>4 DEF Cleanup

-----------------------------------------------------------------------------

\* A new store is balanced.
LEMMA InitBalanced == StoreInit => Balanced
<1> SUFFICES ASSUME StoreInit PROVE Balanced
  OBVIOUS
<1>1. Stored = {} /\ Reserving = {} /\ Undoing = {} /\ JanitorUndoing = 0
  BY DEF StoreInit, Stored, Reserving, Undoing, JanitorUndoing, NoCall
<1>2. Cardinality({}) = 0
  BY FS_EmptySet
<1> QED BY <1>1, <1>2, StoreAssumption DEF StoreInit, Balanced, CountAccountsForKeys, KeysBounded

\* The inductive invariant: every interleaving of AtomicUpdate, Get, Delete, Reset,
\* cleanup and Close keeps the typing and the balance of counter and map.
THEOREM Invariance == StoreSpec => []IInv
<1>1. StoreInit => IInv
  BY InitTyped, InitBalanced DEF IInv, Balanced
<1>2. IInv /\ [StoreNext]_storeVars => IInv'
  <2> SUFFICES ASSUME IInv, [StoreNext]_storeVars PROVE IInv'
    OBVIOUS
  <2>a. Typed /\ Known /\ Balanced
    BY DEF IInv, Balanced
  <2>1. ASSUME NEW c \in Clients,
               (\E kind \in {"update", "get", "delete"}, k \in Keys : Begin(c, kind, k)) \/ ResetBegin(c) \/ Call(c)
        PROVE  IInv'
    <3>1. Typed' /\ Known' /\ Alone(c)
      BY <2>a, <2>1, ClientStep
    <3>2. Balanced'
      BY <2>a, <2>1, <3>1, ClientCounts
    <3> QED BY <3>1, <3>2 DEF IInv, Balanced
  <2>2. CASE CleanupBegin \/ Cleanup \/ JanitorExits \/ CloseBegin \/ CloseEnd \/ StoreTick
    <3>1. Typed' /\ Known'
      BY <2>a, <2>2, JanitorStep
    <3>2. Balanced'
      BY <2>a, <2>2, JanitorCounts
    <3> QED BY <3>1, <3>2 DEF IInv, Balanced
  <2>3. CASE UNCHANGED storeVars
    BY <2>3 DEF storeVars, IInv, Typed, Known, CountAccountsForKeys, KeysBounded, Stored, Reserving,
                Undoing, JanitorUndoing
  <2> QED BY <2>1, <2>2, <2>3 DEF StoreNext
<1> QED BY <1>1, <1>2, PTL DEF StoreSpec

\* keyCount and the map differ by exactly the calls between their two updates,
\* for any number of goroutines, keys and entries (memory.go:172-175, 203-224, 318-322).
THEOREM KeyCountExact == StoreSpec => []CountAccountsForKeys
<1>1. IInv => CountAccountsForKeys
  BY DEF IInv
<1> QED BY <1>1, Invariance, PTL

\* The map, with the keys about to be stored, never outgrows maxKeys
\* (memory.go:203-214).
THEOREM KeysStayBounded == StoreSpec => []KeysBounded
<1>1. IInv => KeysBounded
  BY DEF IInv
<1> QED BY <1>1, Invariance, PTL

\* The types of the store's state; keyCount never goes below zero.
THEOREM TypeCorrect == StoreSpec => []StoreTypeOK
<1>1. IInv => StoreTypeOK
  <2> SUFFICES ASSUME IInv PROVE StoreTypeOK
    OBVIOUS
  <2>1. keyCount \in Nat
    BY Counted DEF IInv, CountAccountsForKeys
  <2> QED BY <2>1 DEF IInv, Typed, StoreTypeOK, Calls, JanitorCalls, EntryRecords
<1> QED BY <1>1, Invariance, PTL

-----------------------------------------------------------------------------
(* Locks.                                                                   *)

HoldingPcs == {"removed", "cleared"}

\* A client's step frees a lock, leaves another's alone, or leaves the client
\* holding the entry it works on.
LocksMoved(c) ==
  \A e \in Entries :
    \/ entry'[e].mu = Free
    \/ entry'[e].mu = entry[e].mu /\ entry[e].mu # c
    \/ entry'[e].mu = c /\ op'[c].entry = e /\ op'[c].pc \in HoldingPcs

\* Then every lock still comes free.
LEMMA ClientLocks ==
  ASSUME LocksComeFree, NEW c \in Clients, Alone(c), jan' = jan, LocksMoved(c)
  PROVE  LocksComeFree'
<1> SUFFICES ASSUME NEW e \in Entries, entry'[e].mu # Free
             PROVE  \/ entry'[e].mu = Janitor /\ jan'.pc = "evicted" /\ jan'.entry = e
                    \/ \E d \in Clients : /\ entry'[e].mu = d /\ op'[d].entry = e
                                          /\ op'[d].pc \in HoldingPcs
  BY DEF LocksComeFree, HoldingPcs
<1>1. CASE entry'[e].mu = entry[e].mu /\ entry[e].mu # c
  BY <1>1 DEF LocksComeFree, Alone, HoldingPcs
<1>2. CASE entry'[e].mu = c /\ op'[c].entry = e /\ op'[c].pc \in HoldingPcs
  BY <1>2
<1> QED BY <1>1, <1>2 DEF LocksMoved

\* A client that holds no lock takes none.
LEMMA NoLockTaken ==
  ASSUME LocksComeFree, NEW c \in Clients, op[c].pc \notin HoldingPcs,
         \A e \in Entries : entry'[e].mu \in {Free, entry[e].mu}
  PROVE  LocksMoved(c)
<1> SUFFICES ASSUME NEW e \in Entries, entry[e].mu = c PROVE FALSE
  BY DEF LocksMoved
<1> QED BY NamesAssumption DEF LocksComeFree, HoldingPcs

\* Every step of a call: Delete and Reset hold a lock between LoadAndDelete and the
\* counter's update, the others only within a step.
LEMMA ClientStepLocks ==
  ASSUME Typed, Known, LocksComeFree, NEW c \in Clients, Alone(c),
         (\E kind \in {"update", "get", "delete"}, k \in Keys : Begin(c, kind, k)) \/ ResetBegin(c) \/ Call(c)
  PROVE  LocksComeFree'
<1> USE DEF At
<1>a. /\ op \in [Clients -> Calls] /\ op[c] \in Calls /\ entry \in [Entries -> EntryRecords]
      /\ op[c].pc \in EntryPcs => op[c].entry \in Entries
  BY DEF Typed, Known, KnownCall
<1>1. CASE UNCHANGED <<entry, jan>> /\ op[c].pc \notin HoldingPcs
  BY <1>1, NoLockTaken, ClientLocks
<1>2. CASE UpdateStore(c)
  <2>1. op[c].pc \notin HoldingPcs /\ jan' = jan
    BY <1>2 DEF UpdateStore, HoldingPcs
  <2>2. \A e \in Entries : entry'[e].mu \in {Free, entry[e].mu}
    <3>1. CASE entry' = entry
      BY <3>1
    <3>2. CASE entry' # entry
      <4>1. PICK x \in Entries :
              entry' = [entry EXCEPT ![x] = [state |-> Nil, lastAccess |-> op[c].now, mu |-> Free]]
        BY <1>2, <3>2 DEF UpdateStore
      <4> QED BY <4>1, <1>a
    <3> QED BY <3>1, <3>2
  <2> QED BY <2>1, <2>2, NoLockTaken, ClientLocks
<1>3. CASE UpdateApply(c)
  <2>1. op[c].pc = "apply" /\ jan' = jan /\ op[c].entry \in Entries
    BY <1>3, <1>a DEF UpdateApply, EntryPcs
  <2>2. \A e \in Entries : entry'[e].mu = entry[e].mu
    <3>1. CASE entry' = entry
      BY <3>1
    <3>2. CASE entry' # entry
      <4>1. PICK s \in States \cup {Nil} :
              entry' = [entry EXCEPT ![op[c].entry].lastAccess = storeClock,
                                     ![op[c].entry].state = IF s = Nil THEN @ ELSE s]
        BY <1>3, <3>2 DEF UpdateApply
      <4> QED BY <4>1, <2>1, <1>a DEF EntryRecords
    <3> QED BY <3>1, <3>2
  <2> QED BY <2>1, <2>2, NoLockTaken, ClientLocks DEF HoldingPcs
<1>4. ASSUME DeleteRemove(c) \/ ResetClear(c), entry' # entry PROVE LocksComeFree'
  <2>1. /\ op[c].entry \in Entries /\ op[c].pc \notin HoldingPcs /\ jan' = jan
        /\ entry' = [entry EXCEPT ![op[c].entry].mu = c]
    BY <1>4, <1>a DEF DeleteRemove, ResetClear, Holding, EntryPcs, HoldingPcs
  <2>2. op'[c].pc \in HoldingPcs /\ op'[c].entry = op[c].entry
    BY <1>4, <1>a DEF DeleteRemove, ResetClear, Goto, HoldingPcs, Calls, CallSet
  <2>3. \A e \in Entries : entry'[e].mu = IF e = op[c].entry THEN c ELSE entry[e].mu
    BY <2>1, <1>a DEF EntryRecords
  <2>4. \A e \in Entries : entry[e].mu # c
    BY <2>1, NamesAssumption DEF LocksComeFree, HoldingPcs
  <2> QED BY <2>1, <2>2, <2>3, <2>4, ClientLocks DEF LocksMoved
<1>5. CASE DeleteCount(c) \/ ResetCount(c)
  <2>1. /\ op[c].entry \in Entries /\ jan' = jan
        /\ entry' = [entry EXCEPT ![op[c].entry].mu = Free]
    BY <1>5, <1>a DEF DeleteCount, ResetCount, Holding, EntryPcs
  <2>2. \A e \in Entries : entry'[e].mu = IF e = op[c].entry THEN Free ELSE entry[e].mu
    BY <2>1, <1>a DEF EntryRecords
  <2>3. \A e \in Entries : entry[e].mu = c => e = op[c].entry
    BY NamesAssumption DEF LocksComeFree
  <2> QED BY <2>1, <2>2, <2>3, ClientLocks DEF LocksMoved
<1>6. CASE (\E kind \in {"update", "get", "delete"}, k \in Keys : Begin(c, kind, k)) \/ ResetBegin(c)
  BY <1>1, <1>6 DEF Begin, ResetBegin, HoldingPcs
<1>7. CASE UpdateLoad(c) \/ UpdateCount(c) \/ UpdateRefused(c) \/ UpdateSurplus(c)
  BY <1>1, <1>7 DEF UpdateLoad, UpdateCount, UpdateRefused, UpdateSurplus, HoldingPcs
<1>8. CASE Get(c) \/ DeleteLoad(c) \/ ResetRange(c) \/ ResetNext(c)
  BY <1>1, <1>8 DEF Get, GetLoad, GetRead, DeleteLoad, ResetRange, ResetNext, HoldingPcs
<1>9. CASE (DeleteRemove(c) \/ ResetClear(c)) /\ entry' = entry
  BY <1>1, <1>9 DEF DeleteRemove, ResetClear, HoldingPcs
<1> QED BY <1>2, <1>3, <1>4, <1>5, <1>6, <1>7, <1>8, <1>9 DEF Call, AtomicUpdate, Delete, StoreReset

\* The janitor holds a lock only between its LoadAndDelete and the counter's update.
LEMMA JanitorLocks ==
  ASSUME Typed, Known, LocksComeFree,
         CleanupBegin \/ Cleanup \/ JanitorExits \/ CloseBegin \/ CloseEnd \/ StoreTick
  PROVE  LocksComeFree'
<1>a. entry \in [Entries -> EntryRecords] /\ jan \in JanitorCalls
  BY DEF Typed
<1>b. ASSUME op' = op, jan.pc # "evicted", entry' = entry PROVE LocksComeFree'
  BY <1>b DEF LocksComeFree
<1>1. CASE CleanupEvict /\ entry' # entry
  <2>1. /\ op' = op /\ jan.pc = "evict" /\ jan.entry \in Entries
        /\ entry' = [entry EXCEPT ![jan.entry].mu = Janitor]
        /\ jan' = [jan EXCEPT !.pc = "evicted"]
    BY <1>1 DEF CleanupEvict, Known, Holding
  <2>2. jan'.pc = "evicted" /\ jan'.entry = jan.entry
    BY <2>1, <1>a DEF JanitorCalls, CallSet
  <2>3. \A e \in Entries : entry'[e].mu = IF e = jan.entry THEN Janitor ELSE entry[e].mu
    BY <2>1, <1>a DEF EntryRecords
  <2> QED BY <2>1, <2>2, <2>3 DEF LocksComeFree
<1>2. CASE CleanupCount
  <2>1. /\ op' = op /\ jan.pc = "evicted" /\ jan.entry \in Entries
        /\ entry' = [entry EXCEPT ![jan.entry].mu = Free]
    BY <1>2 DEF CleanupCount, Known, Holding
  <2>2. \A e \in Entries : entry'[e].mu = IF e = jan.entry THEN Free ELSE entry[e].mu
    BY <2>1, <1>a DEF EntryRecords
  <2> QED BY <2>1, <2>2 DEF LocksComeFree
<1>3. CASE CleanupEvict /\ entry' = entry
  BY <1>3, <1>b DEF CleanupEvict
<1>4. CASE CleanupBegin \/ CleanupVisit \/ JanitorExits
  BY <1>4, <1>b DEF CleanupBegin, CleanupVisit, JanitorExits
<1>5. CASE CloseBegin \/ CloseEnd \/ StoreTick
  BY <1>5 DEF CloseBegin, CloseEnd, StoreTick, LocksComeFree
<1> QED BY <1>1, <1>2, <1>3, <1>4, <1>5 DEF Cleanup

\* No lock of an entry is held across a wait, for any number of goroutines, keys and
\* entries: so neither a caller nor the janitor, which Close waits for, can be part
\* of a circle of waiting (memory.go:169-178, 316-323, 335-336).
THEOREM LocksAlwaysComeFree == StoreSpec => []LocksComeFree
<1>1. StoreInit => LocksComeFree
  BY DEF StoreInit, LocksComeFree
<1>2. IInv /\ LocksComeFree /\ [StoreNext]_storeVars => LocksComeFree'
  <2> SUFFICES ASSUME IInv, LocksComeFree, [StoreNext]_storeVars PROVE LocksComeFree'
    OBVIOUS
  <2>a. Typed /\ Known
    BY DEF IInv
  <2>1. ASSUME NEW c \in Clients,
               (\E kind \in {"update", "get", "delete"}, k \in Keys : Begin(c, kind, k)) \/ ResetBegin(c) \/ Call(c)
        PROVE  LocksComeFree'
    BY <2>a, <2>1, ClientStep, ClientStepLocks
  <2>2. CASE CleanupBegin \/ Cleanup \/ JanitorExits \/ CloseBegin \/ CloseEnd \/ StoreTick
    BY <2>a, <2>2, JanitorLocks
  <2>3. CASE UNCHANGED storeVars
    BY <2>3 DEF storeVars, LocksComeFree
  <2> QED BY <2>1, <2>2, <2>3 DEF StoreNext
<1> QED BY <1>1, <1>2, Invariance, PTL DEF StoreSpec
=============================================================================
