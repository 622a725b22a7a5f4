---------------------------- MODULE Outbox_proofs ----------------------------
(***************************************************************************)
(* For any set of events, any batch size and any number of faults: nothing *)
(* the stream has moved past is lost, events keep their order, and every   *)
(* duplicate has a fault of its own.                                       *)
(***************************************************************************)
EXTENDS Outbox, SequenceTheorems, FiniteSetTheorems, TLAPS

(***************************************************************************)
(* The inductive invariant                                                 *)
(***************************************************************************)
EventAt(k) == stream[k].eventType

\* Records that are done: up to the position, and up to the next of a batch.
Reached == IF batch = NoBatch THEN position ELSE batch.next - 1

\* A batch starts at the position and ends in the stream.
BatchInPlace ==
  batch # NoBatch =>
    /\ batch.last \in position + 1 .. Len(stream)
    /\ batch.next \in position + 1 .. batch.last + 1

SavedOnce == \A k, l \in DOMAIN stream : EventAt(k) = EventAt(l) => k = l

PublishedSaved == \A k \in DOMAIN bus : bus[k].of \in Saved

\* NoneSkipped, with the records that a running batch has done.
ReachedHandled == \A k \in 1 .. Reached : EventAt(k) \in Published \cup failed

Copies(e) == {k \in DOMAIN bus : bus[k].of = e}

\* Up to one publication for each fault, and one more once it is reached.
CopiesBounded ==
  \A k \in DOMAIN stream :
    Cardinality(Copies(EventAt(k))) <= faults + (IF k <= Reached THEN 1 ELSE 0)

OutboxInv ==
  /\ TypeOK
  /\ BatchInPlace
  /\ SavedOnce
  /\ PublishedSaved
  /\ ReachedHandled
  /\ InOrder
  /\ CopiesBounded

(***************************************************************************)
(* Operators                                                               *)
(***************************************************************************)
\* What a published image becomes, and the event it is of.
LEMMA EntryOfImage ==
  ASSUME NEW e
  PROVE  Image(e).eventType = e /\ Entry(Image(e)).of = e
PROOF BY DEF Image, Entry

\* The sequences and sets of a well-typed state.
LEMMA Typed ==
  ASSUME TypeOK
  PROVE  /\ Len(stream) \in Nat /\ DOMAIN stream = 1 .. Len(stream)
         /\ \A k \in DOMAIN stream : EventAt(k) \in Events /\ stream[k] = Image(EventAt(k))
         /\ Len(bus) \in Nat /\ DOMAIN bus = 1 .. Len(bus)
         /\ \A k \in DOMAIN bus : bus[k].of \in Events
         /\ \A e : IsFiniteSet(Copies(e)) /\ Cardinality(Copies(e)) \in Nat
         /\ position \in Nat /\ faults \in Nat
PROOF
<1>1. Len(stream) \in Nat /\ DOMAIN stream = 1 .. Len(stream)
      BY LenProperties DEF TypeOK
<1>2. ASSUME NEW k \in DOMAIN stream
      PROVE  EventAt(k) \in Events /\ stream[k] = Image(EventAt(k))
  <2>1. stream[k] \in {Image(e) : e \in Events}
        BY <1>1, <1>2, ElementOfSeq DEF TypeOK
  <2> QED
      BY <2>1, EntryOfImage DEF EventAt
<1>3. Len(bus) \in Nat /\ DOMAIN bus = 1 .. Len(bus)
      BY LenProperties DEF TypeOK
<1>4. ASSUME NEW k \in DOMAIN bus
      PROVE  bus[k].of \in Events
  <2>1. bus[k] \in {Entry(Image(e)) : e \in Events}
        BY <1>3, <1>4, ElementOfSeq DEF TypeOK
  <2> QED
      BY <2>1, EntryOfImage
<1>5. ASSUME NEW e
      PROVE  IsFiniteSet(Copies(e)) /\ Cardinality(Copies(e)) \in Nat
  <2>1. Copies(e) \in SUBSET (1 .. Len(bus))
        BY <1>3 DEF Copies
  <2>2. IsFiniteSet(1 .. Len(bus))
        BY <1>3, FS_Interval
  <2>3. IsFiniteSet(Copies(e))
        BY <2>1, <2>2, FS_Subset
  <2> QED
      BY <2>3, FS_CardinalityType
<1>6. position \in Nat /\ faults \in Nat
      BY <1>1, OutboxAssumption DEF TypeOK
<1> QED
    BY <1>1, <1>2, <1>3, <1>4, <1>5, <1>6

\* One more record, at the end of the stream.
LEMMA StreamGrows ==
  ASSUME TypeOK, NEW e \in Events, stream' = Append(stream, Image(e))
  PROVE  /\ stream' \in Seq({Image(x) : x \in Events})
         /\ Len(stream') = Len(stream) + 1
         /\ DOMAIN stream' = 1 .. Len(stream) + 1
         /\ \A k \in DOMAIN stream : EventAt(k)' = EventAt(k)
         /\ stream'[Len(stream) + 1].eventType = e
         /\ Saved' = Saved \cup {e}
PROOF
<1> DEFINE Images == {Image(x) : x \in Events}
<1>1. stream \in Seq(Images) /\ Image(e) \in Images
      BY DEF TypeOK
<1>2. Len(stream) \in Nat /\ DOMAIN stream = 1 .. Len(stream)
      BY Typed
<1> HIDE DEF Images
<1>3. /\ stream' \in Seq(Images)
      /\ Len(stream') = Len(stream) + 1
      /\ DOMAIN stream' = 1 .. Len(stream) + 1
      /\ \A k \in 1 .. Len(stream) : stream'[k] = stream[k]
      /\ stream'[Len(stream) + 1] = Image(e)
      BY <1>1, <1>2, AppendProperties, LenProperties
<1>4. /\ \A k \in DOMAIN stream : EventAt(k)' = EventAt(k)
      /\ stream'[Len(stream) + 1].eventType = e
      BY <1>2, <1>3, EntryOfImage DEF EventAt
<1>5. Saved' = Saved \cup {e}
      BY <1>2, <1>3, <1>4 DEF Saved, EventAt
<1> QED
    BY <1>3, <1>4, <1>5 DEF Images

\* One more entry on the bus: one more copy of its event, of no other.
LEMMA BusGrows ==
  ASSUME TypeOK, NEW e \in Events, bus' = Append(bus, Entry(Image(e)))
  PROVE  /\ bus' \in Seq({Entry(Image(x)) : x \in Events})
         /\ DOMAIN bus' = 1 .. Len(bus) + 1
         /\ \A k \in DOMAIN bus : bus'[k] = bus[k]
         /\ bus'[Len(bus) + 1].of = e
         /\ Published' = Published \cup {e}
         /\ Cardinality(Copies(e)') = Cardinality(Copies(e)) + 1
         /\ \A x : x # e => Copies(x)' = Copies(x)
PROOF
<1> DEFINE Entries == {Entry(Image(x)) : x \in Events}
<1>1. bus \in Seq(Entries) /\ Entry(Image(e)) \in Entries
      BY DEF TypeOK
<1>2. Len(bus) \in Nat /\ DOMAIN bus = 1 .. Len(bus) /\ IsFiniteSet(Copies(e))
      BY Typed
<1> HIDE DEF Entries
<1>3. /\ bus' \in Seq(Entries)
      /\ DOMAIN bus' = 1 .. Len(bus) + 1
      /\ \A k \in 1 .. Len(bus) : bus'[k] = bus[k]
      /\ bus'[Len(bus) + 1].of = e
      BY <1>1, <1>2, AppendProperties, LenProperties, EntryOfImage
<1>4. Published' = Published \cup {e}
      BY <1>2, <1>3 DEF Published
<1>5. Copies(e)' = Copies(e) \cup {Len(bus) + 1} /\ Len(bus) + 1 \notin Copies(e)
      BY <1>2, <1>3 DEF Copies
<1>6. Cardinality(Copies(e)') = Cardinality(Copies(e)) + 1
      BY <1>2, <1>5, FS_AddElement
<1>7. \A x : x # e => Copies(x)' = Copies(x)
      BY <1>2, <1>3 DEF Copies
<1> QED
    BY <1>2, <1>3, <1>4, <1>6, <1>7 DEF Entries

(***************************************************************************)
(* The steps                                                               *)
(***************************************************************************)
LEMMA InitOutbox == Init => OutboxInv
PROOF
<1> SUFFICES ASSUME Init PROVE OutboxInv
    OBVIOUS
<1>1. stream = <<>> /\ bus = <<>> /\ batch = NoBatch /\ position = 0 /\ failed = {} /\ faults = 0
      BY DEF Init
<1>2. TypeOK
      BY <1>1, OutboxAssumption, EmptySeq DEF TypeOK
<1>3. DOMAIN stream = {} /\ DOMAIN bus = {}
      BY <1>1, <1>2, Typed, EmptySeq
<1> QED
    BY <1>1, <1>2, <1>3
    DEF OutboxInv, BatchInPlace, SavedOnce, PublishedSaved, ReachedHandled, Reached, InOrder, CopiesBounded

\* A batch that runs is a record in the stream, and Reached a number.
LEMMA Running ==
  ASSUME OutboxInv
  PROVE  /\ Reached \in 0 .. Len(stream)
         /\ batch = NoBatch => Reached = position
         /\ batch # NoBatch =>
              /\ batch \in [next : Nat, last : Nat]
              /\ Reached = batch.next - 1
PROOF
<1>1. Len(stream) \in Nat /\ position \in 0 .. Len(stream)
      BY Typed DEF OutboxInv, TypeOK
<1>2. ASSUME batch # NoBatch PROVE batch \in [next : Nat, last : Nat]
      BY <1>1, <1>2 DEF OutboxInv, TypeOK
<1>3. CASE batch = NoBatch
      BY <1>1, <1>3 DEF Reached
<1>4. CASE batch # NoBatch
      BY <1>1, <1>2, <1>4 DEF Reached, OutboxInv, BatchInPlace
<1> QED
    BY <1>3, <1>4, <1>2

\* The record a running batch is at is in the stream, and not yet reached.
LEMMA AtRecord ==
  ASSUME OutboxInv, Publishing
  PROVE  /\ batch.next \in DOMAIN stream
         /\ batch.next = Reached + 1
         /\ EventAt(batch.next) \in Events
         /\ Current = Image(EventAt(batch.next))
PROOF
<1>1. Len(stream) \in Nat /\ DOMAIN stream = 1 .. Len(stream) /\ position \in Nat
      BY Typed DEF OutboxInv
<1>2. batch \in [next : Nat, last : Nat] /\ batch.next <= batch.last
      BY Running DEF Publishing
<1>3. batch.next \in DOMAIN stream
      BY <1>1, <1>2 DEF OutboxInv, BatchInPlace, Publishing
<1>4. batch.next = Reached + 1
      BY <1>2 DEF Reached, Publishing
<1>5. EventAt(batch.next) \in Events /\ stream[batch.next] = Image(EventAt(batch.next))
      BY <1>3, Typed DEF OutboxInv
<1> QED
    BY <1>3, <1>4, <1>5 DEF Current

\* Steps of the mapping and the handler that publish nothing: what they reach
\* has failed, and they fall back only by a fault.
LEMMA WithoutPublication ==
  ASSUME OutboxInv, UNCHANGED <<stream, bus>>,
         failed \subseteq failed', failed' \subseteq Events,
         faults' \in faults .. MaxFaults,
         position' \in 0 .. Len(stream),
         batch' \in {NoBatch} \cup [next : 1 .. Len(stream) + 1, last : 1 .. Len(stream)],
         BatchInPlace',
         Reached' \in 0 .. Len(stream),
         \A k \in Reached + 1 .. Reached' : EventAt(k) \in failed',
         Reached' < Reached => faults' = faults + 1
  PROVE  OutboxInv'
PROOF
<1>1. /\ Len(stream) \in Nat /\ DOMAIN stream = 1 .. Len(stream) /\ faults \in Nat
      /\ faults' \in Nat /\ \A e : Cardinality(Copies(e)) \in Nat
      BY Typed, OutboxAssumption DEF OutboxInv
<1>2. Reached \in 0 .. Len(stream)
      BY Running
<1>3. TypeOK'
      BY <1>1, OutboxAssumption DEF OutboxInv, TypeOK
<1>4. SavedOnce' /\ PublishedSaved' /\ Published' = Published
      BY DEF OutboxInv, SavedOnce, PublishedSaved, EventAt, Saved, Published
<1>5. ReachedHandled'
  <2> SUFFICES ASSUME NEW k \in 1 .. Reached'
               PROVE  EventAt(k) \in Published \cup failed'
      BY <1>4 DEF ReachedHandled, EventAt
  <2>1. CASE k \in 1 .. Reached
        BY <2>1 DEF OutboxInv, ReachedHandled
  <2>2. CASE k \notin 1 .. Reached
        BY <1>1, <1>2, <2>2
  <2> QED
      BY <2>1, <2>2
<1>6. InOrder'
      BY DEF OutboxInv, InOrder
<1>7. CopiesBounded'
  <2> SUFFICES ASSUME NEW k \in DOMAIN stream
               PROVE  Cardinality(Copies(EventAt(k)))
                        <= faults' + (IF k <= Reached' THEN 1 ELSE 0)
      BY DEF CopiesBounded, Copies, EventAt
  <2> PICK n : n = Cardinality(Copies(EventAt(k)))
      OBVIOUS
  <2>1. n \in Nat /\ n <= faults + (IF k <= Reached THEN 1 ELSE 0)
        BY <1>1 DEF OutboxInv, CopiesBounded
  <2>2. CASE k <= Reached /\ ~ (k <= Reached')
        BY <1>1, <1>2, <2>1, <2>2
  <2>3. CASE k <= Reached => k <= Reached'
        BY <1>1, <1>2, <2>1, <2>3
  <2> QED
      BY <2>2, <2>3
<1> QED
    BY <1>3, <1>4, <1>5, <1>6, <1>7 DEF OutboxInv

\* A saved event has no copy yet, and its record is past everything reached.
LEMMA SaveStep ==
  ASSUME OutboxInv, NEW e \in Events, Save(e)
  PROVE  OutboxInv'
PROOF
<1> PICK new : new = Len(stream) + 1
    OBVIOUS
<1>1. UNCHANGED <<position, batch, bus, failed, faults>> /\ e \notin Saved
      BY DEF Save
<1>2. /\ stream' \in Seq({Image(x) : x \in Events})
      /\ Len(stream') = new
      /\ DOMAIN stream' = 1 .. new
      /\ \A k \in DOMAIN stream : EventAt(k)' = EventAt(k)
      /\ EventAt(new)' = e
      /\ Saved' = Saved \cup {e}
      BY StreamGrows DEF OutboxInv, Save, EventAt
<1>3. /\ Len(stream) \in Nat /\ DOMAIN stream = 1 .. Len(stream)
      /\ position \in 0 .. Len(stream) /\ faults \in Nat
      /\ \A k \in DOMAIN stream : EventAt(k) \in Saved
      BY Typed DEF OutboxInv, TypeOK, Saved, EventAt
<1>4. Reached' = Reached /\ Reached \in 0 .. Len(stream)
      BY <1>1, Running DEF Reached
<1>5. Copies(e) = {} /\ \A x : Copies(x)' = Copies(x)
      BY <1>1 DEF Copies, OutboxInv, PublishedSaved
<1>6. new \in Nat /\ new = Len(stream) + 1
      BY <1>3
<1>7. TypeOK'
      BY <1>1, <1>2, <1>3, <1>6 DEF OutboxInv, TypeOK
<1>8. BatchInPlace'
  <2>1. ASSUME batch # NoBatch PROVE batch \in [next : Nat, last : Nat]
        BY <2>1, Running
  <2> QED
      BY <1>1, <1>2, <1>3, <1>6, <2>1 DEF OutboxInv, BatchInPlace
<1>9. SavedOnce'
      BY <1>1, <1>2, <1>3, <1>6 DEF OutboxInv, SavedOnce
<1>10. PublishedSaved'
      BY <1>1, <1>2 DEF OutboxInv, PublishedSaved
<1>11. ReachedHandled'
      BY <1>1, <1>2, <1>3, <1>4 DEF OutboxInv, ReachedHandled, Published
<1>12. InOrder'
  <2> SUFFICES ASSUME NEW k \in DOMAIN bus, NEW earlier \in 1 .. new
               PROVE  \/ bus[k].of \in {EventAt(l)' : l \in 1 .. earlier}
                      \/ EventAt(earlier)' \in failed
                      \/ \E j \in 1 .. k - 1 : bus[j].of = EventAt(earlier)'
      BY <1>1, <1>2 DEF InOrder, EventAt
  <2>1. CASE earlier = new
    <3>1. PICK l \in DOMAIN stream : bus[k].of = EventAt(l)
          BY DEF OutboxInv, PublishedSaved, Saved, EventAt
    <3> QED
        BY <1>2, <1>3, <1>6, <2>1, <3>1
  <2>2. CASE earlier \in DOMAIN stream
    <3>1. \A l \in 1 .. earlier : EventAt(l)' = EventAt(l)
          BY <1>2, <1>3, <2>2
    <3> QED
        BY <2>2, <3>1 DEF OutboxInv, InOrder, EventAt
  <2> QED
      BY <1>3, <1>6, <2>1, <2>2
<1>13. CopiesBounded'
  <2> SUFFICES ASSUME NEW k \in 1 .. new
               PROVE  Cardinality(Copies(stream'[k].eventType)) <= faults + (IF k <= Reached THEN 1 ELSE 0)
      BY <1>1, <1>2, <1>4, <1>5 DEF CopiesBounded, Copies, EventAt
  <2>1. CASE k = new
    <3>1. Cardinality(Copies(stream'[k].eventType)) = 0
          BY <1>2, <1>5, <2>1, FS_EmptySet DEF EventAt
    <3> QED
        BY <1>3, <3>1
  <2>2. CASE k \in DOMAIN stream
        BY <1>2, <2>2 DEF OutboxInv, CopiesBounded, EventAt
  <2> QED
      BY <1>3, <1>6, <2>1, <2>2
<1> QED
    BY <1>7, <1>8, <1>9, <1>10, <1>11, <1>12, <1>13 DEF OutboxInv

\* One more publication, of the record the batch is at, which it then passes
\* or, after a fault, is at still.
LEMMA Publication ==
  ASSUME OutboxInv, Publishing,
         bus' = Append(bus, Entry(Current)), UNCHANGED <<stream, position, failed>>,
         \/ faults' = faults /\ Reached' = Reached + 1
         \/ faults' = faults + 1 /\ Reached' = Reached,
         faults' \in 0 .. MaxFaults,
         batch' \in {NoBatch} \cup [next : 1 .. Len(stream) + 1, last : 1 .. Len(stream)],
         BatchInPlace'
  PROVE  OutboxInv'
PROOF
<1> PICK e \in Events : e = EventAt(batch.next)
    BY AtRecord
<1>1. /\ batch.next \in DOMAIN stream /\ batch.next = Reached + 1
      /\ bus' = Append(bus, Entry(Image(e)))
      BY AtRecord
<1>2. /\ Len(stream) \in Nat /\ DOMAIN stream = 1 .. Len(stream)
      /\ Len(bus) \in Nat /\ DOMAIN bus = 1 .. Len(bus) /\ faults \in Nat
      /\ \A x : Cardinality(Copies(x)) \in Nat
      BY Typed DEF OutboxInv
<1>3. /\ bus' \in Seq({Entry(Image(x)) : x \in Events})
      /\ DOMAIN bus' = 1 .. Len(bus) + 1
      /\ \A k \in DOMAIN bus : bus'[k] = bus[k]
      /\ bus'[Len(bus) + 1].of = e
      /\ Published' = Published \cup {e}
      /\ Cardinality(Copies(e)') = Cardinality(Copies(e)) + 1
      /\ \A x : x # e => Copies(x)' = Copies(x)
      BY <1>1, BusGrows DEF OutboxInv
<1>4. Reached \in 0 .. Len(stream)
      BY Running
<1>5. TypeOK'
      BY <1>2, <1>3 DEF OutboxInv, TypeOK
<1>6. SavedOnce'
      BY DEF OutboxInv, SavedOnce, EventAt
<1>7. PublishedSaved'
  <2>1. e \in Saved /\ Saved' = Saved
        BY <1>1 DEF Saved, EventAt
  <2> QED
      BY <1>2, <1>3, <2>1 DEF OutboxInv, PublishedSaved
<1>8. ReachedHandled'
  <2> SUFFICES ASSUME NEW k \in 1 .. Reached'
               PROVE  EventAt(k) \in Published \cup {e} \cup failed
      BY <1>3 DEF ReachedHandled, EventAt
  <2>1. CASE k = batch.next
        BY <2>1
  <2>2. CASE k \in 1 .. Reached
        BY <2>2 DEF OutboxInv, ReachedHandled
  <2> QED
      BY <1>1, <1>4, <2>1, <2>2
<1>9. InOrder'
  <2> SUFFICES ASSUME NEW k \in 1 .. Len(bus) + 1, NEW earlier \in DOMAIN stream
               PROVE  \/ bus'[k].of \in {stream[l].eventType : l \in 1 .. earlier}
                      \/ stream[earlier].eventType \in failed
                      \/ \E j \in 1 .. k - 1 : bus'[j].of = stream[earlier].eventType
      BY <1>3 DEF InOrder
  <2> USE DEF EventAt
  <2>1. CASE k \in DOMAIN bus
    <3>1. \A j \in 1 .. k - 1 : j \in DOMAIN bus /\ bus'[j] = bus[j]
          BY <1>2, <1>3, <2>1
    <3> QED
        BY <1>3, <2>1, <3>1 DEF OutboxInv, InOrder, EventAt
  <2>2. CASE k = Len(bus) + 1
    <3>1. CASE earlier <= Reached
      <4>1. EventAt(earlier) \in Published \cup failed
            BY <1>2, <1>4, <3>1 DEF OutboxInv, ReachedHandled
      <4>2. ASSUME EventAt(earlier) \in Published
            PROVE  \E j \in 1 .. k - 1 : bus'[j].of = EventAt(earlier)
        <5>1. PICK j \in DOMAIN bus : bus[j].of = EventAt(earlier)
              BY <4>2 DEF Published
        <5> QED
            BY <1>2, <1>3, <2>2, <5>1
      <4> QED
          BY <4>1, <4>2
    <3>2. CASE ~ (earlier <= Reached)
      <4>1. batch.next \in 1 .. earlier
            BY <1>1, <1>2, <1>4, <3>2
      <4> QED
          BY <1>3, <2>2, <4>1
    <3> QED
        BY <3>1, <3>2
  <2> QED
      BY <1>2, <2>1, <2>2
<1>10. CopiesBounded'
  <2> SUFFICES ASSUME NEW k \in DOMAIN stream, NEW x, x = EventAt(k)
               PROVE  Cardinality(Copies(x)')
                        <= faults' + (IF k <= Reached' THEN 1 ELSE 0)
      BY DEF CopiesBounded, EventAt, Copies
  <2>1. Cardinality(Copies(x)) <= faults + (IF k <= Reached THEN 1 ELSE 0)
        BY DEF OutboxInv, CopiesBounded
  <2>2. CASE k = batch.next
    <3>1. x = e
          BY <2>2
    <3> QED
        BY <1>1, <1>2, <1>3, <1>4, <2>1, <2>2, <3>1
  <2>3. CASE k # batch.next
    <3>1. x # e
          BY <1>1, <2>3 DEF OutboxInv, SavedOnce
    <3> QED
        BY <1>1, <1>2, <1>3, <1>4, <2>1, <2>3, <3>1
  <2> QED
      BY <2>2, <2>3
<1> QED
    BY <1>5, <1>6, <1>7, <1>8, <1>9, <1>10 DEF OutboxInv

LEMMA NextOutbox == OutboxInv /\ [Next]_vars => OutboxInv'
PROOF
<1> SUFFICES ASSUME OutboxInv, [Next]_vars PROVE OutboxInv'
    OBVIOUS
<1>1. /\ Len(stream) \in Nat /\ DOMAIN stream = 1 .. Len(stream)
      /\ position \in 0 .. Len(stream) /\ faults \in 0 .. MaxFaults /\ MaxFaults \in Nat
      /\ failed \subseteq Events
      /\ batch \in {NoBatch} \cup [next : 1 .. Len(stream) + 1, last : 1 .. Len(stream)]
      /\ \A k \in DOMAIN stream : EventAt(k) \in Events
      BY Typed, OutboxAssumption DEF OutboxInv, TypeOK
<1>2. Reached \in 0 .. Len(stream)
      BY Running
<1>3. batch # NoBatch =>
        /\ batch \in [next : Nat, last : Nat]
        /\ batch.last \in position + 1 .. Len(stream)
        /\ batch.next \in position + 1 .. batch.last + 1
        /\ Reached = batch.next - 1
      BY Running DEF OutboxInv, BatchInPlace
<1>4. \A b \in [next : Nat, last : Nat] : b # NoBatch
      BY OutboxAssumption
<1>5. ASSUME NEW e \in Events, Save(e) PROVE OutboxInv'
      BY <1>5, SaveStep
<1>6. CASE Invoke
  <2>1. PICK last \in DOMAIN stream : Offered(last) /\ batch' = [next |-> position + 1, last |-> last]
        BY <1>6 DEF Invoke
  <2>2. batch = NoBatch /\ UNCHANGED <<stream, position, bus, failed, faults>>
        BY <1>6 DEF Invoke
  <2>3. last \in position + 1 .. Len(stream)
        BY <2>1 DEF Offered
  <2>4. batch'.next = position + 1 /\ batch'.last = last /\ batch' \in [next : Nat, last : Nat]
        BY <1>1, <2>1, <2>3
  <2>5. BatchInPlace'
        BY <1>1, <2>2, <2>3, <2>4 DEF BatchInPlace
  <2>6. Reached' = Reached
        BY <1>1, <1>4, <2>2, <2>4 DEF Reached
  <2>7. batch' \in [next : 1 .. Len(stream) + 1, last : 1 .. Len(stream)]
        BY <1>1, <2>1, <2>3
  <2> QED
      BY <1>1, <1>2, <2>2, <2>5, <2>6, <2>7, WithoutPublication
<1>7. CASE SetUpFails
  <2>1. PICK last \in DOMAIN stream :
          /\ Offered(last)
          /\ failed' = failed \cup {EventAt(k) : k \in position + 1 .. last}
          /\ position' = last
        BY <1>7 DEF SetUpFails, EventAt
  <2>2. batch = NoBatch /\ UNCHANGED <<stream, batch, bus, faults>>
        BY <1>7 DEF SetUpFails
  <2>3. last \in position + 1 .. Len(stream)
        BY <2>1 DEF Offered
  <2>4. Reached = position /\ Reached' = last /\ BatchInPlace'
        BY <2>1, <2>2 DEF Reached, BatchInPlace
  <2>5. failed' \subseteq Events /\ \A k \in Reached + 1 .. Reached' : EventAt(k) \in failed'
        BY <1>1, <2>1, <2>3, <2>4
  <2> QED
      BY <1>1, <2>1, <2>2, <2>3, <2>4, <2>5, WithoutPublication
<1>8. ASSUME Publishing, NextRecord, UNCHANGED <<stream, position>>
      PROVE  /\ batch' \in [next : 1 .. Len(stream) + 1, last : 1 .. Len(stream)]
             /\ BatchInPlace'
             /\ Reached' = Reached + 1 /\ Reached' \in 0 .. Len(stream)
             /\ Reached' = batch.next
  <2>1. /\ batch'.next = batch.next + 1 /\ batch'.last = batch.last
        /\ batch' \in [next : Nat, last : Nat]
        /\ batch.next <= batch.last /\ batch # NoBatch
        BY <1>3, <1>8 DEF Publishing, NextRecord
  <2>2. batch' # NoBatch
        BY <1>4, <2>1
  <2>3. Reached' = batch.next
        BY <1>3, <2>1, <2>2 DEF Reached
  <2> QED
      BY <1>1, <1>3, <1>8, <2>1, <2>2, <2>3 DEF BatchInPlace
<1>9. CASE Publish
  <2>1. Publishing /\ NextRecord /\ UNCHANGED <<stream, position, failed, faults>>
        BY <1>9 DEF Publish
  <2> QED
      BY <1>1, <1>8, <1>9, <2>1, Publication DEF Publish
<1>10. CASE PublishUnanswered
  <2>1. /\ Publishing /\ UNCHANGED <<stream, position, batch, failed>>
        /\ faults' = faults + 1 /\ faults' \in 0 .. MaxFaults
        BY <1>1, <1>10 DEF PublishUnanswered
  <2>2. Reached' = Reached /\ BatchInPlace'
        BY <2>1 DEF Reached, BatchInPlace, OutboxInv
  <2> QED
      BY <1>1, <1>10, <2>1, <2>2, Publication DEF PublishUnanswered
<1>11. CASE PublishFails
  <2>1. /\ Publishing /\ NextRecord /\ UNCHANGED <<stream, position, bus, faults>>
        /\ failed' = failed \cup {EventAt(batch.next)}
        BY <1>11, AtRecord, EntryOfImage DEF PublishFails
  <2>2. batch.next = Reached + 1 /\ EventAt(batch.next) \in Events
        BY <2>1, AtRecord
  <2>3. \A k \in Reached + 1 .. Reached' : EventAt(k) \in failed'
        BY <1>2, <1>8, <2>1, <2>2
  <2> QED
      BY <1>1, <1>2, <1>8, <2>1, <2>2, <2>3, WithoutPublication
<1>12. CASE Return
  <2>1. /\ batch # NoBatch /\ batch.next > batch.last
        /\ position' = batch.last /\ batch' = NoBatch /\ UNCHANGED <<stream, bus, failed, faults>>
        BY <1>12 DEF Return
  <2>2. Reached' = batch.last /\ Reached = batch.last
        BY <1>1, <1>3, <2>1 DEF Reached
  <2>3. BatchInPlace' /\ position' \in 0 .. Len(stream)
        BY <1>1, <1>3, <2>1 DEF BatchInPlace
  <2> QED
      BY <1>1, <1>2, <2>1, <2>2, <2>3, WithoutPublication
<1>13. CASE Die
  <2>1. /\ faults' = faults + 1 /\ faults' \in faults .. MaxFaults
        /\ batch' = NoBatch /\ UNCHANGED <<stream, position, bus, failed>>
        BY <1>1, <1>13 DEF Die
  <2>2. Reached' = position /\ BatchInPlace'
        BY <2>1 DEF Reached, BatchInPlace
  <2>3. position <= Reached
        BY <1>1, <1>3, Running
  <2> QED
      BY <1>1, <1>2, <2>1, <2>2, <2>3, WithoutPublication
<1>14. CASE UNCHANGED vars
  <2>1. UNCHANGED <<stream, position, batch, bus, failed, faults>>
        BY <1>14 DEF vars
  <2>2. Reached' = Reached /\ BatchInPlace'
        BY <2>1 DEF Reached, BatchInPlace, OutboxInv
  <2> QED
      BY <1>1, <1>2, <2>1, <2>2, WithoutPublication
<1> QED
    BY <1>5, <1>6, <1>7, <1>9, <1>10, <1>11, <1>12, <1>13, <1>14 DEF Next, Handle

(***************************************************************************)
(* Theorems                                                                *)
(***************************************************************************)
\* The invariant of every reachable state.
LEMMA Invariant == Spec => []OutboxInv
PROOF BY InitOutbox, NextOutbox, PTL DEF Spec

(* The stream, the batch and the bus keep their shapes: the position and   *)
(* the batch stay inside the stream (outboxStreamHandler and its mapping). *)
THEOREM TypeCorrect == Spec => []TypeOK
PROOF
<1>1. OutboxInv => TypeOK
      BY DEF OutboxInv
<1> QED
    BY Invariant, <1>1, PTL

(* Whatever batches are cut short or repeated, no record behind the        *)
(* position was left out: processStreamRecords published it, or counted it *)
(* as failed.                                                              *)
THEOREM NothingSkipped == Spec => []NoneSkipped
PROOF
<1>1. OutboxInv => NoneSkipped
  <2> SUFFICES ASSUME OutboxInv, NEW k \in 1 .. position
               PROVE  EventAt(k) \in Published \cup failed
      BY DEF NoneSkipped, EventAt
  <2>1. position \in Nat /\ Reached \in Nat /\ position <= Reached
    <3>1. position \in 0 .. Len(stream) /\ Len(stream) \in Nat
          BY Typed DEF OutboxInv, TypeOK
    <3> QED
        BY <3>1, Running DEF OutboxInv, BatchInPlace
  <2> QED
      BY <2>1 DEF OutboxInv, ReachedHandled
<1> QED
    BY Invariant, <1>1, PTL

(* First publications are in the order of OutboxRepository.save, but for   *)
(* the events whose publication failed.                                    *)
THEOREM OrderKept == Spec => []InOrder
PROOF
<1>1. OutboxInv => InOrder
      BY DEF OutboxInv
<1> QED
    BY Invariant, <1>1, PTL

(* Every publication of an event after its first is paid for by a fault: a *)
(* dead invocation, or an answer of putEvents that was lost.               *)
THEOREM DuplicatesPaidFor == Spec => []DuplicatesNeedFaults
PROOF
<1>1. OutboxInv => DuplicatesNeedFaults
  <2> SUFFICES ASSUME OutboxInv, NEW e \in Events
               PROVE  Cardinality(Copies(e)) <= 1 + faults
      BY DEF DuplicatesNeedFaults, Copies
  <2>1. faults \in Nat /\ Cardinality(Copies(e)) \in Nat
        BY Typed DEF OutboxInv
  <2>2. CASE e \in Saved
    <3>1. PICK k \in DOMAIN stream : EventAt(k) = e
          BY <2>2 DEF Saved, EventAt
    <3>2. Cardinality(Copies(e)) <= faults + (IF k <= Reached THEN 1 ELSE 0)
          BY <3>1 DEF OutboxInv, CopiesBounded
    <3> QED
        BY <2>1, <3>2
  <2>3. CASE e \notin Saved
    <3>1. Copies(e) = {}
          BY <2>3 DEF Copies, OutboxInv, PublishedSaved
    <3> QED
        BY <2>1, <3>1, FS_EmptySet
  <2> QED
      BY <2>2, <2>3
<1> QED
    BY Invariant, <1>1, PTL

=============================================================================
