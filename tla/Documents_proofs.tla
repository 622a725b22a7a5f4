--------------------------- MODULE Documents_proofs ---------------------------
(***************************************************************************)
(* For any number of requests that create, change, lock, unlock and delete *)
(* a document, any lag of the index and any number of lost answers: no     *)
(* change brings a deleted document back; and for any number of requests   *)
(* that wait for each other and for the index: a document that was sent is *)
(* settled, and only its owner's request removes a lock.                   *)
(***************************************************************************)
EXTENDS Documents, SequenceTheorems, FiniteSetTheorems, TLAPS

(***************************************************************************)
(* The inductive invariant                                                 *)
(***************************************************************************)
Version == Item \cup {NoItem}

RequestRow ==
  [op : Operations \cup {"none"}, step : Running \cup {"idle", "ended"},
   name : Requests \cup {Undefined}, user : Users \cup {Undefined},
   lock : Requests \cup {Undefined}, seen : Version, copy : Version]

Typed ==
  /\ versions \in Seq(Version)
  /\ indexed \in 1 .. Len(versions)
  /\ sentAt \in 0 .. Len(versions)
  /\ expired \subseteq Requests
  /\ req \in [Requests -> RequestRow]
  /\ calm \in BOOLEAN
  /\ faults \in 0 .. MaxFaults

In(r, steps) == req[r].step \in steps
Does(r, ops) == req[r].op \in ops

\* A request's steps are those of its operation, and hold what was read.
Fits(r) ==
  /\ In(r, {"insert"}) => Does(r, {"create", "upload"})
  /\ In(r, {"envelope"}) => Does(r, {"patch", "put"})
  /\ In(r, {"reread"}) => Does(r, {"patch", "put", "lock", "unlock", "delete"})
  /\ In(r, {"write"}) => Does(r, {"patch", "put", "lock", "unlock"})
  /\ In(r, {"delete"}) => Does(r, {"delete"})
  /\ In(r, {"idle"}) <=> Does(r, {"none"})
  /\ In(r, {"envelope", "reread", "write"}) /\ ~Does(r, {"delete"}) => Readable(req[r].seen)
  /\ In(r, {"write"}) => Readable(req[r].copy)

\* Who removes a lock that it saw is the lock's owner.
Owns(r) ==
  Does(r, {"unlock"}) /\ In(r, {"reread", "write"}) =>
    /\ req[r].lock \in Requests /\ req[req[r].lock].op = "lock"
    /\ req[r].lock \in req[r].seen.locks => req[req[r].lock].user = req[r].user

\* One request creates the document; it puts it twice only when an answer was lost.
Creates(r) == Does(r, {"create", "upload"})

OneCreator ==
  /\ versions[1] = NoItem
  /\ \A q, r \in Requests : Creates(q) /\ Creates(r) => q = r
  /\ (\A r \in Requests : ~Creates(r)) => versions = <<NoItem>>
  /\ \A r \in Requests :
       In(r, {"insert"}) /\ Len(versions) > 1 => faults > 0 /\ versions[2] = Created(r)

\* Requests that wait for each other and for the index read the item itself, and
\* what they write is what they read but for their own change.
Current(r) ==
  /\ In(r, {"envelope", "reread"}) =>
       /\ indexed = Len(versions)
       /\ ~Does(r, {"delete"}) => req[r].seen = item
  /\ In(r, {"write"}) /\ item # NoItem =>
       /\ item.locks \subseteq req[r].seen.locks \cup IF Does(r, {"lock"}) THEN {r} ELSE {}
       /\ ~Does(r, {"patch"}) => req[r].copy.name = item.name
       /\ ~Does(r, {"put"}) => req[r].copy.file = item.file

InTurn ==
  calm => /\ \A q, r \in Requests : UnderWay(q) /\ UnderWay(r) => q = r
          /\ \A r \in Requests : Current(r)

\* The contents that an envelope's document has had since it was sent, and the
\* one that the request under way then may give it, are two.
Content(version) == <<version.name, version.file>>

Outcome(r) ==
  CASE req[r].op = "patch" -> <<req[r].name, item.file>>
    [] req[r].op = "put" -> <<item.name, r>>

HadOnly(a, b) ==
  \A k \in sentAt .. Len(versions) : k > 0 /\ versions[k] # NoItem => Content(versions[k]) \in {a, b}

MayGive(r, a, b) ==
  /\ Does(r, {"patch", "put"}) /\ In(r, {"reread", "write"}) /\ item # NoItem
       => Outcome(r) \in {a, b}
  /\ In(r, {"insert"}) => Content(Created(r)) \in {a, b}

TwoContents(a, b) == HadOnly(a, b) /\ \A r \in Requests : MayGive(r, a, b)

Settles == calm /\ sentAt > 0 => \E a, b : TwoContents(a, b)

DocumentsInv ==
  /\ Typed
  /\ \A r \in Requests : Fits(r) /\ Owns(r)
  /\ OneCreator
  /\ InTurn
  /\ Settles
  /\ DeletedStaysDeleted

LEMMA InitDocuments == Init => DocumentsInv
PROOF
<1> SUFFICES ASSUME Init PROVE DocumentsInv
    OBVIOUS
<1> DEFINE idle == [op |-> "none", step |-> "idle", name |-> Undefined, user |-> Undefined,
                    lock |-> Undefined, seen |-> NoItem, copy |-> NoItem]
<1>1. /\ versions = <<NoItem>> /\ indexed = 1 /\ sentAt = 0 /\ expired = {} /\ faults = 0
      /\ calm \in BOOLEAN /\ req = [r \in Requests |-> idle]
      BY DEF Init, Idle
<1>2. versions \in Seq(Version) /\ Len(versions) = 1
      BY <1>1 DEF Version
<1>3. idle \in RequestRow
      BY DEF RequestRow, Version
<1>4. Typed
      BY <1>1, <1>2, <1>3, DocumentsAssumption DEF Typed
<1>5. \A r \in Requests : req[r] = idle
      BY <1>1
<1>6. \A r \in Requests : Fits(r) /\ Owns(r) /\ ~Creates(r) /\ ~UnderWay(r) /\ Current(r)
      BY <1>5 DEF Fits, Owns, In, Does, Creates, UnderWay, Running, Current
<1>7. OneCreator
      BY <1>1, <1>2, <1>6 DEF OneCreator
<1>8. InTurn /\ Settles /\ DeletedStaysDeleted
      BY <1>1, <1>2, <1>6 DEF InTurn, Settles, DeletedStaysDeleted
<1> QED
    BY <1>4, <1>6, <1>7, <1>8 DEF DocumentsInv

(***************************************************************************)
(* What the table holds                                                    *)
(***************************************************************************)
\* Appending a version.
LEMMA Appended ==
  ASSUME versions \in Seq(Version), NEW version \in Version, versions' = Append(versions, version)
  PROVE  /\ versions' \in Seq(Version) /\ Len(versions) \in Nat
         /\ Len(versions') = Len(versions) + 1
         /\ \A k \in 1 .. Len(versions) : versions'[k] = versions[k]
         /\ item' = version
PROOF
BY DEF item

\* The item is a version, and what is written is an item.
LEMMA ItemTypes ==
  ASSUME Typed
  PROVE  /\ Len(versions) \in Nat \ {0} /\ item \in Version /\ image \in Version
         /\ \A r \in Requests :
              /\ In(r, {"insert"}) => Created(r) \in Item
              /\ Fits(r) /\ In(r, {"write"}) => Changed(r) \in Item
PROOF
<1>1. /\ versions \in Seq(Version) /\ indexed \in 1 .. Len(versions) /\ req \in [Requests -> RequestRow]
      BY DEF Typed
<1>2. /\ Len(versions) \in Nat \ {0} /\ item \in Version /\ image \in Version
      BY <1>1 DEF item, image
<1>3. ASSUME NEW r \in Requests
      PROVE  Created(r) \in Item
      BY DEF Created, Item
<1>4. ASSUME NEW r \in Requests, Fits(r), In(r, {"write"})
      PROVE  Changed(r) \in Item
  <2>1. /\ req[r] \in RequestRow /\ req[r].seen \in Version /\ req[r].copy \in Version
        /\ req[r].name \in Requests \cup {Undefined}
        BY <1>1 DEF RequestRow
  <2>2. req[r].seen \in Item /\ req[r].copy \in Item /\ req[r].op \in {"patch", "put", "lock", "unlock"}
        BY <1>4, <2>1 DEF Fits, In, Does, Readable, Version
  <2> PICK copy, locks, name, lock :
             /\ copy \in Item /\ locks \in SUBSET Requests /\ name \in Requests \cup {Undefined}
             /\ copy = req[r].copy /\ locks = req[r].seen.locks /\ name = req[r].name /\ lock = req[r].lock
      BY <2>1, <2>2 DEF Item
  <2>3. CASE req[r].op = "patch"
    <3>1. Changed(r) = [copy EXCEPT !.name = name, !.locks = locks]
          BY <2>3 DEF Changed
    <3> QED
        BY <3>1 DEF Item
  <2>4. CASE req[r].op = "put"
    <3>1. Changed(r) = [copy EXCEPT !.file = r, !.locks = locks]
          BY <2>4 DEF Changed
    <3> QED
        BY <3>1 DEF Item
  <2>5. CASE req[r].op = "lock"
    <3>1. Changed(r) = [copy EXCEPT !.locks = locks \cup {r}]
          BY <2>5 DEF Changed
    <3> QED
        BY <3>1 DEF Item
  <2>6. CASE req[r].op = "unlock"
    <3>1. Changed(r) = [copy EXCEPT !.locks = locks \ {lock}]
          BY <2>6 DEF Changed
    <3> QED
        BY <3>1 DEF Item
  <2> QED
      BY <2>2, <2>3, <2>4, <2>5, <2>6
<1> QED
    BY <1>2, <1>3, <1>4

\* What a change writes, field by field.
LEMMA ChangedFields ==
  ASSUME Typed, NEW r \in Requests, Fits(r), In(r, {"write"})
  PROVE  /\ Changed(r).name = IF Does(r, {"patch"}) THEN req[r].name ELSE req[r].copy.name
         /\ Changed(r).file = IF Does(r, {"put"}) THEN r ELSE req[r].copy.file
         /\ Does(r, {"patch", "put"}) => Changed(r).locks = req[r].seen.locks
         /\ Does(r, {"lock"}) => Changed(r).locks = req[r].seen.locks \cup {r}
         /\ Does(r, {"unlock"}) => Changed(r).locks = req[r].seen.locks \ {req[r].lock}
PROOF
<1>1. req[r].copy \in Item /\ req[r].op \in {"patch", "put", "lock", "unlock"}
      BY DEF Typed, RequestRow, Version, Fits, In, Does, Readable
<1> PICK copy, locks, name, lock :
           /\ copy \in Item /\ copy = req[r].copy
           /\ locks = req[r].seen.locks /\ name = req[r].name /\ lock = req[r].lock
    BY <1>1
<1> USE DEF Does
<1>2. CASE req[r].op = "patch"
  <2>1. Changed(r) = [copy EXCEPT !.name = name, !.locks = locks]
        BY <1>2 DEF Changed
  <2> QED
      BY <1>2, <2>1 DEF Item
<1>3. CASE req[r].op = "put"
  <2>1. Changed(r) = [copy EXCEPT !.file = r, !.locks = locks]
        BY <1>3 DEF Changed
  <2> QED
      BY <1>3, <2>1 DEF Item
<1>4. CASE req[r].op = "lock"
  <2>1. Changed(r) = [copy EXCEPT !.locks = locks \cup {r}]
        BY <1>4 DEF Changed
  <2> QED
      BY <1>4, <2>1 DEF Item
<1>5. CASE req[r].op = "unlock"
  <2>1. Changed(r) = [copy EXCEPT !.locks = locks \ {lock}]
        BY <1>5 DEF Changed
  <2> QED
      BY <1>5, <2>1 DEF Item
<1> QED
    BY <1>1, <1>2, <1>3, <1>4, <1>5

(***************************************************************************)
(* One request's step                                                      *)
(***************************************************************************)
\* What a request's step does to itself, to the table, and to nobody else.
Effect(r) ==
  /\ Typed'
  /\ \A q \in Requests \ {r} : req'[q] = req[q]
  /\ Fits(r)' /\ Owns(r)'
  /\ ~Does(r, {"none"}) => req'[r].op = req[r].op /\ (Does(r, {"lock"}) => req'[r].user = req[r].user)
  /\ UnderWay(r) \/ (calm => \A q \in Requests : ~UnderWay(q))
  /\ Creates(r)' => Creates(r) \/ \A q \in Requests : ~Creates(q)
  /\ calm' = calm /\ faults' >= faults
  /\ \/ versions' = versions
     \/ \E version \in Version :
          /\ versions' = Append(versions, version)
          /\ item = NoItem => In(r, {"insert"}) /\ version = Created(r)
  /\ In(r, {"insert"})' /\ Len(versions') > 1 => faults' > 0 /\ versions'[2] = Created(r)'
  /\ calm => Current(r)'
  /\ Settles'

LEMMA EffectKeeps ==
  ASSUME DocumentsInv, NEW r \in Requests, Effect(r)
  PROVE  DocumentsInv'
PROOF
<1> USE DEF In, Does
<1>1. /\ Typed /\ Typed' /\ versions \in Seq(Version) /\ Len(versions) \in Nat \ {0}
      /\ req \in [Requests -> RequestRow] /\ req' \in [Requests -> RequestRow]
      /\ faults \in Nat /\ faults' \in Nat /\ faults' >= faults
      /\ item \in Version
      BY ItemTypes, DocumentsAssumption DEF DocumentsInv, Effect, Typed
<1>2. \A q \in Requests \ {r} : req'[q] = req[q] /\ Created(q)' = Created(q)
      BY DEF Effect, Created
<1>3. \A q \in Requests : Fits(q) /\ Owns(q)
      BY DEF DocumentsInv
\* The table before and after.
<1>4. ASSUME versions' = versions
      PROVE  DeletedStaysDeleted' /\ OneCreator'
  <2>1. DeletedStaysDeleted'
        BY <1>1, <1>4 DEF DocumentsInv, DeletedStaysDeleted, Effect
  <2>2. OneCreator'
    <3>1. \A q \in Requests \ {r} : Creates(q)' = Creates(q)
          BY <1>2 DEF Creates
    <3>2. Creates(r) => Creates(r)'
          BY DEF Effect, Creates
    <3>3. \A p, q \in Requests : Creates(p)' /\ Creates(q)' => p = q
          BY <3>1 DEF DocumentsInv, OneCreator, Effect
    <3>4. (\A q \in Requests : ~Creates(q)') => versions' = <<NoItem>>
          BY <1>4, <3>1, <3>2 DEF DocumentsInv, OneCreator
    <3>5. ASSUME NEW q \in Requests, In(q, {"insert"})', Len(versions') > 1
          PROVE  faults' > 0 /\ versions'[2] = Created(q)'
          BY <1>1, <1>2, <1>4, <3>5 DEF DocumentsInv, OneCreator, Effect
    <3> QED
        BY <1>4, <3>3, <3>4, <3>5 DEF DocumentsInv, OneCreator
  <2> QED
      BY <2>1, <2>2
<1>5. ASSUME NEW version \in Version, versions' = Append(versions, version),
             item = NoItem => In(r, {"insert"}) /\ version = Created(r)
      PROVE  DeletedStaysDeleted' /\ OneCreator'
  <2>1. /\ Len(versions') = Len(versions) + 1
        /\ \A k \in 1 .. Len(versions) : versions'[k] = versions[k]
        /\ versions'[Len(versions')] = version
        BY <1>1, <1>5, Appended DEF item
  <2>2. item = NoItem /\ Len(versions) > 1 => faults > 0 /\ version = versions[2]
        BY <1>5 DEF DocumentsInv, OneCreator
  <2>3. DeletedStaysDeleted'
    <3> SUFFICES ASSUME NEW k \in 2 .. Len(versions), versions'[k] = NoItem
                 PROVE  \/ versions'[k + 1] = NoItem
                        \/ faults' > 0 /\ versions'[k + 1] = versions'[2]
        BY <1>1, <2>1 DEF DeletedStaysDeleted
    <3>1. CASE k = Len(versions)
          BY <1>1, <2>1, <2>2, <3>1 DEF item
    <3>2. CASE k # Len(versions)
      <4>1. k \in 2 .. Len(versions) - 1 /\ k + 1 \in 1 .. Len(versions) /\ 2 \in 1 .. Len(versions)
            BY <1>1, <3>2
      <4>2. versions[k + 1] = NoItem \/ (faults > 0 /\ versions[k + 1] = versions[2])
            BY <2>1, <4>1 DEF DocumentsInv, DeletedStaysDeleted
      <4> QED
          BY <1>1, <2>1, <4>1, <4>2
    <3> QED
        BY <3>1, <3>2
  <2>4. \A q \in Requests \ {r} : Creates(q)' = Creates(q)
        BY <1>2 DEF Creates
  <2>5. Creates(r) => Creates(r)'
        BY DEF Effect, Creates
  <2>6. \A p, q \in Requests : Creates(p)' /\ Creates(q)' => p = q
        BY <2>4 DEF DocumentsInv, OneCreator, Effect
  <2>7. \E q \in Requests : Creates(q)'
    <3>1. CASE item = NoItem
          BY <1>3, <1>5, <2>5, <3>1 DEF Fits, Creates
    <3>2. CASE item # NoItem
      <4>1. versions # <<NoItem>>
            BY <3>2 DEF item
      <4> QED
          BY <2>4, <2>5, <4>1 DEF DocumentsInv, OneCreator
    <3> QED
        BY <3>1, <3>2
  <2>8. ASSUME NEW q \in Requests, In(q, {"insert"})', Len(versions') > 1
        PROVE  faults' > 0 /\ versions'[2] = Created(q)'
    <3>1. CASE q = r
          BY <2>8, <3>1 DEF Effect
    <3>2. CASE q # r
      <4>1. In(q, {"insert"}) /\ Creates(q)
            BY <1>2, <1>3, <2>8, <3>2 DEF Fits, Creates
      <4>2. ~In(r, {"insert"})
            BY <1>3, <3>2, <4>1 DEF Fits, Creates, DocumentsInv, OneCreator
      <4>3. Len(versions) # 1
            BY <1>5, <4>2 DEF item, DocumentsInv, OneCreator
      <4> PICK n \in Nat \ {0} : n = Len(versions)
          BY <1>1
      <4>4. Len(versions) > 1 /\ 2 \in 1 .. Len(versions)
        <5>1. n > 1
              BY <4>3
        <5> QED
            BY <5>1
      <4>5. faults > 0 /\ versions[2] = Created(q)
            BY <4>1, <4>4 DEF DocumentsInv, OneCreator
      <4>6. Created(q)' = Created(q)
            BY <1>2, <3>2
      <4>7. versions'[2] = versions[2]
            BY <2>1, <4>4
      <4> QED
          BY <1>1, <4>5, <4>6, <4>7
    <3> QED
        BY <3>1, <3>2
  <2>9. versions'[1] = NoItem
        BY <1>1, <2>1 DEF DocumentsInv, OneCreator
  <2> QED
      BY <2>3, <2>6, <2>7, <2>8, <2>9 DEF OneCreator
<1>6. \A q \in Requests : Fits(q)' /\ Owns(q)'
  <2> SUFFICES ASSUME NEW q \in Requests \ {r} PROVE Fits(q)' /\ Owns(q)'
      BY DEF Effect
  <2>1. Fits(q)'
        BY <1>2, <1>3 DEF Fits
  <2>2. Owns(q)'
    <3> SUFFICES ASSUME req[q].op = "unlock", In(q, {"reread", "write"})
                 PROVE  /\ req[q].lock \in Requests /\ req'[req[q].lock].op = "lock"
                        /\ req[q].lock \in req[q].seen.locks => req'[req[q].lock].user = req[q].user
        BY <1>2 DEF Owns
    <3>1. /\ req[q].lock \in Requests /\ req[req[q].lock].op = "lock"
          /\ req[q].lock \in req[q].seen.locks => req[req[q].lock].user = req[q].user
          BY <1>3 DEF Owns
    <3>2. CASE req[q].lock = r
          BY <3>1, <3>2 DEF Effect
    <3>3. CASE req[q].lock # r
          BY <1>2, <3>1, <3>3
    <3> QED
        BY <3>2, <3>3
  <2> QED
      BY <2>1, <2>2
<1>7. InTurn'
  <2> SUFFICES ASSUME calm
               PROVE  /\ \A p, q \in Requests : UnderWay(p)' /\ UnderWay(q)' => p = q
                      /\ \A q \in Requests : Current(q)'
      BY DEF InTurn, Effect
  <2>1. \A q \in Requests \ {r} : ~UnderWay(q) /\ ~UnderWay(q)'
        BY <1>2 DEF Effect, DocumentsInv, InTurn, UnderWay
  <2>2. \A q \in Requests \ {r} : Current(q)'
        BY <2>1 DEF Current, UnderWay, Running
  <2> QED
      BY <2>1, <2>2 DEF Effect
<1>8. DeletedStaysDeleted' /\ OneCreator'
      BY <1>4, <1>5 DEF Effect
<1> QED
    BY <1>6, <1>7, <1>8 DEF Effect, DocumentsInv

\* What is settled stays so when the step adds neither a content nor the prospect of one.
LEMMA SettlesKept ==
  ASSUME DocumentsInv, NEW r \in Requests,
         \A q \in Requests \ {r} : req'[q] = req[q],
         UnderWay(r) \/ (calm => \A q \in Requests : ~UnderWay(q)),
         calm' = calm, sentAt' = sentAt,
         \/ versions' = versions
         \/ \E version \in Version :
              /\ versions' = Append(versions, version)
              /\ \A a, b : calm /\ sentAt > 0 /\ TwoContents(a, b) /\ version # NoItem
                             => Content(version) \in {a, b},
         \A a, b : calm /\ sentAt > 0 /\ TwoContents(a, b) => MayGive(r, a, b)'
  PROVE  Settles'
PROOF
<1> SUFFICES ASSUME calm, sentAt > 0 PROVE \E a, b : TwoContents(a, b)'
    BY DEF Settles
<1>1. /\ versions \in Seq(Version) /\ Len(versions) \in Nat \ {0} /\ sentAt \in 1 .. Len(versions)
      BY ItemTypes DEF DocumentsInv, Typed
<1>2. PICK a, b : TwoContents(a, b)
      BY DEF DocumentsInv, Settles
<1>3. \A q \in Requests \ {r} : ~UnderWay(q) /\ ~UnderWay(q)'
      BY DEF DocumentsInv, InTurn, UnderWay
<1>4. \A q \in Requests : MayGive(q, a, b)'
      BY <1>2, <1>3 DEF MayGive, In, UnderWay, Running
<1>5. HadOnly(a, b)'
  <2>1. CASE versions' = versions
        BY <1>2, <2>1 DEF TwoContents, HadOnly
  <2>2. ASSUME NEW version \in Version, versions' = Append(versions, version),
               version # NoItem => Content(version) \in {a, b}
        PROVE  HadOnly(a, b)'
    <3>1. /\ Len(versions') = Len(versions) + 1
          /\ \A k \in 1 .. Len(versions) : versions'[k] = versions[k]
          /\ versions'[Len(versions')] = version
          BY <1>1, <2>2, Appended DEF item
    <3> SUFFICES ASSUME NEW k \in sentAt .. Len(versions) + 1, versions'[k] # NoItem
                 PROVE  Content(versions'[k]) \in {a, b}
        BY <1>1, <3>1 DEF HadOnly
    <3>2. CASE k = Len(versions) + 1
          BY <2>2, <3>1, <3>2
    <3>3. CASE k # Len(versions) + 1
          BY <1>1, <1>2, <3>1, <3>3 DEF TwoContents, HadOnly
    <3> QED
        BY <3>2, <3>3
  <2> QED
      BY <1>2, <2>1, <2>2
<1> QED
    BY <1>4, <1>5 DEF TwoContents

\* A request begins.
LEMMA BeginEffect ==
  ASSUME DocumentsInv, NEW r \in Requests, NEW record \in RequestRow, Begin(r, record),
         record.step \in {"insert", "envelope", "reread"},
         record.step = "insert" =>
           record.op \in {"create", "upload"} /\ \A q \in Requests : ~Creates(q),
         record.step = "envelope" => record.op \in {"patch", "put"},
         record.step = "reread" => record.op \in {"lock", "unlock", "delete"},
         record.step # "insert" /\ record.op # "delete" => Readable(image) /\ record.seen = image,
         record.op = "unlock" =>
           /\ record.lock \in Requests /\ req[record.lock].op = "lock"
           /\ record.lock \in image.locks => req[record.lock].user = record.user
  PROVE  Effect(r)
PROOF
<1> USE DEF In, Does
<1>1. Typed /\ req \in [Requests -> RequestRow] /\ Fits(r) /\ faults \in Nat
      BY DocumentsAssumption DEF DocumentsInv, Typed
<1>2. /\ req[r].step = "idle" /\ req[r].op = "none" /\ ~UnderWay(r)
      /\ calm => indexed = Len(versions) /\ \A q \in Requests : ~UnderWay(q)
      /\ UNCHANGED <<versions, indexed, sentAt, expired, calm, faults>>
      BY <1>1 DEF Begin, At, Fits, UnderWay, Running
<1>3. /\ req' \in [Requests -> RequestRow] /\ req'[r] = record
      /\ \A q \in Requests \ {r} : req'[q] = req[q]
      BY <1>1 DEF Begin
<1>4. Typed'
      BY <1>1, <1>2, <1>3 DEF Typed
<1>5. Fits(r)'
      BY <1>3 DEF Fits
<1>6. Owns(r)'
  <2> SUFFICES ASSUME record.op = "unlock", record.step \in {"reread", "write"}
               PROVE  /\ record.lock \in Requests /\ req'[record.lock].op = "lock"
                      /\ record.lock \in record.seen.locks => req'[record.lock].user = record.user
      BY <1>3 DEF Owns
  <2>1. record.lock \in Requests \ {r}
        BY <1>2
  <2> QED
      BY <1>3, <2>1
<1>7. calm => Current(r)'
      BY <1>2, <1>3 DEF Current, item, image
<1>8. Creates(r)' => \A q \in Requests : ~Creates(q)
      BY <1>3 DEF Creates
<1>9. In(r, {"insert"})' => versions = <<NoItem>>
      BY <1>3 DEF DocumentsInv, OneCreator
<1>10. Settles'
  <2>1. CASE record.step = "insert"
    <3> SUFFICES ASSUME calm, sentAt > 0 PROVE \E a, b : TwoContents(a, b)'
        BY <1>2 DEF Settles
    <3> PICK a : a = Content(Created(r)')
        OBVIOUS
    <3>1. versions' = <<NoItem>>
          BY <1>2, <1>3, <1>9, <2>1
    <3>2. Len(versions') = 1 /\ versions'[1] = NoItem
          BY <3>1
    <3>3. HadOnly(a, a)'
          BY <1>1, <1>2, <3>2 DEF HadOnly, Typed
    <3>4. \A q \in Requests \ {r} : MayGive(q, a, a)'
          BY <1>2, <1>3 DEF MayGive, UnderWay, Running
    <3>5. MayGive(r, a, a)'
          BY <1>3, <2>1 DEF MayGive, Content, Created
    <3> QED
        BY <3>3, <3>4, <3>5 DEF TwoContents
  <2>2. CASE record.step # "insert"
    <3>1. \A a, b : MayGive(r, a, b)'
          BY <1>3, <2>2 DEF MayGive
    <3> QED
        BY <1>2, <1>3, <3>1, SettlesKept
  <2> QED
      BY <2>1, <2>2
<1>11. Len(versions') > 1 => ~In(r, {"insert"})'
  <2>1. Len(<<NoItem>>) = 1
        OBVIOUS
  <2> QED
      BY <1>2, <1>9, <2>1
<1> QED
    BY <1>1, <1>2, <1>3, <1>4, <1>5, <1>6, <1>7, <1>8, <1>10, <1>11 DEF Effect

LEMMA BeginsEffect ==
  ASSUME DocumentsInv, NEW r \in Requests,
         Create(r) \/ Change(r) \/ Lock(r) \/ Unlock(r) \/ Delete(r)
  PROVE  Effect(r)
PROOF
<1> DEFINE idle == [op |-> "none", step |-> "idle", name |-> Undefined, user |-> Undefined,
                    lock |-> Undefined, seen |-> NoItem, copy |-> NoItem]
<1>1. /\ {"create", "upload", "patch", "put", "lock", "unlock", "delete"} \subseteq Operations
      /\ {"insert", "envelope", "reread"} \subseteq Running
      /\ image \in Version /\ NoItem \in Version /\ Idle = idle
      BY ItemTypes DEF Operations, Running, DocumentsInv, Version, Idle
<1> PICK seen \in Version : seen = image
    BY <1>1
<1>2. CASE Create(r)
  <2> PICK op \in {"create", "upload"} : /\ \A q \in Requests : req[q].op \notin {"create", "upload"}
                                         /\ Begin(r, [idle EXCEPT !.op = op, !.step = "insert"])
      BY <1>1, <1>2 DEF Create
  <2> PICK record : record = [idle EXCEPT !.op = op, !.step = "insert"]
      OBVIOUS
  <2>1. record \in RequestRow /\ record.op = op /\ record.step = "insert"
        BY <1>1 DEF RequestRow
  <2>2. \A q \in Requests : ~Creates(q)
        BY DEF Creates, Does
  <2> QED
      BY <2>1, <2>2, BeginEffect
<1>3. CASE Change(r)
  <2> PICK op \in {"patch", "put"}, name \in {r, Undefined} :
           /\ Readable(image)
           /\ Begin(r, [idle EXCEPT !.op = op, !.step = "envelope", !.name = name, !.seen = seen])
      BY <1>1, <1>3 DEF Change
  <2> PICK record : record = [idle EXCEPT !.op = op, !.step = "envelope", !.name = name, !.seen = seen]
      OBVIOUS
  <2>1. record \in RequestRow /\ record.op = op /\ record.step = "envelope" /\ record.seen = seen
        BY <1>1 DEF RequestRow
  <2> QED
      BY <2>1, BeginEffect
<1>4. CASE Lock(r)
  <2> PICK user \in Users :
           /\ Readable(image)
           /\ Begin(r, [idle EXCEPT !.op = "lock", !.step = "reread", !.user = user, !.seen = seen])
      BY <1>1, <1>4 DEF Lock
  <2> PICK record : record = [idle EXCEPT !.op = "lock", !.step = "reread", !.user = user, !.seen = seen]
      OBVIOUS
  <2>1. record \in RequestRow /\ record.op = "lock" /\ record.step = "reread" /\ record.seen = seen
        BY <1>1 DEF RequestRow
  <2> QED
      BY <2>1, BeginEffect
<1>5. CASE Unlock(r)
  <2> PICK user \in Users, lock \in Requests :
           /\ req[lock].op = "lock"
           /\ Readable(image)
           /\ lock \in image.locks => MayUnlock(user, lock)
           /\ Begin(r, [idle EXCEPT !.op = "unlock", !.step = "reread", !.user = user,
                                    !.lock = lock, !.seen = seen])
      BY <1>1, <1>5 DEF Unlock
  <2> PICK record : record = [idle EXCEPT !.op = "unlock", !.step = "reread", !.user = user,
                                          !.lock = lock, !.seen = seen]
      OBVIOUS
  <2>1. /\ record \in RequestRow /\ record.op = "unlock" /\ record.step = "reread" /\ record.seen = seen
        /\ record.lock = lock /\ record.user = user
        BY <1>1 DEF RequestRow
  <2> QED
      BY <2>1, BeginEffect DEF MayUnlock
<1>6. CASE Delete(r)
  <2> PICK record : record = [idle EXCEPT !.op = "delete", !.step = "reread"]
      OBVIOUS
  <2>1. /\ record \in RequestRow /\ record.op = "delete" /\ record.step = "reread"
        BY <1>1 DEF RequestRow
  <2>2. Begin(r, record)
        BY <1>1, <1>6 DEF Delete
  <2> QED
      BY <2>1, <2>2, BeginEffect
<1> QED
    BY <1>2, <1>3, <1>4, <1>5, <1>6

\* A request ends, with its write or without one.
LEMMA EndEffect ==
  ASSUME DocumentsInv, NEW r \in Requests, UnderWay(r), End(r), Quiet, faults' = faults,
         \/ versions' = versions
         \/ \E version \in Version :
              /\ versions' = Append(versions, version)
              /\ item = NoItem => In(r, {"insert"}) /\ version = Created(r)
              /\ \A a, b : calm /\ sentAt > 0 /\ TwoContents(a, b) /\ version # NoItem
                             => Content(version) \in {a, b}
  PROVE  Effect(r)
PROOF
<1> USE DEF In, Does
<1>1. /\ Typed /\ req \in [Requests -> RequestRow] /\ Fits(r) /\ faults \in Nat
      /\ versions \in Seq(Version) /\ Len(versions) \in Nat
      BY DocumentsAssumption, ItemTypes DEF DocumentsInv, Typed
<1> PICK record : record = [[op |-> "none", step |-> "idle", name |-> Undefined, user |-> Undefined,
                             lock |-> Undefined, seen |-> NoItem, copy |-> NoItem]
                            EXCEPT !.step = "ended", !.op = req[r].op, !.user = req[r].user]
    OBVIOUS
<1>2. record \in RequestRow /\ record.step = "ended" /\ record.op = req[r].op /\ record.user = req[r].user
      BY <1>1 DEF RequestRow, Version
<1>3. req' = [req EXCEPT ![r] = record] /\ UNCHANGED <<indexed, sentAt, expired, calm>>
      BY DEF End, Idle, Quiet
<1>4. /\ req' \in [Requests -> RequestRow] /\ req'[r] = record
      /\ \A q \in Requests \ {r} : req'[q] = req[q]
      BY <1>1, <1>2, <1>3
<1>5. req[r].op # "none"
      BY <1>1 DEF Fits, UnderWay, Running
<1>6. versions' \in Seq(Version) /\ Len(versions') \in {Len(versions), Len(versions) + 1}
      BY <1>1, Appended
<1>7. Typed'
      BY <1>1, <1>3, <1>4, <1>6 DEF Typed
<1>8. Fits(r)' /\ Owns(r)' /\ Current(r)'
      BY <1>2, <1>4, <1>5 DEF Fits, Owns, Current
<1>9. Settles'
  <2>1. \A a, b : MayGive(r, a, b)'
        BY <1>2, <1>4 DEF MayGive
  <2> QED
      BY <1>3, <1>4, <2>1, SettlesKept
<1> QED
    BY <1>1, <1>2, <1>3, <1>4, <1>7, <1>8, <1>9 DEF Effect, Creates

\* A request reads the status of its envelope.
LEMMA ReadEnvelopeEffect ==
  ASSUME DocumentsInv, NEW r \in Requests, ReadEnvelope(r)
  PROVE  Effect(r)
PROOF
<1> USE DEF In, Does
<1>1. /\ Typed /\ req \in [Requests -> RequestRow] /\ Fits(r) /\ faults \in Nat
      /\ req[r].step = "envelope" /\ UnderWay(r)
      BY DocumentsAssumption DEF DocumentsInv, Typed, ReadEnvelope, At, UnderWay, Running
<1>2. /\ versions' = versions /\ faults' = faults
      /\ UNCHANGED <<indexed, sentAt, expired, calm>>
      BY DEF ReadEnvelope, Quiet
<1>3. ASSUME sentAt = 0, Goto(r, "reread")
      PROVE  Effect(r)
  <2> PICK row \in RequestRow : row = req[r]
      BY <1>1
  <2> PICK record : record = [row EXCEPT !.step = "reread"]
      OBVIOUS
  <2>1. /\ record \in RequestRow /\ record.step = "reread" /\ record.op = row.op
        /\ record.seen = row.seen /\ record.user = row.user
        BY DEF RequestRow, Running
  <2>2. req' = [req EXCEPT ![r] = record]
        BY <1>1, <1>3 DEF Goto
  <2>3. /\ req' \in [Requests -> RequestRow] /\ req'[r] = record
        /\ \A q \in Requests \ {r} : req'[q] = req[q]
        BY <1>1, <2>1, <2>2
  <2>4. Typed'
        BY <1>1, <1>2, <2>3 DEF Typed
  <2>5. row.op \in {"patch", "put"} /\ Readable(row.seen)
        BY <1>1 DEF Fits
  <2>6. Fits(r)' /\ Owns(r)'
        BY <2>1, <2>3, <2>5 DEF Fits, Owns
  <2>7. calm => Current(r)'
        BY <1>1, <1>2, <2>1, <2>3, <2>5 DEF DocumentsInv, InTurn, Current, item
  <2>8. Settles'
        BY <1>2, <1>3 DEF Settles
  <2> QED
      BY <1>1, <1>2, <2>1, <2>3, <2>4, <2>6, <2>7, <2>8 DEF Effect, Creates
<1>4. CASE End(r)
      BY <1>1, <1>2, <1>4, EndEffect DEF Quiet
<1> QED
    BY <1>3, <1>4 DEF ReadEnvelope

\* A request reads the item again.
LEMMA RereadEffect ==
  ASSUME DocumentsInv, NEW r \in Requests, Reread(r)
  PROVE  Effect(r)
PROOF
<1> USE DEF In, Does
<1>1. /\ Typed /\ req \in [Requests -> RequestRow] /\ Fits(r) /\ Owns(r) /\ faults \in Nat
      /\ req[r].step = "reread" /\ UnderWay(r) /\ image \in Version
      BY DocumentsAssumption, ItemTypes DEF DocumentsInv, Typed, Reread, At, UnderWay, Running
<1>2. /\ versions' = versions /\ faults' = faults
      /\ UNCHANGED <<indexed, sentAt, expired, calm>>
      BY DEF Reread, Quiet
<1> DEFINE next == IF req[r].op = "delete" THEN "delete" ELSE "write"
<1>3. ASSUME Readable(image), req' = [req EXCEPT ![r].step = next, ![r].copy = image]
      PROVE  Effect(r)
  <2> PICK row \in RequestRow : row = req[r]
      BY <1>1
  <2> PICK read \in Version : read = image
      BY <1>1
  <2> PICK step \in {"delete", "write"} : step = next
      OBVIOUS
  <2> PICK record : record = [row EXCEPT !.step = step, !.copy = read]
      OBVIOUS
  <2>1. /\ record \in RequestRow /\ record.step = step /\ record.copy = read
        /\ record.op = row.op /\ record.name = row.name /\ record.user = row.user
        /\ record.lock = row.lock /\ record.seen = row.seen
        BY DEF RequestRow, Running
  <2>2. req' = [req EXCEPT ![r] = record]
        BY <1>1, <1>3
  <2>3. /\ req' \in [Requests -> RequestRow] /\ req'[r] = record
        /\ \A q \in Requests \ {r} : req'[q] = req[q]
        BY <1>1, <2>1, <2>2
  <2>4. Typed'
        BY <1>1, <1>2, <2>3 DEF Typed
  <2>5. /\ row.op \in {"patch", "put", "lock", "unlock", "delete"}
        /\ row.op # "delete" => Readable(row.seen)
        /\ step = "delete" <=> row.op = "delete"
        BY <1>1 DEF Fits
  <2>6. Fits(r)'
        BY <1>3, <2>1, <2>3, <2>5 DEF Fits
  <2>7. Owns(r)'
    <3> SUFFICES ASSUME row.op = "unlock"
                 PROVE  /\ row.lock \in Requests /\ req'[row.lock].op = "lock"
                        /\ row.lock \in row.seen.locks => req'[row.lock].user = row.user
        BY <2>1, <2>3 DEF Owns
    <3>1. /\ row.lock \in Requests /\ req[row.lock].op = "lock"
          /\ row.lock \in row.seen.locks => req[row.lock].user = row.user
          BY <1>1 DEF Owns
    <3>2. row.lock # r
          BY <3>1
    <3> QED
        BY <2>3, <3>1, <3>2
  <2>8. calm => Current(r)'
    <3> SUFFICES ASSUME calm PROVE Current(r)'
        OBVIOUS
    <3>1. /\ indexed = Len(versions) /\ read = item
          /\ row.op # "delete" => row.seen = item
          BY <1>1 DEF DocumentsInv, InTurn, Current, image, item
    <3> QED
        BY <1>2, <2>1, <2>3, <2>5, <3>1 DEF Current, item
  <2>9. \A a, b : TwoContents(a, b) => MayGive(r, a, b)'
    <3> SUFFICES ASSUME NEW a, NEW b, MayGive(r, a, b) PROVE MayGive(r, a, b)'
        BY DEF TwoContents
    <3>1. item' = item
          BY <1>2 DEF item
    <3>2. Outcome(r)' = Outcome(r)
          BY <2>1, <2>3, <3>1 DEF Outcome
    <3> QED
        BY <1>1, <2>1, <2>3, <3>1, <3>2 DEF MayGive
  <2>10. Settles'
        BY <1>1, <1>2, <2>3, <2>9, SettlesKept
  <2> QED
      BY <1>1, <1>2, <2>1, <2>3, <2>4, <2>5, <2>6, <2>7, <2>8, <2>10 DEF Effect, Creates
<1>4. CASE End(r)
      BY <1>1, <1>2, <1>4, EndEffect DEF Quiet
<1> QED
    BY <1>3, <1>4 DEF Reread

\* What a change puts is what the requests under way were counted for.
LEMMA ChangeCounted ==
  ASSUME DocumentsInv, NEW r \in Requests, In(r, {"write"}), item # NoItem, calm, sentAt > 0,
         NEW a, NEW b, TwoContents(a, b)
  PROVE  Content(Changed(r)) \in {a, b}
PROOF
<1> USE DEF In, Does
<1>1. /\ Typed /\ Fits(r) /\ Current(r) /\ MayGive(r, a, b) /\ HadOnly(a, b)
      /\ req[r].op \in {"patch", "put", "lock", "unlock"}
      BY DEF DocumentsInv, InTurn, TwoContents, Fits
<1>2. /\ Changed(r).name = IF req[r].op = "patch" THEN req[r].name ELSE req[r].copy.name
      /\ Changed(r).file = IF req[r].op = "put" THEN r ELSE req[r].copy.file
      BY <1>1, ChangedFields
<1>3. CASE req[r].op = "patch"
      BY <1>1, <1>2, <1>3 DEF Current, MayGive, Outcome, Content
<1>4. CASE req[r].op = "put"
      BY <1>1, <1>2, <1>4 DEF Current, MayGive, Outcome, Content
<1>5. CASE req[r].op \in {"lock", "unlock"}
  <2>1. Content(Changed(r)) = Content(item)
        BY <1>1, <1>2, <1>5 DEF Current, Content
  <2>2. Len(versions) \in sentAt .. Len(versions)
        BY <1>1, ItemTypes DEF Typed
  <2> QED
      BY <1>1, <2>1, <2>2 DEF HadOnly, item, Typed
<1> QED
    BY <1>1, <1>3, <1>4, <1>5

\* A request's last step: it puts the item, deletes it, or is refused or broken off.
LEMMA LastEffect ==
  ASSUME DocumentsInv, NEW r \in Requests, Insert(r) \/ Write(r) \/ Erase(r) \/ BreakOff(r)
  PROVE  Effect(r)
PROOF
<1> USE DEF In, Does
<1>1. Typed /\ Fits(r) /\ NoItem \in Version
      BY DEF DocumentsInv, Version
<1>2. CASE Insert(r)
  <2>1. UnderWay(r) /\ In(r, {"insert"}) /\ End(r) /\ Quiet /\ faults' = faults
        BY <1>2 DEF Insert, At, UnderWay, Running
  <2>2. Created(r) \in Version
        BY <1>1, <2>1, ItemTypes DEF Version
  <2>3. \A a, b : TwoContents(a, b) => Content(Created(r)) \in {a, b}
        BY <2>1 DEF TwoContents, MayGive
  <2>4. versions' = versions \/ versions' = Append(versions, Created(r))
        BY <1>2 DEF Insert
  <2> QED
      BY <2>1, <2>2, <2>3, <2>4, EndEffect
<1>3. CASE Write(r)
  <2>1. UnderWay(r) /\ In(r, {"write"}) /\ End(r) /\ Quiet /\ faults' = faults
        BY <1>3 DEF Write, At, UnderWay, Running
  <2>2. Changed(r) \in Version
        BY <1>1, <2>1, ItemTypes DEF Version
  <2>3. versions' = versions \/ (item # NoItem /\ versions' = Append(versions, Changed(r)))
        BY <1>3 DEF Write, PutItem
  <2>4. item # NoItem => \A a, b : calm /\ sentAt > 0 /\ TwoContents(a, b)
                                    => Content(Changed(r)) \in {a, b}
        BY <2>1, ChangeCounted
  <2> QED
      BY <2>1, <2>2, <2>3, <2>4, EndEffect
<1>4. CASE Erase(r)
  <2>1. UnderWay(r) /\ End(r) /\ Quiet /\ faults' = faults
        BY <1>4 DEF Erase, At, UnderWay, Running
  <2>2. versions' = versions \/ (item # NoItem /\ versions' = Append(versions, NoItem))
        BY <1>4 DEF Erase
  <2> QED
      BY <1>1, <2>1, <2>2, EndEffect
<1>5. CASE BreakOff(r)
      BY <1>5, EndEffect DEF BreakOff
<1> QED
    BY <1>2, <1>3, <1>4, <1>5

\* The put is carried out, and its answer is lost.
LEMMA UnansweredEffect ==
  ASSUME DocumentsInv, NEW r \in Requests, InsertUnanswered(r) \/ WriteUnanswered(r)
  PROVE  Effect(r)
PROOF
<1> USE DEF In, Does
<1>1. /\ Typed /\ Fits(r) /\ Owns(r) /\ UnderWay(r) /\ faults \in Nat /\ faults' = faults + 1
      /\ faults < MaxFaults /\ req' = req /\ UNCHANGED <<indexed, sentAt, expired, calm>>
      /\ versions \in Seq(Version) /\ Len(versions) \in Nat \ {0}
      BY ItemTypes, DocumentsAssumption
         DEF DocumentsInv, Typed, InsertUnanswered, WriteUnanswered, At, UnderWay, Running, Quiet
<1>2. Fits(r)' /\ Owns(r)' /\ Created(r)' = Created(r)
      BY <1>1 DEF Fits, Owns, Created
<1>3. ASSUME NEW version \in Version, versions' = Append(versions, version)
      PROVE  /\ versions' \in Seq(Version) /\ Len(versions') = Len(versions) + 1
             /\ \A k \in 1 .. Len(versions) : versions'[k] = versions[k]
             /\ versions'[Len(versions')] = version /\ item' = version
             /\ Typed'
  <2>1. /\ versions' \in Seq(Version) /\ Len(versions') = Len(versions) + 1
        /\ \A k \in 1 .. Len(versions) : versions'[k] = versions[k]
        /\ item' = version
        BY <1>1, <1>3, Appended
  <2>2. Typed'
        BY <1>1, <2>1, DocumentsAssumption DEF Typed
  <2> QED
      BY <2>1, <2>2 DEF item
<1>4. CASE InsertUnanswered(r)
  <2>1. In(r, {"insert"}) /\ item = NoItem /\ versions' = Append(versions, Created(r))
        BY <1>4 DEF InsertUnanswered, At
  <2>2. Created(r) \in Version
        BY <1>1, <2>1, ItemTypes DEF Version
  <2>3. versions'[2] = Created(r)
    <3> PICK n \in Nat \ {0} : n = Len(versions)
        BY <1>1
    <3>1. CASE n = 1
          BY <1>3, <2>1, <2>2, <3>1
    <3>2. CASE n > 1
          BY <1>3, <2>1, <2>2, <3>2 DEF DocumentsInv, OneCreator
    <3> QED
        BY <3>1, <3>2
  <2>4. Current(r)'
        BY <1>1, <2>1 DEF Current
  <2>5. \A a, b : TwoContents(a, b) => Content(Created(r)) \in {a, b} /\ MayGive(r, a, b)'
        BY <1>1, <2>1 DEF TwoContents, MayGive, Content, Created
  <2>6. Settles'
        BY <1>1, <2>1, <2>2, <2>5, SettlesKept
  <2> QED
      BY <1>1, <1>2, <1>3, <2>1, <2>2, <2>3, <2>4, <2>6 DEF Effect, Creates
<1>5. CASE WriteUnanswered(r)
  <2>1. In(r, {"write"}) /\ item # NoItem /\ versions' = Append(versions, Changed(r))
        BY <1>5 DEF WriteUnanswered, PutItem, At
  <2>2. Changed(r) \in Version
        BY <1>1, <2>1, ItemTypes DEF Version
  <2>3. item' = Changed(r)
        BY <1>3, <2>1, <2>2
  <2>4. /\ Changed(r).name = IF req[r].op = "patch" THEN req[r].name ELSE req[r].copy.name
        /\ Changed(r).file = IF req[r].op = "put" THEN r ELSE req[r].copy.file
        /\ req[r].op \in {"patch", "put"} => Changed(r).locks = req[r].seen.locks
        /\ req[r].op = "lock" => Changed(r).locks = req[r].seen.locks \cup {r}
        /\ req[r].op = "unlock" => Changed(r).locks = req[r].seen.locks \ {req[r].lock}
        /\ req[r].op \in {"patch", "put", "lock", "unlock"}
        BY <1>1, <2>1, ChangedFields DEF Fits
  <2>5. Current(r)'
        BY <1>1, <2>1, <2>3, <2>4 DEF Current
  <2>6. ASSUME NEW a, NEW b, calm, sentAt > 0, TwoContents(a, b)
        PROVE  Content(Changed(r)) \in {a, b} /\ MayGive(r, a, b)'
    <3>1. Content(Changed(r)) \in {a, b}
          BY <2>1, <2>6, ChangeCounted
    <3>2. Current(r) /\ MayGive(r, a, b)
          BY <2>6 DEF DocumentsInv, InTurn, TwoContents
    <3>3. req[r].op \in {"patch", "put"} => Outcome(r)' = Outcome(r)
          BY <1>1, <2>1, <2>3, <2>4, <3>2 DEF Current, Outcome
    <3> QED
        BY <1>1, <2>1, <3>1, <3>2, <3>3 DEF MayGive
  <2>7. Settles'
        BY <1>1, <2>1, <2>2, <2>6, SettlesKept
  <2> QED
      BY <1>1, <1>2, <1>3, <2>1, <2>2, <2>5, <2>7 DEF Effect, Creates
<1> QED
    BY <1>4, <1>5

(***************************************************************************)
(* The surroundings                                                        *)
(***************************************************************************)
\* What a step of the surroundings does not touch.
LEMMA AroundKeeps ==
  ASSUME DocumentsInv, UNCHANGED <<versions, req, calm, faults>>
  PROVE  /\ \A r \in Requests : Fits(r)' /\ Owns(r)'
         /\ OneCreator' /\ DeletedStaysDeleted'
         /\ item' = item /\ \A r \in Requests : (UnderWay(r))' = UnderWay(r)
PROOF
BY DEF DocumentsInv, Fits, Owns, In, Does, OneCreator, Creates, Created, DeletedStaysDeleted, item, UnderWay

\* The index takes the next version; no request that waits for it is under way then.
LEMMA PropagateKeeps ==
  ASSUME DocumentsInv, Propagate
  PROVE  DocumentsInv'
PROOF
<1>1. Typed /\ UNCHANGED <<versions, req, calm, faults, sentAt, expired>> /\ item' = item
      BY AroundKeeps DEF DocumentsInv, Propagate
<1>2. Typed'
      BY <1>1, ItemTypes DEF Typed, Propagate
<1>3. InTurn'
  <2> SUFFICES ASSUME calm PROVE \A r \in Requests : Current(r)'
      BY <1>1, AroundKeeps DEF InTurn, DocumentsInv
  <2> SUFFICES ASSUME NEW r \in Requests PROVE Current(r)'
      OBVIOUS
  <2>1. Current(r) /\ ~In(r, {"envelope", "reread"})
        BY <1>1 DEF DocumentsInv, InTurn, Current, Propagate, Typed
  <2> QED
      BY <1>1, <2>1 DEF Current, In, Does
<1>4. Settles'
      BY <1>1 DEF DocumentsInv, Settles, TwoContents, HadOnly, MayGive, Outcome, Created, In, Does
<1> QED
    BY <1>1, <1>2, <1>3, <1>4, AroundKeeps DEF DocumentsInv

\* Requests that wait for each other: the one under way is the only one that may
\* still change what was sent.
LEMMA SendKeeps ==
  ASSUME DocumentsInv, SendEnvelope
  PROVE  DocumentsInv'
PROOF
<1>1. /\ Typed /\ UNCHANGED <<versions, indexed, req, calm, faults, expired>> /\ item' = item
      /\ sentAt' = Len(versions) /\ Len(versions) \in Nat \ {0}
      BY AroundKeeps, ItemTypes DEF DocumentsInv, SendEnvelope
<1>2. Typed'
      BY <1>1 DEF Typed
<1>3. InTurn'
      BY <1>1 DEF DocumentsInv, InTurn, Current, UnderWay, In, Does
<1>4. Settles'
  <2> SUFFICES ASSUME calm PROVE \E a, b : TwoContents(a, b)'
      BY <1>1 DEF Settles
  <2>1. \A r \in Requests : ~UnderWay(r) => \A a, b : MayGive(r, a, b)'
        BY <1>1 DEF MayGive, UnderWay, Running, In
  <2>2. \A b : item # NoItem => HadOnly(Content(item), b)'
        BY <1>1 DEF HadOnly, item, Content
  <2>3. \A a, b : item = NoItem => HadOnly(a, b)'
        BY <1>1 DEF HadOnly, item
  <2>4. ASSUME NEW q \in Requests, UnderWay(q)
        PROVE  \E a, b : TwoContents(a, b)'
    <3> PICK b : b = IF In(q, {"insert"}) THEN Content(Created(q)) ELSE Outcome(q)
        OBVIOUS
    <3>1. MayGive(q, Content(item), b)'
          BY <1>1 DEF MayGive, In, Does, Outcome, Content, Created
    <3>2. \A r \in Requests : MayGive(r, Content(item), b)'
          BY <2>1, <2>4, <3>1 DEF DocumentsInv, InTurn
    <3>3. HadOnly(Content(item), b)'
          BY <2>2, <2>3
    <3>4. Content(item)' = Content(item) /\ b' = b
          BY <1>1 DEF Content
    <3> QED
        BY <1>1, <3>2, <3>3 DEF TwoContents
  <2>5. ASSUME \A q \in Requests : ~UnderWay(q)
        PROVE  \E a, b : TwoContents(a, b)'
    <3> PICK a : a = Content(item)
        OBVIOUS
    <3>1. HadOnly(a, a)'
          BY <1>1 DEF HadOnly, item, Content
    <3> QED
        BY <2>1, <2>5, <3>1 DEF TwoContents
  <2> QED
      BY <2>4, <2>5
<1> QED
    BY <1>1, <1>2, <1>3, <1>4, AroundKeeps DEF DocumentsInv

\* A lock expires, or nothing happens.
LEMMA ExpireKeeps ==
  ASSUME DocumentsInv, ExpireLock \/ UNCHANGED vars
  PROVE  DocumentsInv'
PROOF
<1>1. /\ Typed /\ UNCHANGED <<versions, indexed, sentAt, req, calm, faults>> /\ item' = item
      /\ expired' \subseteq Requests
  <2>1. CASE ExpireLock
        BY <2>1, AroundKeeps DEF DocumentsInv, ExpireLock, Typed
  <2>2. CASE UNCHANGED vars
        BY <2>2, AroundKeeps DEF DocumentsInv, vars, Typed
  <2> QED
      BY <2>1, <2>2
<1>2. Typed'
      BY <1>1 DEF Typed
<1>3. InTurn'
      BY <1>1 DEF DocumentsInv, InTurn, Current, UnderWay, In, Does
<1>4. Settles'
      BY <1>1 DEF DocumentsInv, Settles, TwoContents, HadOnly, MayGive, Outcome, Created, In, Does
<1> QED
    BY <1>1, <1>2, <1>3, <1>4, AroundKeeps DEF DocumentsInv

(***************************************************************************)
(* The invariant, and what it gives                                        *)
(***************************************************************************)
LEMMA NextDocuments == DocumentsInv /\ [Next]_vars => DocumentsInv'
PROOF
<1> SUFFICES ASSUME DocumentsInv, [Next]_vars PROVE DocumentsInv'
    OBVIOUS
<1>1. ASSUME NEW r \in Requests, Creating(r) \/ Changing(r) \/ Deleting(r) \/ BreakOff(r)
      PROVE  DocumentsInv'
  <2>1. CASE Create(r) \/ Change(r) \/ Lock(r) \/ Unlock(r) \/ Delete(r)
        BY <2>1, BeginsEffect, EffectKeeps
  <2>2. CASE ReadEnvelope(r)
        BY <2>2, ReadEnvelopeEffect, EffectKeeps
  <2>3. CASE Reread(r)
        BY <2>3, RereadEffect, EffectKeeps
  <2>4. CASE Insert(r) \/ Write(r) \/ Erase(r) \/ BreakOff(r)
        BY <2>4, LastEffect, EffectKeeps
  <2>5. CASE InsertUnanswered(r) \/ WriteUnanswered(r)
        BY <2>5, UnansweredEffect, EffectKeeps
  <2> QED
      BY <1>1, <2>1, <2>2, <2>3, <2>4, <2>5 DEF Creating, Changing, Deleting
<1>2. CASE Propagate
      BY <1>2, PropagateKeeps
<1>3. CASE SendEnvelope
      BY <1>3, SendKeeps
<1>4. CASE ExpireLock \/ UNCHANGED vars
      BY <1>4, ExpireKeeps
<1> QED
    BY <1>1, <1>2, <1>3, <1>4 DEF Next

LEMMA Invariant == Spec => []DocumentsInv
PROOF
BY InitDocuments, NextDocuments, PTL DEF Spec

\* Every variable has its type, and a request that will write holds two readings
\* (makeDocumentsCommandsPort and DocumentRepositoryDdb.update).
THEOREM TypeCorrect == Spec => []TypeOK
PROOF
<1>1. DocumentsInv => TypeOK
  <2> SUFFICES ASSUME DocumentsInv PROVE TypeOK
      OBVIOUS
  <2>1. Typed /\ \A r \in Requests : Fits(r) /\ req[r] \in RequestRow
        BY DEF DocumentsInv, Typed
  <2>2. \A r \in Requests : At(r, "write") => Readable(req[r].seen) /\ Readable(req[r].copy)
        BY <2>1 DEF At, Fits, In, Does
  <2>3. \A r \in Requests : /\ req[r].op \in Operations \cup {"none"}
                            /\ req[r].step \in Running \cup {"idle", "ended"}
        BY <2>1 DEF RequestRow
  <2> QED
      BY <2>1, <2>2, <2>3 DEF TypeOK, Typed, Version
<1> QED
    BY Invariant, <1>1, PTL

\* The put's condition, that there is an item, keeps a deleted document deleted
\* however requests interleave and the index lags; a creation may bring it back
\* as it was created, when its answer was lost.
THEOREM DeletionLasts == Spec => []DeletedStaysDeleted
PROOF
<1>1. DocumentsInv => DeletedStaysDeleted
      BY DEF DocumentsInv
<1> QED
    BY Invariant, <1>1, PTL

\* Two values are at most two.
LEMMA AtMostTwo ==
  ASSUME NEW a, NEW b, NEW S, S \subseteq {a, b}
  PROVE  Cardinality(S) <= 2
PROOF
<1>1. IsFiniteSet({}) /\ Cardinality({}) = 0
      BY FS_EmptySet
<1>2. IsFiniteSet({a}) /\ Cardinality({a}) = 1
      BY FS_Singleton
<1>3. IsFiniteSet({a} \cup {b}) /\ Cardinality({a} \cup {b}) <= 2
      BY <1>2, FS_AddElement, 1 + 1 = 2
<1>4. {a} \cup {b} = {a, b}
      OBVIOUS
<1>5. IsFiniteSet({a, b}) /\ Cardinality({a, b}) <= 2 /\ Cardinality({a, b}) \in Nat
      BY <1>3, <1>4, FS_CardinalityType
<1>6. IsFiniteSet(S) /\ Cardinality(S) <= Cardinality({a, b}) /\ Cardinality(S) \in Nat
      BY <1>5, FS_Subset, FS_CardinalityType
<1> QED
    BY <1>5, <1>6

\* Of requests that wait for each other and for the index, only the one that had
\* read the envelope's status before it was sent changes its document after.
THEOREM SendingSettles == Spec => []SentIsSettled
PROOF
<1>1. DocumentsInv => SentIsSettled
  <2> SUFFICES ASSUME DocumentsInv, calm, sentAt > 0
               PROVE  Cardinality({<<versions[k].name, versions[k].file>> :
                                     k \in {l \in sentAt .. Len(versions) : l > 0 /\ versions[l] # NoItem}}) <= 2
      BY DEF SentIsSettled
  <2> PICK a, b : TwoContents(a, b)
      BY DEF DocumentsInv, Settles
  <2>1. \A k \in {l \in sentAt .. Len(versions) : l > 0 /\ versions[l] # NoItem} :
           <<versions[k].name, versions[k].file>> \in {a, b}
        BY DEF TwoContents, HadOnly, Content
  <2> QED
      BY <2>1, AtMostTwo
<1> QED
    BY Invariant, <1>1, PTL

\* Of requests that wait for each other and for the index, only one of the
\* lock's owner removes a lock from a document that stays
\* (assertDocumentLockDeletable).
THEOREM OwnersUnlock == Spec => OnlyOwnerUnlocks
PROOF
<1>1. ASSUME DocumentsInv, [Next]_vars, versions' # versions, calm, item # NoItem, item' # NoItem,
             NEW l \in item.locks \ item'.locks
      PROVE  \E r \in Requests : At(r, "write") /\ req[r].lock = l /\ req[r].user = req[l].user
  <2>1. \E r \in Requests :
           \/ Insert(r) \/ InsertUnanswered(r) \/ Erase(r)
           \/ Write(r) \/ WriteUnanswered(r)
        BY <1>1 DEF Next, Creating, Changing, Deleting, Create, Change, Lock, Unlock, Delete, Begin,
                    ReadEnvelope, Reread, BreakOff, Propagate, SendEnvelope, ExpireLock, vars
  <2> PICK r \in Requests : \/ Insert(r) \/ InsertUnanswered(r) \/ Erase(r)
                            \/ Write(r) \/ WriteUnanswered(r)
      BY <2>1
  <2>2. Typed /\ Fits(r) /\ Owns(r) /\ Current(r) /\ versions \in Seq(Version) /\ NoItem \in Version
        BY <1>1 DEF DocumentsInv, InTurn, Typed, Version
  <2>3. ~Insert(r) /\ ~InsertUnanswered(r)
        BY <1>1 DEF Insert, InsertUnanswered
  <2>4. ~Erase(r)
    <3>1. Erase(r) => versions' = Append(versions, NoItem)
          BY <1>1 DEF Erase
    <3> QED
        BY <1>1, <2>2, <3>1, Appended
  <2>5. In(r, {"write"}) /\ versions' = Append(versions, Changed(r))
        BY <1>1, <2>3, <2>4 DEF Write, WriteUnanswered, PutItem, At, In
  <2>6. Changed(r) \in Version
        BY <2>2, <2>5, ItemTypes DEF Version
  <2>7. item' = Changed(r)
        BY <2>2, <2>5, <2>6, Appended
  <2>8. item.locks \subseteq req[r].seen.locks \cup IF Does(r, {"lock"}) THEN {r} ELSE {}
        BY <1>1, <2>2, <2>5 DEF Current
  <2>9. Does(r, {"unlock"}) /\ req[r].lock = l /\ l \in req[r].seen.locks
    <3>1. /\ Does(r, {"patch", "put"}) => Changed(r).locks = req[r].seen.locks
          /\ Does(r, {"lock"}) => Changed(r).locks = req[r].seen.locks \cup {r}
          /\ Does(r, {"unlock"}) => Changed(r).locks = req[r].seen.locks \ {req[r].lock}
          BY <2>2, <2>5, ChangedFields
    <3>2. Does(r, {"patch", "put", "lock", "unlock"})
          BY <2>2, <2>5 DEF Fits
    <3> QED
        BY <1>1, <2>7, <2>8, <3>1, <3>2 DEF Does
  <2>10. At(r, "write") /\ req[r].user = req[l].user
         BY <2>2, <2>5, <2>9 DEF Owns, In, At
  <2> QED
      BY <2>9, <2>10
<1>2. DocumentsInv /\ [Next]_vars
        => [calm /\ item # NoItem /\ item' # NoItem
              => \A l \in item.locks \ item'.locks :
                   \E r \in Requests : At(r, "write") /\ req[r].lock = l /\ req[r].user = req[l].user
           ]_versions
      BY <1>1
<1> QED
    BY Invariant, <1>2, PTL DEF Spec, OnlyOwnerUnlocks
=============================================================================
