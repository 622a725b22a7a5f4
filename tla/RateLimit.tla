----------------------------- MODULE RateLimit -----------------------------
(***************************************************************************)
(* RateLimitStoreDdb: how many calls one rate limit key lets through in    *)
(* each time window, counted in DynamoDB by any number of Lambdas.         *)
(*                                                                         *)
(* A call of incrementAndCheck reads the clock and sends a conditional     *)
(* UpdateItem; if that is refused, createRecord reads the clock again and  *)
(* sends a conditional PutItem; if that is refused too, incrementAndCheck  *)
(* starts over.  DynamoDB carries out one request at a time for an item,   *)
(* in any order.  It may carry out a request and lose the answer: the SDK  *)
(* then sends the request again.                                           *)
(*                                                                         *)
(* Time is the number of the current window.  A window whose record is     *)
(* missing has usage 0: a record is made with usage 1.                     *)
(***************************************************************************)
EXTENDS Naturals, FiniteSets

CONSTANTS
  Calls,         \* calls of incrementAndCheck for one key
  MaxRequests,   \* window.maxRequests
  LastWindow,    \* bound: the clock stops in this window
  Failures       \* may answers be lost, and calls fail?

ASSUME RateLimitAssumption ==
  /\ IsFiniteSet(Calls)
  /\ MaxRequests \in Nat \ {0}
  /\ LastWindow \in Nat
  /\ Failures \in BOOLEAN

Windows == 0 .. LastWindow

VARIABLES
  now,     \* the window the clock is in
  usage,   \* currentUsage of each window's record, 0 if there is none
  call     \* each call's progress, and the window it read from the clock

vars == <<now, usage, call>>

Waiting == {"update", "missed", "put", "exists"}
Answered == {"admitted", "failed"}

TypeOK ==
  /\ now \in Windows
  /\ usage \in [Windows -> 0 .. MaxRequests]
  /\ call \in [Calls -> [pc : {"idle"} \union Waiting \union Answered, window : Windows]]

Init ==
  /\ now = 0
  /\ usage = [w \in Windows |-> 0]
  /\ call = [c \in Calls |-> [pc |-> "idle", window |-> 0]]

At(c, pc) == call[c].pc = pc
Window(c) == call[c].window
Becomes(c, pc) == call' = [call EXCEPT ![c].pc = pc]

\* calculateWindowStart of the time at which the next request is sent.
ReadsClock(c, pc) == call' = [call EXCEPT ![c] = [pc |-> pc, window |-> now]]

(***************************************************************************)
(* incrementAndCheck                                                       *)
(***************************************************************************)
Increment(c) ==
  /\ call[c].pc \in {"idle", "exists"}
  /\ ReadsClock(c, "update")
  /\ UNCHANGED <<now, usage>>

\* Altered: the usage after the increment has to be below the limit.
BelowLimitAfter(w) == usage[w] > 0 /\ usage[w] + 1 < MaxRequests

\* "currentUsage < :maxRequests", which a missing attribute does not meet.
BelowLimit(w) == usage[w] > 0 /\ usage[w] < MaxRequests

Add(w) == usage' = [usage EXCEPT ![w] = @ + 1]

Update(c) ==
  /\ At(c, "update")
  /\ \/ BelowLimit(Window(c)) /\ Add(Window(c)) /\ Becomes(c, "admitted")
     \/ ~BelowLimit(Window(c)) /\ Becomes(c, "missed") /\ UNCHANGED usage
  /\ UNCHANGED now

UpdateUnanswered(c) ==
  /\ Failures
  /\ At(c, "update")
  /\ BelowLimit(Window(c))
  /\ Add(Window(c))
  /\ UNCHANGED <<now, call>>

(***************************************************************************)
(* createRecord                                                            *)
(***************************************************************************)
Create(c) ==
  /\ At(c, "missed")
  /\ ReadsClock(c, "put")
  /\ UNCHANGED <<now, usage>>

\* Altered: the PutItem has no condition.
MissingUnchecked(w) == TRUE

\* attribute_not_exists(pk) AND attribute_not_exists(sk)
Missing(w) == usage[w] = 0

Insert(w) == usage' = [usage EXCEPT ![w] = 1]

Put(c) ==
  /\ At(c, "put")
  /\ \/ Missing(Window(c)) /\ Insert(Window(c)) /\ Becomes(c, "admitted")
     \/ ~Missing(Window(c)) /\ Becomes(c, "exists") /\ UNCHANGED usage
  /\ UNCHANGED now

PutUnanswered(c) ==
  /\ Failures
  /\ At(c, "put")
  /\ Missing(Window(c))
  /\ Insert(Window(c))
  /\ UNCHANGED <<now, call>>

\* A request fails for good or the Lambda is gone: the caller is refused.
Fail(c) ==
  /\ Failures
  /\ call[c].pc \in Waiting
  /\ Becomes(c, "failed")
  /\ UNCHANGED <<now, usage>>

(***************************************************************************)
(* The clock, and DynamoDB's expiry of records: validateRateLimit has a    *)
(* record outlive its window by a minute, longer than a request is under   *)
(* way to DynamoDB.                                                        *)
(***************************************************************************)
Tick ==
  /\ now < LastWindow
  /\ now' = now + 1
  /\ UNCHANGED <<usage, call>>

InUse(w) == \E c \in Calls : call[c].pc \in {"update", "put"} /\ Window(c) = w

\* Altered: the ttl is shorter than the window.
ExpireEarly(w) ==
  /\ w <= now
  /\ usage[w] > 0
  /\ ~InUse(w)
  /\ usage' = [usage EXCEPT ![w] = 0]
  /\ UNCHANGED <<now, call>>

Expire(w) ==
  /\ w < now
  /\ usage[w] > 0
  /\ ~InUse(w)
  /\ usage' = [usage EXCEPT ![w] = 0]
  /\ UNCHANGED <<now, call>>

Step(c) ==
  \/ Increment(c) \/ Update(c) \/ UpdateUnanswered(c)
  \/ Create(c) \/ Put(c) \/ PutUnanswered(c) \/ Fail(c)

Next ==
  \/ \E c \in Calls : Step(c)
  \/ Tick
  \/ \E w \in Windows : Expire(w)

Spec == Init /\ [][Next]_vars

\* A call that has begun goes on (Node resumes it after each await), and time
\* does; nobody has to begin a call.
Progress(c) == ~At(c, "idle") /\ Step(c)
FairSpec == Spec /\ WF_vars(Tick) /\ \A c \in Calls : WF_vars(Progress(c))

(***************************************************************************)
(* Properties                                                              *)
(***************************************************************************)
Admitted(w) == {c \in Calls : At(c, "admitted") /\ Window(c) = w}

\* No window ever lets more than maxRequests calls through, whichever Lambdas
\* race to make its record, whatever answers are lost and when it expires.
WithinLimit == \A w \in Windows : Cardinality(Admitted(w)) <= MaxRequests

\* As long as a window's record is kept it counts every call it admitted: no
\* increment is lost to another, and the record is never made a second time.
EveryoneCounted ==
  \A w \in Windows : usage[w] > 0 => Cardinality(Admitted(w)) <= usage[w]

\* A call is left without an answer only while its window is full: the calls
\* that lose the race to make the record, or meet a new window between their
\* two requests, are admitted as long as the limit allows.
WaitingOnlyWhenFull ==
  \A c \in Calls :
    (call[c].pc \in Waiting) ~> (call[c].pc \in Answered \/ usage[now] = MaxRequests)

=============================================================================
