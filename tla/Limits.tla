------------------------------- MODULE Limits -------------------------------
(***************************************************************************)
(* The limits that look at the clock (stages/limits.py): the loop detector *)
(* over the bounded history with its time stamps, and the token bucket,    *)
(* whose acquire is taken apart statement by statement.  Callers issue     *)
(* calls of one tool, one principal and one agent, hence of one bucket.    *)
(* On one event loop a caller keeps its turn from the detector to the      *)
(* record, because none of these stages suspends; synchronous wrappers run *)
(* before on private loops in threads (adapters/wrap.py), and interleave.  *)
(* Tokens are scaled so that Rate of them come in per tick.                *)
(***************************************************************************)
EXTENDS Integers, Sequences, FiniteSets

CONSTANTS
    Callers,        \* coroutines of one loop, or threads
    Inputs,         \* argument objects, told apart by hash_args
    Burst, Rate,    \* of the TokenBucketLimiter
    Cost,           \* tokens per call: the 1.0 of acquire
    MaxRepeats, Window,     \* of the LoopDetectStage
    RecentMax,      \* maxlen of the recent_calls deque
    Privacies,      \* whether callers run on private loops: a set of choices
    MaxClock, MaxAdmitted,  \* bounds on time and on the calls admitted, by private
    Nobody

ASSUME LimitsAssumption ==
    /\ Nobody \notin Callers
    /\ Burst \in Nat /\ Rate \in Nat /\ Cost \in Nat \ {0}
    /\ MaxRepeats \in Nat /\ Window \in Nat /\ RecentMax \in Nat \ {0}
    /\ Privacies \subseteq BOOLEAN
    /\ MaxClock \in [BOOLEAN -> Nat] /\ MaxAdmitted \in [BOOLEAN -> Nat]

VARIABLES
    private,    \* callers run on private loops in threads
    clock,      \* time.monotonic
    table,      \* who made the bucket that _buckets holds, or Nobody
    bucket,     \* the _Bucket each caller made, if it made one
    at,         \* the statement each caller is at
    frame,      \* its locals: now, b, the tokens computed, its arguments
    recent,     \* session.recent_calls, the oldest first
    passes,     \* history: now of every acquire that returned True
    records,    \* history: every call recorded, never forgotten
    told        \* history: the last refusal since a call passed, if there is one

vars == <<private, clock, table, bucket, at, frame, recent, passes, records, told>>

Statements == {"idle", "now", "get", "create", "load", "store", "stamp", "test", "record"}
Entry == [args : Inputs, ts : Nat]
FrameType == [now : Nat, b : Callers \cup {Nobody}, tokens : Int, args : Inputs]
Refusal == [at : Nat, missing : Int]

TypeOK ==
    /\ private \in BOOLEAN
    /\ clock \in Nat
    /\ table \in Callers \cup {Nobody}
    /\ bucket \in [Callers -> [tokens : Int, updated : Nat]]
    /\ at \in [Callers -> Statements]
    /\ frame \in [Callers -> FrameType]
    /\ recent \in Seq(Entry) /\ Len(recent) <= RecentMax
    /\ passes \in Seq(Nat)
    /\ records \in Seq(Entry)
    /\ told \in SUBSET Refusal

\* The locals before acquire, for a call with arguments a.
NewFrame(a) == [now |-> 0, b |-> Nobody, tokens |-> 0, args |-> a]

Init ==
    /\ private \in Privacies
    /\ clock = 0
    /\ table = Nobody
    /\ bucket = [t \in Callers |-> [tokens |-> Burst, updated |-> 0]]
    /\ at = [t \in Callers |-> "idle"]
    /\ frame \in [Callers -> {NewFrame(a) : a \in Inputs}]
    /\ recent = <<>> /\ passes = <<>> /\ records = <<>>
    /\ told = {}

Goto(t, s) == at' = [at EXCEPT ![t] = s]
Turn(t) == private \/ \A u \in Callers \ {t} : at[u] = "idle"

\* The caller is done with this call; its next one may have any arguments.
NextCall(t) ==
    /\ \E a \in Inputs : frame' = [frame EXCEPT ![t] = NewFrame(a)]
    /\ Goto(t, "idle")

Tick ==
    /\ clock < MaxClock[private]
    /\ clock' = clock + 1
    /\ UNCHANGED <<private, table, bucket, at, frame, recent, passes, records, told>>

-----------------------------------------------------------------------------
(* LoopDetectStage.before, and record_call once the call is admitted. *)

\* Positions of the identical calls not older than the window.
Repeats(history, a) ==
    {i \in DOMAIN history : history[i].args = a /\ clock - history[i].ts <= Window}

\* Mutant: off by one.
DetectLate(t) ==
    /\ at[t] = "idle" /\ Turn(t) /\ Len(passes) < MaxAdmitted[private]
    /\ Cardinality(Repeats(recent, frame[t].args)) <= MaxRepeats
    /\ Goto(t, "now")
    /\ UNCHANGED <<private, clock, table, bucket, frame, recent, passes, records, told>>

\* A call the detector denies changes nothing: only the others are steps.
Detect(t) ==
    /\ at[t] = "idle" /\ Turn(t) /\ Len(passes) < MaxAdmitted[private]
    /\ Cardinality(Repeats(recent, frame[t].args)) < MaxRepeats
    /\ Goto(t, "now")
    /\ UNCHANGED <<private, clock, table, bucket, frame, recent, passes, records, told>>

\* Mutant: a list, not a deque of maxlen.
RecordUnbounded(t) ==
    LET e == [args |-> frame[t].args, ts |-> clock]
    IN  /\ at[t] = "record"
        /\ recent' = Append(recent, e)
        /\ records' = Append(records, e)
        /\ NextCall(t)
        /\ UNCHANGED <<private, clock, table, bucket, passes, told>>

\* Mutant: the deque forgets one call too early.
RecordForgetful(t) ==
    LET e == [args |-> frame[t].args, ts |-> clock]
    IN  /\ at[t] = "record"
        /\ recent' = Append(IF Len(recent) + 1 = RecentMax THEN Tail(recent) ELSE recent, e)
        /\ records' = Append(records, e)
        /\ NextCall(t)
        /\ UNCHANGED <<private, clock, table, bucket, passes, told>>

Record(t) ==
    LET e == [args |-> frame[t].args, ts |-> clock]
    IN  /\ at[t] = "record"
        /\ recent' = Append(IF Len(recent) = RecentMax THEN Tail(recent) ELSE recent, e)
        /\ records' = Append(records, e)
        /\ NextCall(t)
        /\ UNCHANGED <<private, clock, table, bucket, passes, told>>

-----------------------------------------------------------------------------
(* TokenBucketLimiter.acquire. *)

ReadClock(t) ==
    /\ at[t] = "now"
    /\ frame' = [frame EXCEPT ![t].now = clock]
    /\ Goto(t, "get")
    /\ UNCHANGED <<private, clock, table, bucket, recent, passes, records, told>>

GetBucket(t) ==
    /\ at[t] = "get"
    /\ frame' = [frame EXCEPT ![t].b = table]
    /\ Goto(t, IF table = Nobody THEN "create" ELSE "load")
    /\ UNCHANGED <<private, clock, table, bucket, recent, passes, records, told>>

\* A full bucket; it replaces one that another thread put there meanwhile.
CreateBucket(t) ==
    /\ at[t] = "create"
    /\ bucket' = [bucket EXCEPT ![t] = [tokens |-> Burst, updated |-> frame[t].now]]
    /\ table' = t
    /\ frame' = [frame EXCEPT ![t].b = t]
    /\ Goto(t, "load")
    /\ UNCHANGED <<private, clock, recent, passes, records, told>>

\* Mutant: a bucket that rests longer than it takes to fill overflows.
RefillUncapped(b, now) == b.tokens + (now - b.updated) * Rate

\* What line 52 computes.
Refill(b, now) ==
    LET full == b.tokens + (now - b.updated) * Rate
    IN  IF full < Burst THEN full ELSE Burst

Load(t) ==
    /\ at[t] = "load"
    /\ frame' = [frame EXCEPT ![t].tokens = Refill(bucket[frame[t].b], frame[t].now)]
    /\ Goto(t, "store")
    /\ UNCHANGED <<private, clock, table, bucket, recent, passes, records, told>>

Store(t) ==
    /\ at[t] = "store"
    /\ bucket' = [bucket EXCEPT ![frame[t].b].tokens = frame[t].tokens]
    /\ Goto(t, "stamp")
    /\ UNCHANGED <<private, clock, table, frame, recent, passes, records, told>>

Stamp(t) ==
    /\ at[t] = "stamp"
    /\ bucket' = [bucket EXCEPT ![frame[t].b].updated = frame[t].now]
    /\ Goto(t, "test")
    /\ UNCHANGED <<private, clock, table, frame, recent, passes, records, told>>

\* No other statement comes between the test and the subtraction.
Pass(t) ==
    /\ at[t] = "test"
    /\ bucket[frame[t].b].tokens >= Cost
    /\ bucket' = [bucket EXCEPT ![frame[t].b].tokens = @ - Cost]
    /\ passes' = Append(passes, frame[t].now)
    /\ told' = {}
    /\ Goto(t, "record")
    /\ UNCHANGED <<private, clock, table, frame, recent, records>>

\* Mutant: the refused caller is told half of what it has to wait for.
RefuseShort(t) ==
    LET b == bucket[frame[t].b]
    IN  /\ at[t] = "test" /\ b.tokens < Cost
        /\ told' = {[at |-> frame[t].now, missing |-> (Cost - b.tokens) \div 2]}
        /\ NextCall(t)
        /\ UNCHANGED <<private, clock, table, bucket, recent, passes, records>>

\* The stage denies; retry_after_s is missing / Rate, or infinite if Rate is 0.
Refuse(t) ==
    LET b == bucket[frame[t].b]
    IN  /\ at[t] = "test" /\ b.tokens < Cost
        /\ told' = {[at |-> frame[t].now, missing |-> Cost - b.tokens]}
        /\ NextCall(t)
        /\ UNCHANGED <<private, clock, table, bucket, recent, passes, records>>

Acquire(t) == ReadClock(t) \/ GetBucket(t) \/ CreateBucket(t) \/ Load(t)
                 \/ Store(t) \/ Stamp(t) \/ Pass(t) \/ Refuse(t)

Quiet == clock = MaxClock[private] /\ (\A t \in Callers : at[t] = "idle") /\ UNCHANGED vars

Next == \/ \E t \in Callers : Detect(t) \/ Acquire(t) \/ Record(t)
        \/ Tick
        \/ Quiet

Spec == Init /\ [][Next]_vars

-----------------------------------------------------------------------------
(* What the limits promise. *)

\* The contract of a token bucket: over any stretch of time, at most a burst and
\* what came in at the rate pass, although acquire only keeps the last balance
\* and floors it at a cap.  Stated for callers on one event loop.
RateBound ==
    ~private => \A i, j \in DOMAIN passes :
        i <= j => (j - i + 1) * Cost <= Burst + Rate * (passes[j] - passes[i])

\* retry_after_s is honest on one event loop: who waits as long as the last
\* refusal said, with no call let pass meanwhile, is not refused.  Two exceptions.
\* Callers on private loops: a thread that read now earlier sets b.updated back or
\* stores a balance of before, and what came in meanwhile is not found there (51-56).
\* And a burst below the cost of one call: the time told is finite, yet no call passes.
RetryAfterIsEnough ==
    [][\A r \in told, n \in told' :
          /\ ~private
          /\ Burst >= Cost /\ Rate > 0 /\ (n.at - r.at) * Rate >= r.missing
          => n = r]_vars

\* max_repeats holds of the calls that really were admitted, not only of those
\* the deque remembers, as long as one window has at most RecentMax calls besides
\* the last of them.  One more, and the deque has forgotten one the detector should
\* have counted.  On private loops each other caller may add a call between the
\* check and the record.
Recently == {i \in DOMAIN records : clock - records[i].ts <= Window}
LoopBoundOfAll ==
    Cardinality(Recently) <= RecentMax + 1 =>
        \A a \in Inputs : Cardinality(Repeats(records, a))
            <= MaxRepeats + (IF private THEN Cardinality(Callers) - 1 ELSE 0)
=============================================================================
