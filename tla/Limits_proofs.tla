---------------------------- MODULE Limits_proofs ----------------------------
(***************************************************************************)
(* On one event loop the token bucket keeps its contract and retry_after   *)
(* is honest, for every burst, rate and cost, any number of callers and    *)
(* any passage of time; the loop detector keeps its bound for all windows  *)
(* and lengths of the history, in threads as well.                         *)
(***************************************************************************)
EXTENDS Limits, FiniteSetTheorems, SequenceTheorems, TLAPS

-----------------------------------------------------------------------------
(* Types. *)

\* From the lookup on, a caller has a bucket, its own or another's.
Holding == {"load", "store", "stamp", "test"}
TypeInv == TypeOK /\ \A t \in Callers : at[t] \in Holding => frame[t].b \in Callers

Bucket == [tokens : Int, updated : Nat]

LEMMA Distributes ==
  ASSUME NEW a \in Int, NEW b \in Int, NEW c \in Int
  PROVE  /\ a * (b + c) = a * b + a * c /\ (b + c) * a = b * a + c * a
         /\ a * b \in Int /\ a * b = b * a
  OBVIOUS

LEMMA FramesTyped ==
  ASSUME TypeOK, NEW t \in Callers
  PROVE  /\ \A a \in Inputs : [frame EXCEPT ![t] = NewFrame(a)] \in [Callers -> FrameType]
         /\ frame[t].now \in Nat /\ frame[t].b \in Callers \cup {Nobody}
         /\ frame[t].tokens \in Int /\ frame[t].args \in Inputs
         /\ \A u \in Callers : bucket[u].tokens \in Int /\ bucket[u].updated \in Nat
         /\ Burst \in Nat /\ Rate \in Nat /\ Cost \in Nat
  <1>1. frame \in [Callers -> FrameType] /\ frame[t] \in FrameType
    BY DEF TypeOK
  <1>2. \A a \in Inputs : NewFrame(a) \in FrameType
    BY DEF NewFrame, FrameType
  <1>3. \A a \in Inputs : [frame EXCEPT ![t] = NewFrame(a)] \in [Callers -> FrameType]
    BY <1>1, <1>2
  <1>4. /\ frame[t].now \in Nat /\ frame[t].b \in Callers \cup {Nobody}
        /\ frame[t].tokens \in Int /\ frame[t].args \in Inputs
    BY <1>1 DEF FrameType
  <1>5. \A u \in Callers : bucket[u].tokens \in Int /\ bucket[u].updated \in Nat
    BY DEF TypeOK
  <1> QED BY <1>3, <1>4, <1>5, LimitsAssumption

\* The history keeps its type and its bound when a call is recorded.
LEMMA RecordTyped ==
  ASSUME TypeOK, NEW t \in Callers, Record(t)
  PROVE  recent' \in Seq(Entry) /\ Len(recent') <= RecentMax /\ records' \in Seq(Entry)
  <1> DEFINE e == [args |-> frame[t].args, ts |-> clock]
             kept == IF Len(recent) = RecentMax THEN Tail(recent) ELSE recent
  <1>1. e \in Entry
    BY DEF TypeOK, Entry, FrameType
  <1>2. kept \in Seq(Entry) /\ Len(kept) \in Nat /\ Len(kept) < RecentMax
    <2>1. recent \in Seq(Entry) /\ Len(recent) \in Nat /\ Len(recent) <= RecentMax
          /\ RecentMax \in Nat \ {0}
      BY LimitsAssumption, LenProperties DEF TypeOK
    <2>2. CASE Len(recent) = RecentMax
      <3>1. recent # <<>>
        BY <2>1, <2>2
      <3> QED BY <2>1, <2>2, <3>1, HeadTailProperties
    <2>3. CASE Len(recent) # RecentMax
      BY <2>1, <2>3
    <2> QED BY <2>2, <2>3
  <1>3. recent' = Append(kept, e) /\ records' = Append(records, e)
    BY DEF Record
  <1>4. records \in Seq(Entry) /\ RecentMax \in Nat
    BY LimitsAssumption DEF TypeOK
  <1> HIDE DEF e, kept
  <1> QED BY <1>1, <1>2, <1>3, <1>4, AppendProperties

LEMMA Typing == TypeInv /\ [Next]_vars => TypeInv'
  <1> SUFFICES ASSUME TypeInv, [Next]_vars PROVE TypeInv'
    OBVIOUS
  <1> USE DEF TypeInv, TypeOK, Statements, Holding
  <1>1. ASSUME NEW t \in Callers, Detect(t) PROVE TypeInv'
    BY <1>1 DEF Detect, Goto
  <1>2. ASSUME NEW t \in Callers, ReadClock(t) PROVE TypeInv'
    BY <1>2 DEF ReadClock, Goto, FrameType
  <1>3. ASSUME NEW t \in Callers, GetBucket(t) PROVE TypeInv'
    BY <1>3 DEF GetBucket, Goto, FrameType
  <1>4. ASSUME NEW t \in Callers, CreateBucket(t) PROVE TypeInv'
    <2>1. /\ frame' \in [Callers -> FrameType] /\ frame'[t].b \in Callers
          /\ \A u \in Callers \ {t} : frame'[u] = frame[u] /\ at'[u] = at[u]
          /\ at' \in [Callers -> Statements]
      BY <1>4 DEF CreateBucket, Goto, FrameType
    <2>2. [tokens |-> Burst, updated |-> frame[t].now] \in Bucket
      BY FramesTyped DEF Bucket
    <2>3. bucket' \in [Callers -> Bucket]
      BY <1>4, <2>2 DEF CreateBucket, Bucket
    <2> QED BY <1>4, <2>1, <2>3 DEF CreateBucket, Bucket
  <1>5. ASSUME NEW t \in Callers, Load(t) PROVE TypeInv'
    <2>1. frame[t].b \in Callers
      BY <1>5 DEF Load
    <2> DEFINE b == bucket[frame[t].b]
               in == (frame[t].now - b.updated) * Rate
    <2>3. in \in Int /\ b.tokens \in Int /\ Burst \in Int
      <3>4. /\ \A u \in Callers : bucket[u].tokens \in Int /\ bucket[u].updated \in Nat
            /\ frame[t].now \in Nat /\ Rate \in Nat /\ Burst \in Nat
        BY FramesTyped
      <3>5. b.tokens \in Int /\ b.updated \in Nat
        BY <2>1, <3>4
      <3> HIDE DEF b
      <3>0. frame[t].now - b.updated \in Int /\ Rate \in Int
        BY <3>4, <3>5
      <3>1. PICK d, r \in Int : d = frame[t].now - b.updated /\ r = Rate
        BY <3>0
      <3>2. d * r \in Int
        BY Distributes
      <3>3. b.tokens \in Int /\ Burst \in Int
        BY <3>4, <3>5
      <3> QED BY <3>1, <3>2, <3>3
    <2>2. Refill(b, frame[t].now) \in Int
      <3>1. Refill(b, frame[t].now) = IF b.tokens + in < Burst THEN b.tokens + in ELSE Burst
        BY DEF Refill
      <3> HIDE DEF in, b
      <3> QED BY <2>3, <3>1
    <2>4. PICK r \in Int : frame' = [frame EXCEPT ![t].tokens = r]
      <3> HIDE DEF b, in
      <3> QED BY <1>5, <2>2 DEF Load, b
    <2> HIDE DEF b, in
    <2>5. frame' \in [Callers -> FrameType] /\ \A u \in Callers : frame'[u].b = frame[u].b
      <3>1. [frame[t] EXCEPT !.tokens = r] \in FrameType /\ [frame[t] EXCEPT !.tokens = r].b = frame[t].b
        BY DEF FrameType
      <3> QED BY <2>4, <3>1
    <2> QED BY <1>5, <2>1, <2>5 DEF Load, Goto
  <1>6. ASSUME NEW t \in Callers, Store(t) PROVE TypeInv'
    BY <1>6 DEF Store, Goto, FrameType
  <1>7. ASSUME NEW t \in Callers, Stamp(t) PROVE TypeInv'
    BY <1>7 DEF Stamp, Goto, FrameType
  <1>8. ASSUME NEW t \in Callers, Pass(t) PROVE TypeInv'
    <2> DEFINE b == frame[t].b
    <2>0. b \in Callers /\ bucket' = [bucket EXCEPT ![b].tokens = @ - Cost]
      BY <1>8 DEF Pass
    <2>3. bucket[b].tokens - Cost \in Int
      BY <2>0, FramesTyped
    <2> HIDE DEF b
    <2>1. bucket' \in [Callers -> Bucket]
      BY <2>0, <2>3 DEF Bucket
    <2>2. passes' \in Seq(Nat)
      BY <1>8, FramesTyped, AppendProperties DEF Pass
    <2> QED BY <1>8, <2>1, <2>2 DEF Pass, Goto, Bucket
  <1>9. ASSUME NEW t \in Callers, Refuse(t) PROVE TypeInv'
    <2>1. frame[t].b \in Callers
      BY <1>9 DEF Refuse
    <2>2. [at |-> frame[t].now, missing |-> Cost - bucket[frame[t].b].tokens] \in Refusal
      BY <2>1, FramesTyped DEF Refusal
    <2>3. told' \in SUBSET Refusal
      BY <1>9, <2>2 DEF Refuse
    <2>4. frame' \in [Callers -> FrameType] /\ at' = [at EXCEPT ![t] = "idle"]
          /\ \A u \in Callers \ {t} : frame'[u] = frame[u]
      BY <1>9, FramesTyped DEF Refuse, NextCall, Goto
    <2> QED BY <1>9, <2>3, <2>4 DEF Refuse
  <1>10. ASSUME NEW t \in Callers, Record(t) PROVE TypeInv'
    <2>1. recent' \in Seq(Entry) /\ Len(recent') <= RecentMax /\ records' \in Seq(Entry)
      BY <1>10, RecordTyped
    <2>2. frame' \in [Callers -> FrameType] /\ at' = [at EXCEPT ![t] = "idle"]
          /\ \A u \in Callers \ {t} : frame'[u] = frame[u]
      BY <1>10, FramesTyped DEF Record, NextCall, Goto
    <2> QED BY <1>10, <2>1, <2>2 DEF Record
  <1>11. CASE Tick
    BY <1>11 DEF Tick
  <1>12. CASE UNCHANGED vars
    BY <1>12 DEF vars
  <1> QED BY <1>1, <1>2, <1>3, <1>4, <1>5, <1>6, <1>7, <1>8, <1>9, <1>10, <1>11, <1>12
          DEF Next, Acquire, Quiet

LEMMA TypedInitially == Init => TypeInv
  <1> SUFFICES ASSUME Init PROVE TypeInv
    OBVIOUS
  <1>1. frame \in [Callers -> FrameType]
    BY DEF Init, NewFrame, FrameType
  <1>2. <<>> \in Seq(Entry) /\ <<>> \in Seq(Nat) /\ Len(<<>>) = 0
    BY EmptySeq
  <1> QED BY <1>1, <1>2, LimitsAssumption
          DEF Init, TypeInv, TypeOK, Statements, Holding

-----------------------------------------------------------------------------
(* The contract of the bucket. *)

\* On one loop, one caller at a time is between the detector and the record; it
\* uses the bucket that is in the table, and no clock from before its update.
Underway(t) == at[t] \in Statements \ {"idle", "now", "record"}
OneAtATime ==
    /\ \A t, u \in Callers : t # u => at[t] = "idle" \/ at[u] = "idle"
    /\ table = Nobody => passes = <<>>
    /\ \A t \in Callers :
          /\ Underway(t) => frame[t].now <= clock
          /\ at[t] = "create" => table = Nobody
          /\ at[t] \in Holding => frame[t].b = table
          /\ Underway(t) /\ table # Nobody => bucket[table].updated <= frame[t].now
          /\ at[t] = "test" => bucket[table].updated = frame[t].now
    /\ table # Nobody => bucket[table].updated <= clock

\* With balance tok at time now, no stretch up to now has let too much through.
Balanced(tok, now) ==
    /\ tok <= Burst
    /\ \A i \in DOMAIN passes :
          /\ passes[i] <= now
          /\ (Len(passes) - i + 1) * Cost + tok <= Burst + Rate * (now - passes[i])

\* What the balance of the bucket stands for at each statement of acquire.
BalanceInv ==
    /\ table # Nobody /\ (\A t \in Callers : at[t] # "stamp")
          => Balanced(bucket[table].tokens, bucket[table].updated)
    /\ \A t \in Callers : at[t] = "store" => Balanced(frame[t].tokens, frame[t].now)
    /\ \A t \in Callers : at[t] = "stamp" => Balanced(bucket[table].tokens, frame[t].now)

RateInv == TypeInv /\ (~private => RateBound /\ OneAtATime /\ BalanceInv)

\* Time that passes refills at most what Balanced allows for.
LEMMA RefillBalanced ==
  ASSUME TypeOK, NEW u \in Callers, NEW now \in Nat, bucket[u].updated <= now,
         Balanced(bucket[u].tokens, bucket[u].updated)
  PROVE  Balanced(Refill(bucket[u], now), now)
  <1> DEFINE tok == bucket[u].tokens
             upd == bucket[u].updated
             r == Refill(bucket[u], now)
             n == Len(passes)
  <1>1. /\ tok \in Int /\ upd \in Nat /\ Burst \in Nat /\ Rate \in Nat /\ Cost \in Nat
        /\ passes \in Seq(Nat) /\ n \in Nat /\ DOMAIN passes = 1..n
    BY FramesTyped, LenProperties, LimitsAssumption DEF TypeOK
  <1>2. r \in Int /\ r <= Burst /\ r <= tok + (now - upd) * Rate
    BY <1>1 DEF Refill
  <1>3. ASSUME NEW i \in 1..n
        PROVE  passes[i] <= now /\ (n - i + 1) * Cost + r <= Burst + Rate * (now - passes[i])
    <2>1. passes[i] \in Nat /\ passes[i] <= upd
          /\ (n - i + 1) * Cost + tok <= Burst + Rate * (upd - passes[i])
      <3>1. passes[i] \in Nat /\ i \in DOMAIN passes
        BY <1>1, <1>3
      <3>2. Balanced(tok, upd)
        OBVIOUS
      <3> HIDE DEF tok, upd
      <3> QED BY <3>1, <3>2 DEF Balanced
    <2> DEFINE p == passes[i]
               spent == (n - i + 1) * Cost
               old == Rate * (upd - p)
               new == Rate * (now - upd)
    <2>6. p \in Nat /\ upd \in Nat /\ n - i + 1 \in Int
      BY <1>1, <2>1
    <2>10. p <= upd /\ upd <= now
      BY <2>1
    <2> HIDE DEF p, upd
    <2>7. now - p = (now - upd) + (upd - p) /\ now - upd \in Int /\ upd - p \in Int
      BY <2>6
    <2>2. spent \in Int /\ old \in Int /\ new \in Int /\ (now - upd) * Rate = new
      BY <1>1, <2>6, <2>7, Distributes
    <2>3. Rate * (now - p) = new + old
      BY <1>1, <2>7, Distributes
    <2> HIDE DEF spent, old, new, tok, r
    <2>4. spent + tok <= Burst + old /\ r <= tok + new
      BY <1>2, <2>1, <2>2 DEF spent, old, new, p, upd
    <2>5. spent + r <= Burst + (new + old)
      BY <1>1, <1>2, <2>2, <2>4
    <2>8. spent + r <= Burst + Rate * (now - p)
      BY <2>3, <2>5
    <2>9. p <= now
      BY <2>6, <2>10
    <2> QED BY <2>8, <2>9 DEF spent, p
  <1> QED BY <1>1, <1>2, <1>3 DEF Balanced

\* A call that passes keeps the balance, and ends no stretch that is too busy.
LEMMA PassBalanced ==
  ASSUME TypeOK, RateBound, ~private, NEW tok \in Int, NEW now \in Nat, tok >= Cost,
         Balanced(tok, now), passes' = Append(passes, now), private' = private
  PROVE  RateBound' /\ Balanced(tok - Cost, now)'
  <1> DEFINE n == Len(passes)
             q == Append(passes, now)
  <1>1. /\ Burst \in Nat /\ Rate \in Nat /\ Cost \in Nat
        /\ passes \in Seq(Nat) /\ n \in Nat /\ DOMAIN passes = 1..n
    BY LenProperties, LimitsAssumption DEF TypeOK
  <1>2. /\ q \in Seq(Nat) /\ Len(q) = n + 1 /\ DOMAIN q = 1..(n + 1) /\ q[n + 1] = now
        /\ \A i \in 1..n : q[i] = passes[i] /\ q[i] \in Nat
    BY <1>1, AppendProperties
  <1> HIDE DEF n, q
  <1>3. ASSUME NEW i \in 1..n
        PROVE  /\ q[i] <= now /\ (n - i + 1) * Cost + tok <= Burst + Rate * (now - q[i])
               /\ (n + 1 - i + 1) * Cost = (n - i + 1) * Cost + Cost
               /\ (n - i + 1) * Cost \in Int /\ Rate * (now - q[i]) \in Int
    <2>1. q[i] <= now /\ (n - i + 1) * Cost + tok <= Burst + Rate * (now - q[i])
      BY <1>1, <1>2 DEF Balanced, n
    <2>2. n - i + 1 \in Int /\ n + 1 - i + 1 = (n - i + 1) + 1 /\ now - q[i] \in Int
      BY <1>1, <1>2
    <2>3. ((n - i + 1) + 1) * Cost = (n - i + 1) * Cost + 1 * Cost /\ 1 * Cost = Cost
      BY <1>1, <2>2, Distributes
    <2> QED BY <1>1, <2>1, <2>2, <2>3
  <1>4. Balanced(tok - Cost, now)'
    <2>1. ASSUME NEW i \in 1..(n + 1)
          PROVE  /\ q[i] <= now
                 /\ (n + 1 - i + 1) * Cost + (tok - Cost) <= Burst + Rate * (now - q[i])
      <3>1. CASE i = n + 1
        BY <1>1, <1>2, <3>1 DEF Balanced
      <3>2. CASE i \in 1..n
        <4>1. /\ q[i] <= now /\ (n - i + 1) * Cost + tok <= Burst + Rate * (now - q[i])
              /\ (n + 1 - i + 1) * Cost = (n - i + 1) * Cost + Cost
              /\ (n - i + 1) * Cost \in Int /\ Rate * (now - q[i]) \in Int
          BY <1>3, <3>2
        <4> QED BY <1>1, <4>1
      <3> QED BY <1>1, <3>1, <3>2
    <2>2. tok - Cost <= Burst
      BY <1>1 DEF Balanced
    <2>3. passes' = q /\ Len(q) = n + 1 /\ DOMAIN q = 1..(n + 1)
      BY <1>2 DEF q
    <2>4. ASSUME NEW i \in DOMAIN q
          PROVE  q[i] <= now /\ (Len(q) - i + 1) * Cost + (tok - Cost) <= Burst + Rate * (now - q[i])
      <3>1. i \in 1..(n + 1)
        BY <2>3
      <3> DEFINE length == Len(q)
      <3>4. length = n + 1
        BY <2>3
      <3> HIDE DEF length
      <3>2. (length - i + 1) * Cost = (n + 1 - i + 1) * Cost
        BY <1>1, <3>1, <3>4
      <3>3. /\ q[i] <= now
            /\ (n + 1 - i + 1) * Cost + (tok - Cost) <= Burst + Rate * (now - q[i])
        BY <2>1, <3>1
      <3> QED BY <3>2, <3>3 DEF length
    <2> QED BY <2>2, <2>3, <2>4 DEF Balanced
  <1>5. RateBound'
    <2>1. SUFFICES ASSUME NEW i \in 1..(n + 1), NEW j \in 1..(n + 1), i <= j
                   PROVE  (j - i + 1) * Cost <= Burst + Rate * (q[j] - q[i])
      BY <1>2 DEF RateBound, q
    <2>2. CASE j \in 1..n
      <3>1. i \in 1..n
        BY <1>1, <2>1, <2>2
      <3>2. (j - i + 1) * Cost <= Burst + Rate * (passes[j] - passes[i])
        BY <1>1, <2>1, <2>2, <3>1 DEF RateBound
      <3>3. q[i] = passes[i] /\ q[j] = passes[j]
        BY <1>2, <2>2, <3>1
      <3> QED BY <3>2, <3>3
    <2>3. CASE j = n + 1 /\ i \in 1..n
      <3>1. /\ (n - i + 1) * Cost + tok <= Burst + Rate * (now - q[i])
            /\ (n + 1 - i + 1) * Cost = (n - i + 1) * Cost + Cost
            /\ (n - i + 1) * Cost \in Int /\ Rate * (now - q[i]) \in Int
        BY <1>3, <2>3
      <3> QED BY <1>1, <1>2, <2>3, <3>1
    <2>4. CASE j = n + 1 /\ i = n + 1
      <3>1. (j - i + 1) * Cost = Cost /\ Burst + Rate * (q[j] - q[i]) = Burst
        BY <1>1, <1>2, <2>4
      <3>2. Cost <= Burst
        BY <1>1 DEF Balanced
      <3> QED BY <3>1, <3>2
    <2> QED BY <1>1, <2>2, <2>3, <2>4
  <1> QED BY <1>4, <1>5

-----------------------------------------------------------------------------
(* The steps. *)

Step(t) == Detect(t) \/ Acquire(t) \/ Record(t)

\* On one loop nobody else is underway, and nobody else moves.
LEMMA StepsAlone ==
  ASSUME TypeInv, OneAtATime, ~private, NEW t \in Callers, Step(t)
  PROVE  /\ private' = private /\ clock' = clock
         /\ \A u \in Callers \ {t} :
               at[u] = "idle" /\ at'[u] = "idle" /\ frame'[u] = frame[u]
  <1>1. at \in [Callers -> Statements] /\ frame \in [Callers -> FrameType]
    BY DEF TypeInv, TypeOK
  <1>2. private' = private /\ clock' = clock
    BY DEF Step, Acquire, Detect, Record, ReadClock, GetBucket, CreateBucket, Load, Store,
           Stamp, Pass, Refuse
  <1>3. \A u \in Callers \ {t} : at[u] = "idle"
    <2>1. CASE Detect(t)
      BY <2>1 DEF Detect, Turn
    <2>2. CASE at[t] # "idle"
      BY <2>2 DEF OneAtATime
    <2> QED BY <2>1, <2>2 DEF Step, Acquire, Record, ReadClock, GetBucket, CreateBucket, Load,
                              Store, Stamp, Pass, Refuse
  <1>4. \A u \in Callers \ {t} : at'[u] = at[u] /\ frame'[u] = frame[u]
    BY <1>1 DEF Step, Acquire, Detect, Record, ReadClock, GetBucket, CreateBucket, Load, Store,
           Stamp, Pass, Refuse, NextCall, Goto
  <1> QED BY <1>2, <1>3, <1>4

LEMMA LoopsStay == [Next]_vars => private' = private
  <1> SUFFICES ASSUME [Next]_vars PROVE private' = private
    OBVIOUS
  <1>1. ASSUME NEW t \in Callers, Detect(t) \/ Record(t) PROVE private' = private
    BY <1>1 DEF Detect, Record
  <1>2. ASSUME NEW t \in Callers, Acquire(t) PROVE private' = private
    BY <1>2 DEF Acquire, ReadClock, GetBucket, CreateBucket, Load, Store, Stamp, Pass, Refuse
  <1> QED BY <1>1, <1>2 DEF Next, Tick, Quiet, vars

LEMMA RateInductive == RateInv /\ [Next]_vars => RateInv'
  <1> SUFFICES ASSUME RateInv, [Next]_vars, ~private
               PROVE  RateBound' /\ OneAtATime' /\ BalanceInv'
    BY LoopsStay, Typing DEF RateInv
  <1>1. /\ TypeInv /\ TypeOK /\ RateBound /\ OneAtATime /\ BalanceInv /\ TypeInv'
        /\ at \in [Callers -> Statements] /\ frame \in [Callers -> FrameType]
        /\ bucket \in [Callers -> Bucket] /\ clock \in Nat
        /\ table \in Callers \cup {Nobody} /\ Nobody \notin Callers
    BY Typing, LimitsAssumption DEF RateInv, TypeInv, TypeOK, Bucket
  <1>2. ASSUME NEW t \in Callers, Step(t)
        PROVE  /\ private' = private /\ clock' = clock
               /\ \A u \in Callers \ {t} :
                     at[u] = "idle" /\ at'[u] = "idle" /\ frame'[u] = frame[u]
    BY <1>1, <1>2, StepsAlone
  <1> USE DEF Statements, Holding, Underway
  <1>3. ASSUME NEW t \in Callers, Detect(t) PROVE RateBound' /\ OneAtATime' /\ BalanceInv'
    <2>1. Step(t)
      BY <1>3 DEF Step
    <2>2. /\ at[t] = "idle" /\ at'[t] = "now" /\ frame' = frame
          /\ UNCHANGED <<private, clock, table, bucket, passes>>
      BY <1>1, <1>3 DEF Detect, Goto
    <2>3. RateBound'
      BY <1>1, <2>2 DEF RateBound
    <2>4. OneAtATime'
      BY <1>1, <1>2, <2>1, <2>2 DEF OneAtATime
    <2>5. BalanceInv'
      BY <1>1, <1>2, <2>1, <2>2 DEF BalanceInv, Balanced
    <2> QED BY <2>3, <2>4, <2>5
  <1>4. ASSUME NEW t \in Callers, Record(t) \/ Refuse(t)
        PROVE  RateBound' /\ OneAtATime' /\ BalanceInv'
    <2>1. Step(t)
      BY <1>4 DEF Step, Acquire
    <2>2. /\ at[t] \in {"record", "test"} /\ at'[t] = "idle"
          /\ UNCHANGED <<private, clock, table, bucket, passes>>
      BY <1>1, <1>4 DEF Record, Refuse, NextCall, Goto
    <2>3. RateBound'
      BY <1>1, <2>2 DEF RateBound
    <2>4. OneAtATime'
      BY <1>1, <1>2, <2>1, <2>2 DEF OneAtATime
    <2>5. BalanceInv'
      BY <1>1, <1>2, <2>1, <2>2 DEF BalanceInv, Balanced
    <2> QED BY <2>3, <2>4, <2>5
  <1>5. ASSUME NEW t \in Callers, ReadClock(t) PROVE RateBound' /\ OneAtATime' /\ BalanceInv'
    <2>1. Step(t)
      BY <1>5 DEF Step, Acquire
    <2>2. /\ at[t] = "now" /\ at'[t] = "get" /\ frame'[t].now = clock
          /\ UNCHANGED <<private, clock, table, bucket, passes>>
      BY <1>1, <1>5 DEF ReadClock, Goto, FrameType
    <2>3. RateBound'
      BY <1>1, <2>2 DEF RateBound
    <2>4. OneAtATime'
      BY <1>1, <1>2, <2>1, <2>2 DEF OneAtATime
    <2>5. BalanceInv'
      BY <1>1, <1>2, <2>1, <2>2 DEF BalanceInv, Balanced
    <2> QED BY <2>3, <2>4, <2>5
  <1>6. ASSUME NEW t \in Callers, GetBucket(t) PROVE RateBound' /\ OneAtATime' /\ BalanceInv'
    <2>1. Step(t)
      BY <1>6 DEF Step, Acquire
    <2>2. /\ at[t] = "get" /\ at'[t] = IF table = Nobody THEN "create" ELSE "load"
          /\ frame'[t].now = frame[t].now /\ frame'[t].b = table
          /\ UNCHANGED <<private, clock, table, bucket, passes>>
      BY <1>1, <1>6 DEF GetBucket, Goto, FrameType
    <2>3. RateBound'
      BY <1>1, <2>2 DEF RateBound
    <2>4. OneAtATime'
      BY <1>1, <1>2, <2>1, <2>2 DEF OneAtATime
    <2>5. BalanceInv'
      BY <1>1, <1>2, <2>1, <2>2 DEF BalanceInv, Balanced
    <2> QED BY <2>3, <2>4, <2>5
  <1>7. ASSUME NEW t \in Callers, CreateBucket(t)
        PROVE  RateBound' /\ OneAtATime' /\ BalanceInv'
    <2>1. Step(t)
      BY <1>7 DEF Step, Acquire
    <2>2. /\ at[t] = "create" /\ at'[t] = "load" /\ table' = t
          /\ frame'[t].now = frame[t].now /\ frame'[t].b = t
          /\ bucket'[t].tokens = Burst /\ bucket'[t].updated = frame[t].now
          /\ UNCHANGED <<private, clock, passes>>
      BY <1>1, <1>7 DEF CreateBucket, Goto, FrameType, Bucket
    <2>3. RateBound'
      BY <1>1, <2>2 DEF RateBound
    <2>6. passes = <<>> /\ frame[t].now <= clock /\ frame[t].now \in Nat /\ Burst \in Nat
      BY <1>1, <2>2, FramesTyped DEF OneAtATime
    <2>4. OneAtATime'
      BY <1>1, <1>2, <2>1, <2>2, <2>6 DEF OneAtATime
    <2>5. BalanceInv'
      <3>1. DOMAIN passes' = {}
        BY <2>2, <2>6
      <3>2. Balanced(bucket[table].tokens, bucket[table].updated)'
        BY <2>2, <2>6, <3>1 DEF Balanced
      <3> QED BY <1>1, <1>2, <2>1, <2>2, <3>2 DEF BalanceInv
    <2> QED BY <2>3, <2>4, <2>5
  <1>8. ASSUME NEW t \in Callers, Load(t) PROVE RateBound' /\ OneAtATime' /\ BalanceInv'
    <2>1. Step(t)
      BY <1>8 DEF Step, Acquire
    <2> DEFINE b == frame[t].b
               r == Refill(bucket[b], frame[t].now)
    <2>2. /\ at[t] = "load" /\ at'[t] = "store"
          /\ frame'[t].now = frame[t].now /\ frame'[t].b = b /\ frame'[t].tokens = r
          /\ UNCHANGED <<private, clock, table, bucket, passes>>
      BY <1>1, <1>8 DEF Load, Goto, FrameType
    <2>3. RateBound'
      BY <1>1, <2>2 DEF RateBound
    <2>4. OneAtATime'
      BY <1>1, <1>2, <2>1, <2>2 DEF OneAtATime
    <2>6. /\ b \in Callers /\ table = b /\ bucket[b].updated <= frame[t].now
          /\ frame[t].now \in Nat
      BY <1>1, <2>2, FramesTyped DEF TypeInv, OneAtATime
    <2>7. Balanced(bucket[b].tokens, bucket[b].updated)
      BY <1>1, <1>2, <2>1, <2>2, <2>6 DEF BalanceInv
    <2>8. Balanced(r, frame[t].now)
      BY <1>1, <2>6, <2>7, RefillBalanced
    <2> HIDE DEF r
    <2>9. Balanced(frame[t].tokens, frame[t].now)'
      BY <2>2, <2>8 DEF Balanced
    <2>10. Balanced(bucket[table].tokens, bucket[table].updated)'
      BY <2>2, <2>6, <2>7 DEF Balanced
    <2>5. BalanceInv'
      BY <1>2, <2>1, <2>2, <2>9, <2>10 DEF BalanceInv
    <2> QED BY <2>3, <2>4, <2>5
  <1>9. ASSUME NEW t \in Callers, Store(t) PROVE RateBound' /\ OneAtATime' /\ BalanceInv'
    <2>1. Step(t)
      BY <1>9 DEF Step, Acquire
    <2>2. /\ at[t] = "store" /\ at'[t] = "stamp" /\ frame' = frame /\ frame[t].b = table
          /\ table \in Callers
          /\ bucket'[table].tokens = frame[t].tokens /\ bucket'[table].updated = bucket[table].updated
          /\ UNCHANGED <<private, clock, table, passes>>
      BY <1>1, <1>9 DEF Store, Goto, Bucket, TypeInv, OneAtATime
    <2>3. RateBound'
      BY <1>1, <2>2 DEF RateBound
    <2>4. OneAtATime'
      BY <1>1, <1>2, <2>1, <2>2 DEF OneAtATime
    <2>6. Balanced(frame[t].tokens, frame[t].now)
      BY <1>1, <2>2 DEF BalanceInv
    <2>7. Balanced(bucket[table].tokens, frame[t].now)'
      BY <2>2, <2>6 DEF Balanced
    <2>5. BalanceInv'
      BY <1>2, <2>1, <2>2, <2>7 DEF BalanceInv
    <2> QED BY <2>3, <2>4, <2>5
  <1>10. ASSUME NEW t \in Callers, Stamp(t) PROVE RateBound' /\ OneAtATime' /\ BalanceInv'
    <2>1. Step(t)
      BY <1>10 DEF Step, Acquire
    <2>2. /\ at[t] = "stamp" /\ at'[t] = "test" /\ frame' = frame /\ frame[t].b = table
          /\ table \in Callers
          /\ bucket'[table].tokens = bucket[table].tokens /\ bucket'[table].updated = frame[t].now
          /\ UNCHANGED <<private, clock, table, passes>>
      BY <1>1, <1>10 DEF Stamp, Goto, Bucket, TypeInv, OneAtATime
    <2>3. RateBound'
      BY <1>1, <2>2 DEF RateBound
    <2>8. frame[t].now <= clock /\ frame[t].now \in Nat
      BY <1>1, <2>2, FramesTyped DEF OneAtATime
    <2>4. OneAtATime'
      BY <1>1, <1>2, <2>1, <2>2, <2>8 DEF OneAtATime
    <2>6. Balanced(bucket[table].tokens, frame[t].now)
      BY <1>1, <2>2 DEF BalanceInv
    <2>7. Balanced(bucket[table].tokens, bucket[table].updated)'
      BY <2>2, <2>6 DEF Balanced
    <2>5. BalanceInv'
      BY <1>2, <2>1, <2>2, <2>7 DEF BalanceInv
    <2> QED BY <2>3, <2>4, <2>5
  <1>11. ASSUME NEW t \in Callers, Pass(t) PROVE RateBound' /\ OneAtATime' /\ BalanceInv'
    <2>1. Step(t)
      BY <1>11 DEF Step, Acquire
    <2>8. PICK tok \in Int, now \in Nat : tok = bucket[table].tokens /\ now = frame[t].now
      BY <1>1, <1>11, FramesTyped DEF Pass, TypeInv, OneAtATime
    <2>2. /\ at[t] = "test" /\ at'[t] = "record" /\ frame' = frame /\ frame[t].b = table
          /\ table \in Callers /\ tok >= Cost /\ bucket[table].updated = now
          /\ bucket'[table].tokens = tok - Cost
          /\ bucket'[table].updated = bucket[table].updated
          /\ passes' = Append(passes, now)
          /\ UNCHANGED <<private, clock, table>>
      BY <1>1, <1>11, <2>8 DEF Pass, Goto, Bucket, TypeInv, OneAtATime
    <2>4. OneAtATime'
      BY <1>1, <1>2, <2>1, <2>2, <2>8 DEF OneAtATime
    <2>5. Balanced(tok, now)
      BY <1>1, <1>2, <2>1, <2>2, <2>8 DEF BalanceInv
    <2>6. RateBound' /\ Balanced(tok - Cost, now)'
      BY <1>1, <2>2, <2>5, PassBalanced
    <2>9. Balanced(bucket[table].tokens, bucket[table].updated)'
      BY <2>2, <2>6 DEF Balanced
    <2>7. BalanceInv'
      BY <1>2, <2>1, <2>2, <2>9 DEF BalanceInv
    <2> QED BY <2>4, <2>6, <2>7
  <1>12. CASE Tick
    <2>1. clock' = clock + 1 /\ UNCHANGED <<private, table, bucket, at, frame, passes>>
      BY <1>12 DEF Tick
    <2>2. RateBound' /\ BalanceInv'
      BY <1>1, <2>1 DEF RateBound, BalanceInv, Balanced
    <2>3. OneAtATime'
      <3>1. \A u \in Callers : frame[u].now \in Nat /\ bucket[u].updated \in Nat
        BY <1>1, FramesTyped
      <3> QED BY <1>1, <2>1, <3>1 DEF OneAtATime
    <2> QED BY <2>2, <2>3
  <1>13. CASE UNCHANGED vars
    BY <1>1, <1>13 DEF vars, RateBound, OneAtATime, BalanceInv, Balanced
  <1> QED BY <1>3, <1>4, <1>5, <1>6, <1>7, <1>8, <1>9, <1>10, <1>11, <1>12, <1>13
          DEF Next, Acquire, Quiet

LEMMA RateInitially == Init => RateInv
  <1> SUFFICES ASSUME Init PROVE RateInv
    OBVIOUS
  <1>1. table = Nobody /\ passes = <<>> /\ DOMAIN passes = {} /\ \A t \in Callers : at[t] = "idle"
    BY DEF Init
  <1>2. RateBound /\ OneAtATime /\ BalanceInv
    BY <1>1 DEF RateBound, OneAtATime, BalanceInv, Underway, Holding
  <1> QED BY <1>2, TypedInitially DEF RateInv

-----------------------------------------------------------------------------
(* What a refused caller is told. *)

\* A balance of tok at time now that is full, or at least what refusal r left with
\* all that has come in since.
Waited(tok, now, r) == tok >= Burst \/ tok + r.missing >= Cost + (now - r.at) * Rate

\* What the balance stands for at each statement of acquire, as in BalanceInv.
Waiting ==
    /\ told # {} => table # Nobody
    /\ \A r, s \in told : r = s
    /\ \A r \in told :
          /\ (\A t \in Callers : at[t] # "stamp")
                => Waited(bucket[table].tokens, bucket[table].updated, r)
          /\ \A t \in Callers : at[t] = "store" => Waited(frame[t].tokens, frame[t].now, r)
          /\ \A t \in Callers : at[t] = "stamp" => Waited(bucket[table].tokens, frame[t].now, r)

WaitInv == RateInv /\ (~private => Waiting)

\* What came in since the last update is what has to be waited less.
LEMMA RefillWaited ==
  ASSUME TypeOK, NEW u \in Callers, NEW now \in Nat, bucket[u].updated <= now,
         NEW r \in Refusal, Waited(bucket[u].tokens, bucket[u].updated, r)
  PROVE  Waited(Refill(bucket[u], now), now, r)
  <1>1. PICK tok \in Int, upd \in Nat : tok = bucket[u].tokens /\ upd = bucket[u].updated
    BY FramesTyped
  <1>2. Burst \in Nat /\ Rate \in Nat /\ Cost \in Nat /\ r.at \in Nat /\ r.missing \in Int
    BY LimitsAssumption DEF Refusal
  <1> DEFINE in == (now - upd) * Rate
             before == (upd - r.at) * Rate
  <1>3. /\ now - upd \in Nat /\ upd - r.at \in Int
        /\ now - r.at = (now - upd) + (upd - r.at)
    BY <1>1, <1>2
  <1>4. in \in Nat /\ before \in Int /\ (now - r.at) * Rate = in + before
    BY <1>2, <1>3, Distributes
  <1>5. Refill(bucket[u], now) = IF tok + in < Burst THEN tok + in ELSE Burst
    BY <1>1 DEF Refill
  <1>6. tok >= Burst \/ tok + r.missing >= Cost + before
    BY <1>1 DEF Waited
  <1> HIDE DEF in, before
  <1>7. \/ Refill(bucket[u], now) >= Burst
        \/ Refill(bucket[u], now) + r.missing >= Cost + (in + before)
    BY <1>1, <1>2, <1>4, <1>5, <1>6
  <1> QED BY <1>4, <1>7 DEF Waited

LEMMA WaitInductive == WaitInv /\ [Next]_vars => WaitInv'
  <1> SUFFICES ASSUME WaitInv, [Next]_vars
               PROVE  ~private => Waiting'
    BY LoopsStay, RateInductive DEF WaitInv
  <1>1. /\ RateInv /\ TypeInv /\ TypeOK
        /\ at \in [Callers -> Statements] /\ frame \in [Callers -> FrameType]
        /\ bucket \in [Callers -> Bucket] /\ told \subseteq Refusal
        /\ table \in Callers \cup {Nobody} /\ Nobody \notin Callers
    BY LimitsAssumption DEF WaitInv, RateInv, TypeInv, TypeOK, Bucket
  <1>3. ASSUME ~private PROVE Waiting'
    <2>1. OneAtATime /\ BalanceInv /\ Waiting
      BY <1>3 DEF WaitInv, RateInv
    <2>2. ASSUME NEW t \in Callers, Step(t)
          PROVE  \A u \in Callers \ {t} : at[u] = "idle" /\ at'[u] = "idle"
      BY <1>1, <1>3, <2>1, <2>2, StepsAlone
    <2> USE DEF Statements, Holding, Underway
    <2>3. ASSUME NEW t \in Callers, Detect(t) \/ Record(t) PROVE Waiting'
      <3>1. Step(t)
        BY <2>3 DEF Step
      <3>2. /\ at'[t] \in {"now", "idle"} /\ at[t] \in {"idle", "record"}
            /\ UNCHANGED <<table, bucket, told>>
        BY <1>1, <2>3 DEF Detect, Record, NextCall, Goto
      <3> QED BY <2>1, <2>2, <3>1, <3>2 DEF Waiting
    <2>4. ASSUME NEW t \in Callers, ReadClock(t) \/ GetBucket(t) PROVE Waiting'
      <3>1. Step(t)
        BY <2>4 DEF Step, Acquire
      <3>2. /\ at'[t] \in {"get", "create", "load"} /\ at[t] \in {"now", "get"}
            /\ UNCHANGED <<table, bucket, told>>
        BY <1>1, <2>4 DEF ReadClock, GetBucket, Goto
      <3> QED BY <2>1, <2>2, <3>1, <3>2 DEF Waiting
    <2>5. ASSUME NEW t \in Callers, CreateBucket(t) PROVE Waiting'
      <3>1. told' = told /\ told = {}
        BY <2>1, <2>5 DEF CreateBucket, OneAtATime, Waiting
      <3> QED BY <3>1 DEF Waiting
    <2>6. ASSUME NEW t \in Callers, Load(t) PROVE Waiting'
      <3>1. Step(t)
        BY <2>6 DEF Step, Acquire
      <3>2. /\ at[t] = "load" /\ at'[t] = "store" /\ frame[t].b = table
            /\ frame'[t].now = frame[t].now
            /\ frame'[t].tokens = Refill(bucket[table], frame[t].now)
            /\ UNCHANGED <<table, bucket, told>>
        BY <1>1, <2>1, <2>6 DEF Load, Goto, FrameType, OneAtATime
      <3>3. table \in Callers /\ bucket[table].updated <= frame[t].now /\ frame[t].now \in Nat
        BY <1>1, <2>1, <3>2, FramesTyped DEF TypeInv, OneAtATime
      <3>4. \A r \in told : Waited(bucket[table].tokens, bucket[table].updated, r)
        BY <2>1, <2>2, <3>1, <3>2 DEF Waiting
      <3>5. \A r \in told : Waited(Refill(bucket[table], frame[t].now), frame[t].now, r)
        BY <1>1, <3>3, <3>4, RefillWaited
      <3> QED BY <2>1, <2>2, <3>1, <3>2, <3>4, <3>5 DEF Waiting
    <2>7. ASSUME NEW t \in Callers, Store(t) PROVE Waiting'
      <3>1. Step(t)
        BY <2>7 DEF Step, Acquire
      <3>2. /\ at[t] = "store" /\ at'[t] = "stamp" /\ frame' = frame /\ frame[t].b = table
            /\ table \in Callers /\ bucket'[table].tokens = frame[t].tokens
            /\ UNCHANGED <<table, told>>
        BY <1>1, <2>1, <2>7 DEF Store, Goto, Bucket, TypeInv, OneAtATime
      <3> QED BY <2>1, <2>2, <3>1, <3>2 DEF Waiting
    <2>8. ASSUME NEW t \in Callers, Stamp(t) PROVE Waiting'
      <3>1. Step(t)
        BY <2>8 DEF Step, Acquire
      <3>2. /\ at[t] = "stamp" /\ at'[t] = "test" /\ frame' = frame /\ frame[t].b = table
            /\ table \in Callers /\ bucket'[table].tokens = bucket[table].tokens
            /\ bucket'[table].updated = frame[t].now
            /\ UNCHANGED <<table, told>>
        BY <1>1, <2>1, <2>8 DEF Stamp, Goto, Bucket, TypeInv, OneAtATime
      <3> QED BY <2>1, <2>2, <3>1, <3>2 DEF Waiting
    <2>9. ASSUME NEW t \in Callers, Pass(t) PROVE Waiting'
      BY <2>9 DEF Pass, Waiting
    <2>10. ASSUME NEW t \in Callers, Refuse(t) PROVE Waiting'
      <3>1. Step(t)
        BY <2>10 DEF Step, Acquire
      <3>2. PICK tok \in Int, now \in Nat : tok = bucket[table].tokens /\ now = frame[t].now
        BY <1>1, <2>1, <2>10, FramesTyped DEF Refuse, TypeInv, OneAtATime
      <3>3. /\ at[t] = "test" /\ at'[t] = "idle" /\ frame[t].b = table /\ table # Nobody
            /\ bucket[table].updated = now
            /\ told' = {[at |-> now, missing |-> Cost - tok]}
            /\ UNCHANGED <<table, bucket>>
        BY <1>1, <1>3, <2>1, <2>10, <3>2 DEF Refuse, NextCall, Goto, TypeInv, OneAtATime
      <3>4. Waited(tok, now, [at |-> now, missing |-> Cost - tok])
        <4>1. now - now = 0 /\ 0 * Rate = 0 /\ tok + (Cost - tok) = Cost /\ Cost + 0 = Cost
          BY <3>2, LimitsAssumption
        <4> QED BY <4>1, LimitsAssumption DEF Waited
      <3> QED BY <2>2, <3>1, <3>2, <3>3, <3>4 DEF Waiting
    <2>11. CASE Tick \/ UNCHANGED vars
      BY <2>1, <2>11 DEF Tick, vars, Waiting
    <2> QED BY <2>3, <2>4, <2>5, <2>6, <2>7, <2>8, <2>9, <2>10, <2>11 DEF Next, Acquire, Quiet
  <1> QED BY <1>3

LEMMA WaitInitially == Init => WaitInv
  <1> SUFFICES ASSUME Init PROVE WaitInv
    OBVIOUS
  <1>1. told = {}
    BY DEF Init
  <1> QED BY <1>1, RateInitially DEF WaitInv, Waiting

\* No step refuses a caller that has waited long enough.
LEMMA WaitedPasses ==
  ASSUME WaitInv, ~private, [Next]_vars, NEW r \in told, NEW n \in told',
         Burst >= Cost, (n.at - r.at) * Rate >= r.missing
  PROVE  n = r
  <1>1. /\ RateInv /\ TypeInv /\ TypeOK /\ ~private /\ OneAtATime /\ Waiting /\ r \in Refusal
        /\ at \in [Callers -> Statements]
    BY DEF WaitInv, RateInv, TypeInv, TypeOK
  <1>2. ASSUME NEW t \in Callers, Refuse(t) PROVE FALSE
    <2>1. PICK tok \in Int, now \in Nat : tok = bucket[table].tokens /\ now = frame[t].now
      BY <1>1, <1>2, FramesTyped DEF Refuse, TypeInv, OneAtATime, Holding
    <2>2. /\ at[t] = "test" /\ tok < Cost /\ bucket[table].updated = now
          /\ n = [at |-> now, missing |-> Cost - tok]
      BY <1>1, <1>2, <2>1 DEF Refuse, OneAtATime, Holding
    <2>3. \A u \in Callers : at[u] # "stamp"
      BY <1>1, <2>2 DEF OneAtATime
    <2>4. tok >= Burst \/ tok + r.missing >= Cost + (now - r.at) * Rate
      BY <1>1, <2>1, <2>2, <2>3 DEF Waiting, Waited
    <2>5. /\ Burst \in Nat /\ Rate \in Nat /\ Cost \in Nat
          /\ r.missing \in Int /\ now - r.at \in Int
      BY <1>1, <2>1, LimitsAssumption DEF Refusal
    <2>6. PICK since \in Int : since = (now - r.at) * Rate
      BY <2>5, Distributes
    <2> QED BY <2>1, <2>2, <2>4, <2>5, <2>6
  <1>3. ~ \E t \in Callers : Refuse(t)
    BY <1>2
  <1>4. told' = told \/ told' = {}
    <2>1. ASSUME NEW t \in Callers, Detect(t) \/ Record(t) PROVE told' = told
      BY <2>1 DEF Detect, Record
    <2>2. ASSUME NEW t \in Callers, Acquire(t) PROVE told' = told \/ told' = {}
      BY <1>3, <2>2 DEF Acquire, ReadClock, GetBucket, CreateBucket, Load, Store, Stamp, Pass
    <2> QED BY <2>1, <2>2 DEF Next, Tick, Quiet, vars
  <1> QED BY <1>1, <1>4 DEF Waiting

-----------------------------------------------------------------------------
(* The loop detector. *)

\* Callers that passed the detector with arguments a and are not recorded yet.
Pending(a) == {t \in Callers : at[t] # "idle" /\ frame[t].args = a}

\* By how much the calls underway may outrun the detector: nobody else is on one loop.
Ahead == IF private THEN Cardinality(Callers) - 1 ELSE 0

\* The deque is the end of what was recorded, and time does not run backwards.
Dropped == Len(records) - Len(recent)
Newest ==
    /\ Dropped \in Nat
    /\ Dropped > 0 => Len(recent) = RecentMax
    /\ \A i \in 1..Len(recent) : recent[i] = records[i + Dropped]
    /\ \A i \in 1..Len(records) : records[i].ts <= clock
    /\ \A i, j \in 1..Len(records) : i <= j => records[i].ts <= records[j].ts

\* The calls the deque remembers and those underway are no more than may repeat.
Spaced ==
    \A a \in Inputs :
        Cardinality(Repeats(recent, a)) + Cardinality(Pending(a)) <= MaxRepeats + Ahead

LoopInv == TypeInv /\ Newest /\ Spaced

\* With no call underway, not even the last that the deque dropped makes them more:
\* it was there when the detector let the last of them through.
Late(a) == {i \in Repeats(records, a) : i >= Dropped}
Wider == \A a \in Inputs : Pending(a) = {} => Cardinality(Late(a)) <= MaxRepeats + Ahead

BoundInv == LoopInv /\ Wider

\* Positions that a shift maps into a finite set are no more than that.
LEMMA Shifted ==
  ASSUME NEW T, IsFiniteSet(T), NEW S \in SUBSET Int, NEW d \in Int, \A i \in S : i + d \in T
  PROVE  IsFiniteSet(S) /\ Cardinality(S) <= Cardinality(T)
  <1> DEFINE f == [i \in S |-> i + d]
  <1>1. f \in [S -> T] /\ \A i, j \in S : f[i] = f[j] => i = j
    OBVIOUS
  <1>2. f \in Injection(S, T)
    BY <1>1 DEF Injection, IsInjective
  <1> QED BY <1>2, FS_Injection

LEMMA RepeatsFinite ==
  ASSUME NEW s, NEW n \in Nat, DOMAIN s = 1..n, NEW a
  PROVE  /\ Repeats(s, a) \in SUBSET (1..n) /\ IsFiniteSet(Repeats(s, a))
         /\ Cardinality(Repeats(s, a)) \in Nat
  <1>1. Repeats(s, a) \in SUBSET (1..n)
    BY DEF Repeats
  <1>2. IsFiniteSet(1..n)
    BY FS_Interval
  <1> QED BY <1>1, <1>2, FS_Subset, FS_CardinalityType

LEMMA PendingFinite ==
  ASSUME IsFiniteSet(Callers), NEW a
  PROVE  /\ IsFiniteSet(Pending(a)) /\ Cardinality(Pending(a)) \in Nat
         /\ Cardinality(Pending(a)) <= Cardinality(Callers) /\ Cardinality(Callers) \in Nat
  <1>1. Pending(a) \in SUBSET Callers
    BY DEF Pending
  <1> QED BY <1>1, FS_Subset, FS_CardinalityType

\* Both histories get the entry at their ends; the deque may lose its first.
LEMMA RecordedEntry ==
  ASSUME TypeOK, NEW t \in Callers, Record(t)
  PROVE  \E d \in {0, 1} :
            /\ d = 1 <=> Len(recent) = RecentMax
            /\ Len(recent') = Len(recent) + 1 - d
            /\ recent'[Len(recent')] = [args |-> frame[t].args, ts |-> clock]
            /\ \A i \in 1..Len(recent) - d : recent'[i] = recent[i + d]
            /\ Len(records') = Len(records) + 1
            /\ records'[Len(records')] = [args |-> frame[t].args, ts |-> clock]
            /\ \A i \in 1..Len(records) : records'[i] = records[i]
  <1> DEFINE e == [args |-> frame[t].args, ts |-> clock]
  <1>1. /\ e \in Entry /\ recent \in Seq(Entry) /\ records \in Seq(Entry)
        /\ Len(recent) \in Nat /\ Len(records) \in Nat /\ RecentMax \in Nat \ {0}
    BY LenProperties, LimitsAssumption DEF TypeOK, Entry, FrameType
  <1>2. /\ records' = Append(records, e)
        /\ recent' = Append(IF Len(recent) = RecentMax THEN Tail(recent) ELSE recent, e)
    BY DEF Record
  <1> HIDE DEF e
  <1>3. /\ Len(records') = Len(records) + 1 /\ records'[Len(records')] = e
        /\ \A i \in 1..Len(records) : records'[i] = records[i]
    BY <1>1, <1>2, AppendProperties
  <1>4. CASE Len(recent) = RecentMax
    <2>1. recent # <<>>
      BY <1>1, <1>4
    <2>2. /\ Tail(recent) \in Seq(Entry) /\ Len(Tail(recent)) = Len(recent) - 1
          /\ \A i \in 1..Len(recent) - 1 : Tail(recent)[i] = recent[i + 1]
      BY <1>1, <2>1, HeadTailProperties
    <2>3. /\ Len(recent') = Len(recent) /\ recent'[Len(recent)] = e
          /\ \A i \in 1..Len(recent) - 1 : recent'[i] = recent[i + 1]
      BY <1>1, <1>2, <1>4, <2>2, AppendProperties
    <2> QED BY <1>1, <1>3, <1>4, <2>3 DEF e
  <1>5. CASE Len(recent) # RecentMax
    <2>1. /\ Len(recent') = Len(recent) + 1 /\ recent'[Len(recent')] = e
          /\ \A i \in 1..Len(recent) : recent'[i] = recent[i]
      BY <1>1, <1>2, <1>5, AppendProperties
    <2> QED BY <1>1, <1>3, <1>5, <2>1 DEF e
  <1> QED BY <1>4, <1>5

LEMMA RecordNewest ==
  ASSUME LoopInv, NEW t \in Callers, Record(t)
  PROVE  Newest'
  <1>1. PICK n \in Nat, m \in Nat : n = Len(records) /\ m = Len(recent)
    BY LenProperties DEF LoopInv, TypeInv, TypeOK
  <1>2. PICK d \in {0, 1} :
           /\ d = 1 <=> m = RecentMax
           /\ Len(recent') = m + 1 - d
           /\ recent'[Len(recent')] = [args |-> frame[t].args, ts |-> clock]
           /\ \A i \in 1..m - d : recent'[i] = recent[i + d]
           /\ Len(records') = n + 1
           /\ records'[Len(records')] = [args |-> frame[t].args, ts |-> clock]
           /\ \A i \in 1..n : records'[i] = records[i]
    BY <1>1, RecordedEntry DEF LoopInv, TypeInv
  <1>3. /\ clock \in Nat /\ clock' = clock /\ m <= RecentMax /\ RecentMax \in Nat
        /\ \A i \in 1..n : records[i].ts \in Nat
    <2>1. records \in Seq(Entry) /\ DOMAIN records = 1..n
      BY <1>1, LenProperties DEF LoopInv, TypeInv, TypeOK
    <2>2. \A i \in 1..n : records[i] \in Entry
      BY <2>1, ElementOfSeq
    <2> QED BY <1>1, <2>2, LimitsAssumption DEF LoopInv, TypeInv, TypeOK, Record, Entry
  <1>4. /\ n - m \in Nat
        /\ n - m > 0 => m = RecentMax
        /\ \A i \in 1..m : recent[i] = records[i + (n - m)]
        /\ \A i \in 1..n : records[i].ts <= clock
        /\ \A i, j \in 1..n : i <= j => records[i].ts <= records[j].ts
    BY <1>1 DEF LoopInv, Newest, Dropped
  <1>5. Dropped' = (n - m) + d
    BY <1>1, <1>2 DEF Dropped
  <1>6. Dropped' \in Nat /\ (Dropped' > 0 => Len(recent') = RecentMax)
    BY <1>1, <1>2, <1>3, <1>4, <1>5
  <1>7. ASSUME NEW i \in 1..Len(recent') PROVE recent'[i] = records'[i + Dropped']
    <2>1. CASE i = m + 1 - d
      BY <1>1, <1>2, <1>5, <2>1
    <2>2. CASE i \in 1..m - d
      <3>1. i + d \in 1..m /\ (i + d) + (n - m) \in 1..n /\ i + Dropped' = (i + d) + (n - m)
        BY <1>1, <1>2, <1>4, <1>5, <2>2
      <3> QED BY <1>2, <1>4, <2>2, <3>1
    <2> QED BY <1>1, <1>2, <2>1, <2>2
  <1>8. ASSUME NEW i \in 1..n + 1 PROVE records'[i].ts \in Nat /\ records'[i].ts <= clock
    <2>1. CASE i = n + 1
      BY <1>2, <1>3, <2>1
    <2>2. CASE i \in 1..n
      BY <1>2, <1>3, <1>4, <2>2
    <2> QED BY <1>1, <2>1, <2>2
  <1>9. ASSUME NEW i \in 1..n + 1, NEW j \in 1..n + 1, i <= j
        PROVE  records'[i].ts <= records'[j].ts
    <2>1. CASE j = n + 1
      BY <1>2, <1>8, <2>1
    <2>2. CASE j \in 1..n
      BY <1>1, <1>2, <1>4, <1>9, <2>2
    <2> QED BY <1>1, <2>1, <2>2
  <1> QED BY <1>2, <1>3, <1>6, <1>7, <1>8, <1>9 DEF Newest

\* Recording adds at most the call itself to those the deque remembers.
LEMMA RecordRepeats ==
  ASSUME LoopInv, NEW t \in Callers, Record(t), NEW a
  PROVE  Cardinality(Repeats(recent, a)') <=
            Cardinality(Repeats(recent, a)) + (IF frame[t].args = a THEN 1 ELSE 0)
  <1>1. PICK m \in Nat : m = Len(recent) /\ DOMAIN recent = 1..m
    BY LenProperties DEF LoopInv, TypeInv, TypeOK
  <1>2. PICK d \in {0, 1} :
           /\ Len(recent') = m + 1 - d
           /\ recent'[m + 1 - d] = [args |-> frame[t].args, ts |-> clock]
           /\ \A i \in 1..m - d : recent'[i] = recent[i + d]
           /\ d = 1 <=> m = RecentMax
    BY <1>1, RecordedEntry DEF LoopInv, TypeInv
  <1>3. /\ clock' = clock /\ clock \in Nat /\ RecentMax \in Nat \ {0}
        /\ DOMAIN recent' = 1..m + 1 - d /\ m + 1 - d \in Nat
    <2>1. recent' \in Seq(Entry)
      BY RecordTyped DEF LoopInv, TypeInv
    <2> QED BY <1>1, <1>2, <2>1, LenProperties, LimitsAssumption
            DEF LoopInv, TypeInv, TypeOK, Record
  <1> DEFINE new == Repeats(recent, a)'
             old == Repeats(recent, a)
             last == m + 1 - d
  <1>4. IsFiniteSet(old) /\ Cardinality(old) \in Nat
    BY <1>1, RepeatsFinite
  <1>5. new = {i \in 1..last : recent'[i].args = a /\ clock - recent'[i].ts <= Window}
    BY <1>3 DEF Repeats
  <1>6. old = {i \in 1..m : recent[i].args = a /\ clock - recent[i].ts <= Window}
    BY <1>1 DEF Repeats
  <1> HIDE DEF new, old
  <1>7. new \ {last} \in SUBSET Int /\ d \in Int
        /\ \A i \in new \ {last} : i + d \in old
    <2>1. ASSUME NEW i \in new \ {last} PROVE i \in Int /\ i + d \in old
      <3>1. i \in 1..m - d /\ recent'[i].args = a /\ clock - recent'[i].ts <= Window
        BY <1>1, <1>2, <1>5
      <3>2. recent'[i] = recent[i + d] /\ i + d \in 1..m
        BY <1>1, <1>2, <3>1
      <3> QED BY <1>6, <3>1, <3>2
    <2> QED BY <2>1
  <1>8. IsFiniteSet(new \ {last}) /\ Cardinality(new \ {last}) <= Cardinality(old)
    BY <1>4, <1>7, Shifted
  <1>9. last \in new => frame[t].args = a
    BY <1>2, <1>5
  <1>10. CASE last \in new
    <2>1. new = (new \ {last}) \cup {last}
      BY <1>10
    <2>2. Cardinality(new) = Cardinality(new \ {last}) + 1
      <3>1. last \notin new \ {last}
        OBVIOUS
      <3> QED BY <1>8, <2>1, <3>1, FS_AddElement
    <2> QED BY <1>4, <1>8, <1>9, <1>10, <2>2, FS_CardinalityType DEF new, old
  <1>11. CASE last \notin new
    <2>1. new \ {last} = new
      BY <1>11
    <2>2. Cardinality(new) \in Nat
      BY <1>8, <2>1, FS_CardinalityType
    <2> QED BY <1>4, <1>8, <2>1, <2>2 DEF new, old
  <1> QED BY <1>10, <1>11

LEMMA LoopInductive ==
  ASSUME IsFiniteSet(Callers), Callers # {}
  PROVE  LoopInv /\ [Next]_vars => LoopInv'
  <1> SUFFICES ASSUME LoopInv, [Next]_vars PROVE Newest' /\ Spaced'
    BY Typing DEF LoopInv
  <1>1. PICK n \in Nat, m \in Nat : /\ n = Len(records) /\ m = Len(recent)
                                    /\ DOMAIN recent = 1..m
    BY LenProperties DEF LoopInv, TypeInv, TypeOK
  <1>2. /\ at \in [Callers -> Statements] /\ frame \in [Callers -> FrameType]
        /\ clock \in Nat /\ MaxRepeats \in Nat /\ Newest /\ Spaced
        /\ \A i \in 1..n : records[i].ts \in Nat
        /\ \A i \in 1..m : recent[i].ts \in Nat
    <2>1. records \in Seq(Entry) /\ DOMAIN records = 1..n /\ recent \in Seq(Entry)
      BY <1>1, LenProperties DEF LoopInv, TypeInv, TypeOK
    <2>2. (\A i \in 1..n : records[i] \in Entry) /\ (\A i \in 1..m : recent[i] \in Entry)
      BY <1>1, <2>1, ElementOfSeq
    <2> QED BY <2>2, LimitsAssumption DEF LoopInv, TypeInv, TypeOK, Entry
  <1>3. /\ Ahead \in Nat /\ Ahead' = Ahead /\ Cardinality(Callers) \in Nat
        /\ (private => Ahead + 1 = Cardinality(Callers))
    BY LoopsStay, FS_CardinalityType, FS_EmptySet DEF Ahead
  <1>4. ASSUME NEW a
        PROVE  /\ Cardinality(Repeats(recent, a)) \in Nat /\ Cardinality(Pending(a)) \in Nat
               /\ IsFiniteSet(Repeats(recent, a)) /\ IsFiniteSet(Pending(a))
    BY <1>1, RepeatsFinite, PendingFinite
  <1>5. ASSUME NEW t \in Callers, Detect(t) PROVE Newest' /\ Spaced'
    <2>1. /\ at[t] = "idle" /\ at'[t] = "now" /\ Turn(t)
          /\ \A u \in Callers \ {t} : at'[u] = at[u]
          /\ UNCHANGED <<private, clock, frame, recent, records>>
      BY <1>2, <1>5 DEF Detect, Goto
    <2>2. Newest'
      BY <1>2, <2>1 DEF Newest, Dropped
    <2>3. ASSUME NEW a \in Inputs, a # frame[t].args
          PROVE  Repeats(recent, a)' = Repeats(recent, a) /\ Pending(a)' = Pending(a)
      BY <2>1, <2>3 DEF Repeats, Pending
    <2>4. ASSUME NEW a \in Inputs, a = frame[t].args
          PROVE  Cardinality(Repeats(recent, a)') + Cardinality(Pending(a)') <= MaxRepeats + Ahead
      <3>1. Repeats(recent, a)' = Repeats(recent, a)
        BY <2>1 DEF Repeats
      <3>2. Cardinality(Repeats(recent, a)) < MaxRepeats
        BY <1>5, <2>4 DEF Detect
      <3>3. Cardinality(Pending(a)') \in Nat /\ Cardinality(Pending(a)') <= Ahead + 1
        <4>1. CASE private
          <5>1. Pending(a)' \in SUBSET Callers
            BY DEF Pending
          <5> QED BY <1>3, <4>1, <5>1, FS_Subset, FS_CardinalityType
        <4>2. CASE ~private
          <5>1. Pending(a)' \in SUBSET {t}
            BY <2>1, <4>2 DEF Pending, Turn
          <5>2. IsFiniteSet({t}) /\ Cardinality({t}) = 1
            BY FS_Singleton
          <5>3. IsFiniteSet(Pending(a)') /\ Cardinality(Pending(a)') <= Cardinality({t})
            BY <5>1, <5>2, FS_Subset
          <5>4. Cardinality(Pending(a)') \in Nat
            BY <5>3, FS_CardinalityType
          <5> QED BY <1>3, <5>2, <5>3, <5>4
        <4> QED BY <4>1, <4>2
      <3>4. PICK c \in Nat, p \in Nat : c = Cardinality(Repeats(recent, a)) /\ p = Cardinality(Pending(a)')
        BY <1>4, <3>3
      <3> QED BY <1>2, <1>3, <3>1, <3>2, <3>3, <3>4
    <2>5. Spaced'
      BY <1>2, <1>3, <2>3, <2>4 DEF Spaced
    <2> QED BY <2>2, <2>5
  <1>6. ASSUME NEW t \in Callers, Acquire(t) PROVE Newest' /\ Spaced'
    <2>1. UNCHANGED <<private, clock, recent, records>>
      BY <1>6 DEF Acquire, ReadClock, GetBucket, CreateBucket, Load, Store, Stamp, Pass, Refuse
    <2>2. /\ at[t] # "idle"
          /\ \A u \in Callers \ {t} : at'[u] = at[u] /\ frame'[u].args = frame[u].args
          /\ at'[t] # "idle" => frame'[t].args = frame[t].args
      BY <1>2, <1>6 DEF Acquire, ReadClock, GetBucket, CreateBucket, Load, Store, Stamp, Pass,
                        Refuse, NextCall, Goto, FrameType
    <2>3. Newest'
      BY <1>2, <2>1 DEF Newest, Dropped
    <2>4. ASSUME NEW a
          PROVE  /\ Repeats(recent, a)' = Repeats(recent, a)
                 /\ Cardinality(Pending(a)') \in Nat
                 /\ Cardinality(Pending(a)') <= Cardinality(Pending(a))
      <3>1. Repeats(recent, a)' = Repeats(recent, a)
        BY <2>1 DEF Repeats
      <3>2. Pending(a)' \in SUBSET Pending(a)
        BY <2>2 DEF Pending
      <3> QED BY <1>4, <3>1, <3>2, FS_Subset, FS_CardinalityType
    <2>5. Spaced'
      BY <1>2, <1>3, <1>4, <2>4 DEF Spaced
    <2> QED BY <2>3, <2>5
  <1>7. ASSUME NEW t \in Callers, Record(t) PROVE Newest' /\ Spaced'
    <2>1. Newest'
      BY <1>7, RecordNewest
    <2>2. /\ at[t] # "idle" /\ at'[t] = "idle"
          /\ \A u \in Callers \ {t} : at'[u] = at[u] /\ frame'[u] = frame[u]
      BY <1>2, <1>7 DEF Record, NextCall, Goto
    <2>3. ASSUME NEW a \in Inputs
          PROVE  Cardinality(Repeats(recent, a)') + Cardinality(Pending(a)') <= MaxRepeats + Ahead
      <3>1. Pending(a)' = Pending(a) \ {t}
        BY <2>2 DEF Pending
      <3>2. t \in Pending(a) <=> frame[t].args = a
        BY <2>2 DEF Pending
      <3>3. Cardinality(Pending(a)') =
               Cardinality(Pending(a)) - (IF frame[t].args = a THEN 1 ELSE 0)
        <4>1. Cardinality(Pending(a) \ {t}) =
                 IF t \in Pending(a) THEN Cardinality(Pending(a)) - 1 ELSE Cardinality(Pending(a))
          BY <1>4, FS_RemoveElement
        <4>2. PICK p \in Nat : p = Cardinality(Pending(a))
          BY <1>4
        <4> QED BY <3>1, <3>2, <4>1, <4>2
      <3>4. Cardinality(Repeats(recent, a)') <=
               Cardinality(Repeats(recent, a)) + (IF frame[t].args = a THEN 1 ELSE 0)
        BY <1>7, RecordRepeats
      <3>5. Cardinality(Repeats(recent, a)) + Cardinality(Pending(a)) <= MaxRepeats + Ahead
        BY <1>2 DEF Spaced
      <3>6. Cardinality(Repeats(recent, a)') \in Nat
        <4>1. recent' \in Seq(Entry)
          BY <1>7, RecordTyped DEF LoopInv, TypeInv
        <4>2. PICK k \in Nat : DOMAIN recent' = 1..k
          BY <4>1, LenProperties
        <4>3. Repeats(recent, a)' \in SUBSET (1..k)
          BY <4>2 DEF Repeats
        <4>4. IsFiniteSet(1..k)
          BY FS_Interval
        <4>5. IsFiniteSet(Repeats(recent, a)')
          BY <4>3, <4>4, FS_Subset
        <4> QED BY <4>5, FS_CardinalityType
      <3> QED BY <1>2, <1>3, <1>4, <3>3, <3>4, <3>5, <3>6
    <2>4. Spaced'
      BY <1>3, <2>3 DEF Spaced
    <2> QED BY <2>1, <2>4
  <1>8. CASE Tick
    <2>1. clock' = clock + 1 /\ UNCHANGED <<private, at, frame, recent, records>>
      BY <1>8 DEF Tick
    <2>2. Newest'
      BY <1>1, <1>2, <2>1 DEF Newest, Dropped
    <2>3. ASSUME NEW a
          PROVE  /\ Pending(a)' = Pending(a)
                 /\ Cardinality(Repeats(recent, a)') \in Nat
                 /\ Cardinality(Repeats(recent, a)') <= Cardinality(Repeats(recent, a))
      <3>1. Pending(a)' = Pending(a)
        BY <2>1 DEF Pending
      <3>2. Repeats(recent, a)' \in SUBSET Repeats(recent, a)
        BY <1>1, <1>2, <2>1, LimitsAssumption DEF Repeats
      <3> QED BY <1>4, <3>1, <3>2, FS_Subset, FS_CardinalityType
    <2>4. Spaced'
      BY <1>2, <1>3, <1>4, <2>3 DEF Spaced
    <2> QED BY <2>2, <2>4
  <1>9. CASE UNCHANGED vars
    BY <1>2, <1>9 DEF vars, Newest, Dropped, Spaced, Repeats, Pending, Ahead
  <1> QED BY <1>5, <1>6, <1>7, <1>8, <1>9 DEF Next, Quiet

LEMMA LoopInitially ==
  ASSUME IsFiniteSet(Callers), Callers # {}
  PROVE  Init => LoopInv
  <1> SUFFICES ASSUME Init PROVE LoopInv
    OBVIOUS
  <1>1. /\ recent = <<>> /\ records = <<>> /\ Len(<<>>) = 0 /\ DOMAIN <<>> = {}
        /\ \A t \in Callers : at[t] = "idle"
    BY EmptySeq DEF Init
  <1>2. Newest
    BY <1>1 DEF Newest, Dropped
  <1>3. \A a : Repeats(recent, a) = {} /\ Pending(a) = {}
    BY <1>1 DEF Repeats, Pending
  <1>4. Ahead \in Nat /\ MaxRepeats \in Nat
    BY FS_CardinalityType, FS_EmptySet, LimitsAssumption DEF Ahead
  <1>5. Spaced
    BY <1>3, <1>4, FS_EmptySet DEF Spaced
  <1> QED BY <1>2, <1>5, TypedInitially DEF LoopInv

\* Positions of the deque are those of the history behind what was dropped.
LEMMA DequePositions ==
  ASSUME LoopInv
  PROVE  \E n \in Nat, m \in Nat :
            /\ DOMAIN records = 1..n /\ DOMAIN recent = 1..m
            /\ n = Len(records) /\ m = Len(recent)
            /\ Dropped \in Nat /\ n = m + Dropped /\ (Dropped > 0 => m = RecentMax)
            /\ \A i \in 1..m : recent[i] = records[i + Dropped]
            /\ \A i, j \in 1..n : i <= j => records[i].ts <= records[j].ts
            /\ \A i \in 1..n : records[i].ts \in Nat
  <1>1. PICK n \in Nat, m \in Nat : /\ n = Len(records) /\ DOMAIN records = 1..n
                                    /\ m = Len(recent) /\ DOMAIN recent = 1..m
    BY LenProperties DEF LoopInv, TypeInv, TypeOK
  <1>2. /\ Dropped \in Nat /\ n = m + Dropped /\ (Dropped > 0 => m = RecentMax)
        /\ \A i \in 1..m : recent[i] = records[i + Dropped]
        /\ \A i, j \in 1..n : i <= j => records[i].ts <= records[j].ts
    BY <1>1 DEF LoopInv, Newest, Dropped
  <1>3. \A i \in 1..n : records[i] \in Entry
    BY <1>1, ElementOfSeq DEF LoopInv, TypeInv, TypeOK
  <1> QED BY <1>1, <1>2, <1>3 DEF Entry

\* Positions of calls with arguments a behind what was dropped, and one more.
LEMMA OneMore ==
  ASSUME LoopInv, NEW a, NEW S, NEW x, S \ {x} \in SUBSET Repeats(records, a),
         \A i \in S \ {x} : i > Dropped
  PROVE  IsFiniteSet(S) /\ Cardinality(S) <= Cardinality(Repeats(recent, a)) + 1
  <1>1. PICK n \in Nat, m \in Nat :
           /\ DOMAIN records = 1..n /\ DOMAIN recent = 1..m
           /\ Dropped \in Nat /\ n = m + Dropped
           /\ \A i \in 1..m : recent[i] = records[i + Dropped]
    BY DequePositions
  <1>2. PICK d \in Nat : d = Dropped
    BY <1>1
  <1> DEFINE back == -d
  <1>3. IsFiniteSet(Repeats(recent, a)) /\ Cardinality(Repeats(recent, a)) \in Nat
    BY <1>1, RepeatsFinite
  <1>4. ASSUME NEW i \in S \ {x} PROVE i \in Int /\ i + back \in Repeats(recent, a)
    <2>1. i \in 1..n /\ records[i].args = a /\ clock - records[i].ts <= Window /\ i > d
      BY <1>1, <1>2 DEF Repeats
    <2>2. i - d \in 1..m /\ i + back = i - d /\ recent[i - d] = records[i]
      BY <1>1, <1>2, <2>1
    <2> QED BY <1>1, <2>1, <2>2 DEF Repeats
  <1>5. back \in Int /\ S \ {x} \in SUBSET Int
    BY <1>4
  <1>6. /\ IsFiniteSet(S \ {x})
        /\ Cardinality(S \ {x}) <= Cardinality(Repeats(recent, a))
    <2> HIDE DEF back
    <2> QED BY <1>3, <1>4, <1>5, Shifted
  <1>7. Cardinality(S \ {x}) \in Nat
    BY <1>6, FS_CardinalityType
  <1>8. CASE x \in S
    <2>1. S = (S \ {x}) \cup {x} /\ x \notin S \ {x}
      BY <1>8
    <2>2. /\ IsFiniteSet((S \ {x}) \cup {x})
          /\ Cardinality((S \ {x}) \cup {x}) = Cardinality(S \ {x}) + 1
      BY <1>6, <2>1, FS_AddElement
    <2> QED BY <1>3, <1>6, <1>7, <2>1, <2>2
  <1>9. CASE x \notin S
    <2>1. S = S \ {x}
      BY <1>9
    <2> QED BY <1>3, <1>6, <1>7, <2>1
  <1> QED BY <1>8, <1>9

\* A call underway leaves room for the one that the deque dropped.
LEMMA PendingMakesRoom ==
  ASSUME LoopInv, IsFiniteSet(Callers), Callers # {}, NEW a \in Inputs, Pending(a) # {},
         NEW S, NEW x, S \ {x} \in SUBSET Repeats(records, a), \A i \in S \ {x} : i > Dropped
  PROVE  Cardinality(S) <= MaxRepeats + Ahead
  <1>1. IsFiniteSet(S) /\ Cardinality(S) <= Cardinality(Repeats(recent, a)) + 1
    BY OneMore
  <1>2. Cardinality(S) \in Nat
    BY <1>1, FS_CardinalityType
  <1>3. PICK p \in Nat : p = Cardinality(Pending(a)) /\ p # 0
    BY PendingFinite, FS_EmptySet
  <1>4. Cardinality(Repeats(recent, a)) \in Nat
    BY DequePositions, RepeatsFinite
  <1>5. Cardinality(Repeats(recent, a)) + p <= MaxRepeats + Ahead
    BY <1>3 DEF LoopInv, Spaced
  <1>6. MaxRepeats \in Nat /\ Ahead \in Int
    BY FS_CardinalityType, LimitsAssumption DEF Ahead
  <1> QED BY <1>1, <1>2, <1>3, <1>4, <1>5, <1>6

LEMMA LateFinite ==
  ASSUME LoopInv, NEW a
  PROVE  /\ IsFiniteSet(Late(a)) /\ Late(a) \ {Dropped} \in SUBSET Repeats(records, a)
         /\ \A i \in Late(a) \ {Dropped} : i > Dropped
  <1>1. PICK n \in Nat : DOMAIN records = 1..n /\ Dropped \in Nat
    BY DequePositions
  <1>2. Repeats(records, a) \in SUBSET (1..n) /\ Late(a) \in SUBSET Repeats(records, a)
    BY <1>1 DEF Repeats, Late
  <1>3. \A i \in Late(a) \ {Dropped} : i > Dropped
    BY <1>1, <1>2 DEF Late
  <1>4. IsFiniteSet(Repeats(records, a))
    BY <1>1, RepeatsFinite
  <1> QED BY <1>2, <1>3, <1>4, FS_Subset

LEMMA BoundInductive ==
  ASSUME IsFiniteSet(Callers), Callers # {}
  PROVE  BoundInv /\ [Next]_vars => BoundInv'
  <1> SUFFICES ASSUME BoundInv, [Next]_vars PROVE Wider'
    BY LoopInductive DEF BoundInv
  <1>0. Ahead' = Ahead
    BY LoopsStay DEF Ahead
  <1> SUFFICES ASSUME NEW a \in Inputs, Pending(a)' = {}
               PROVE  Cardinality(Late(a)') <= MaxRepeats + Ahead
    BY <1>0 DEF Wider
  <1>1. PICK n \in Nat, m \in Nat :
           /\ DOMAIN records = 1..n /\ DOMAIN recent = 1..m
           /\ n = Len(records) /\ m = Len(recent)
           /\ Dropped \in Nat /\ n = m + Dropped /\ (Dropped > 0 => m = RecentMax)
           /\ \A i \in 1..n : records[i].ts \in Nat
    BY DequePositions DEF BoundInv
  <1>2. /\ LoopInv /\ at \in [Callers -> Statements] /\ frame \in [Callers -> FrameType]
        /\ clock \in Nat
    BY DEF BoundInv, LoopInv, TypeInv, TypeOK
  \* While the history stays, a call underway leaves room, and without one nothing is new.
  <1>3. ASSUME Late(a)' \in SUBSET Late(a) PROVE Cardinality(Late(a)') <= MaxRepeats + Ahead
    <2>1. IsFiniteSet(Late(a))
      BY <1>2, LateFinite
    <2>2. Cardinality(Late(a)') <= Cardinality(Late(a)) /\ Cardinality(Late(a)') \in Nat
      BY <1>3, <2>1, FS_Subset, FS_CardinalityType
    <2>3. Cardinality(Late(a)) <= MaxRepeats + Ahead
      <3>1. CASE Pending(a) = {}
        BY <3>1 DEF BoundInv, Wider
      <3>2. CASE Pending(a) # {}
        BY <1>2, <3>2, LateFinite, PendingMakesRoom
      <3> QED BY <3>1, <3>2
    <2>4. MaxRepeats \in Nat /\ Ahead \in Int /\ Cardinality(Late(a)) \in Nat
      BY <2>1, FS_CardinalityType, LimitsAssumption DEF Ahead
    <2> QED BY <2>2, <2>3, <2>4
  <1>4. ASSUME NEW t \in Callers, Detect(t) \/ Acquire(t)
        PROVE  Cardinality(Late(a)') <= MaxRepeats + Ahead
    <2>1. UNCHANGED <<clock, recent, records>>
      BY <1>4 DEF Detect, Acquire, ReadClock, GetBucket, CreateBucket, Load, Store, Stamp,
                  Pass, Refuse
    <2>2. Late(a)' = Late(a)
      BY <2>1 DEF Late, Repeats, Dropped
    <2> QED BY <1>3, <2>2
  <1>5. ASSUME NEW t \in Callers, Record(t)
        PROVE  Cardinality(Late(a)') <= MaxRepeats + Ahead
    <2>1. PICK d \in {0, 1} :
             /\ d = 1 <=> m = RecentMax
             /\ Len(recent') = m + 1 - d
             /\ Len(records') = n + 1
             /\ records'[Len(records')] = [args |-> frame[t].args, ts |-> clock]
             /\ \A i \in 1..n : records'[i] = records[i]
      BY <1>1, <1>2, <1>5, RecordedEntry DEF LoopInv, TypeInv
    <2>2. /\ Dropped' = Dropped + d /\ clock' = clock /\ DOMAIN records' = 1..n + 1
          /\ at[t] # "idle"
      <3>1. records' \in Seq(Entry)
        BY <1>2, <1>5, RecordTyped DEF LoopInv, TypeInv
      <3>2. Dropped' = Dropped + d
        BY <1>1, <2>1 DEF Dropped
      <3> QED BY <1>1, <1>5, <2>1, <3>1, <3>2, LenProperties DEF Record
    <2>3. \A i \in Late(a)' \ {n + 1} : i \in Repeats(records, a) /\ i >= Dropped + d
      BY <1>1, <2>1, <2>2 DEF Late, Repeats
    <2>4. CASE frame[t].args = a
      <3>1. Pending(a) # {}
        BY <2>2, <2>4 DEF Pending
      <3>2. \A i \in Late(a)' \ {n + 1} : i > Dropped
        BY <1>1, <2>1, <2>3 DEF Repeats
      <3> QED BY <1>2, <2>3, <3>1, <3>2, PendingMakesRoom
    <2>5. CASE frame[t].args # a
      <3>1. n + 1 \notin Late(a)'
        BY <1>1, <2>1, <2>2, <2>5 DEF Late, Repeats
      <3>2. Late(a)' \in SUBSET Late(a)
        BY <1>1, <2>1, <2>3, <3>1 DEF Late, Repeats
      <3> QED BY <1>3, <3>2
    <2> QED BY <2>4, <2>5
  <1>6. CASE Tick
    <2>1. clock' = clock + 1 /\ UNCHANGED <<recent, records>>
      BY <1>6 DEF Tick
    <2>2. Dropped' = Dropped
      BY <2>1 DEF Dropped
    <2>3. ASSUME NEW i \in Late(a)' PROVE i \in Late(a)
      <3>1. /\ i \in 1..n /\ records[i].args = a /\ i >= Dropped
            /\ (clock + 1) - records[i].ts <= Window
        BY <1>1, <2>1, <2>2 DEF Late, Repeats
      <3>2. PICK now \in Nat, ts \in Nat : now = clock /\ ts = records[i].ts
        BY <1>1, <1>2, <3>1
      <3>3. now + 1 - ts <= Window /\ Window \in Nat
        BY <3>1, <3>2, LimitsAssumption
      <3>4. now - ts <= Window
        BY <3>3
      <3> QED BY <1>1, <3>1, <3>2, <3>4 DEF Late, Repeats
    <2> QED BY <1>3, <2>3
  <1>7. CASE UNCHANGED vars
    <2>1. Late(a)' = Late(a)
      BY <1>7 DEF vars, Late, Repeats, Dropped
    <2> QED BY <1>3, <2>1
  <1> QED BY <1>4, <1>5, <1>6, <1>7 DEF Next, Quiet

LEMMA BoundInitially ==
  ASSUME IsFiniteSet(Callers), Callers # {}
  PROVE  Init => BoundInv
  <1> SUFFICES ASSUME Init PROVE LoopInv /\ Wider
    BY DEF BoundInv
  <1>1. \A a : Late(a) = {}
    BY EmptySeq DEF Init, Late, Repeats
  <1>2. Ahead \in Nat /\ MaxRepeats \in Nat
    BY FS_CardinalityType, FS_EmptySet, LimitsAssumption DEF Ahead
  <1> QED BY <1>1, <1>2, LoopInitially, FS_EmptySet DEF Wider

\* What falls into the window is still in the deque, or was the last to leave it.
LEMMA DequeIsEnough ==
  ASSUME BoundInv, IsFiniteSet(Callers), Callers # {}
  PROVE  LoopBoundOfAll
  <1> SUFFICES ASSUME Cardinality(Recently) <= RecentMax + 1, NEW a \in Inputs
               PROVE  Cardinality(Repeats(records, a)) <= MaxRepeats + Ahead
    BY DEF LoopBoundOfAll, Ahead
  <1>1. PICK n \in Nat, m \in Nat :
           /\ DOMAIN records = 1..n
           /\ Dropped \in Nat /\ n = m + Dropped /\ (Dropped > 0 => m = RecentMax)
           /\ \A i, j \in 1..n : i <= j => records[i].ts <= records[j].ts
           /\ \A i \in 1..n : records[i].ts \in Nat
    BY DequePositions DEF BoundInv
  <1>2. LoopInv /\ clock \in Nat /\ Window \in Nat /\ RecentMax \in Nat
    BY LimitsAssumption DEF BoundInv, LoopInv, TypeInv, TypeOK
  <1>3. ASSUME NEW i \in 1..n, clock - records[i].ts <= Window PROVE i >= Dropped
    <2> SUFFICES ASSUME i < Dropped PROVE FALSE
      BY <1>1
    <2>1. i..n \in SUBSET Recently
      BY <1>1, <1>2, <1>3 DEF Recently
    <2>2. IsFiniteSet(Recently)
      <3>1. Recently \in SUBSET (1..n)
        BY <1>1 DEF Recently
      <3>2. IsFiniteSet(1..n)
        BY FS_Interval
      <3> QED BY <3>1, <3>2, FS_Subset
    <2>3. Cardinality(i..n) = n - i + 1
      BY FS_Interval
    <2>4. Cardinality(i..n) <= Cardinality(Recently) /\ Cardinality(Recently) \in Nat
      BY <2>1, <2>2, FS_Subset, FS_CardinalityType
    <2> QED BY <1>1, <1>2, <2>3, <2>4
  <1>4. Repeats(records, a) = Late(a)
    BY <1>1, <1>3 DEF Repeats, Late
  <1>5. CASE Pending(a) = {}
    BY <1>4, <1>5 DEF BoundInv, Wider
  <1>6. CASE Pending(a) # {}
    BY <1>2, <1>4, <1>6, LateFinite, PendingMakesRoom
  <1> QED BY <1>5, <1>6

\* What a caller uses as a bucket is one, and the histories keep their bounds.
THEOREM LimitsTypeCorrect == Spec => []TypeOK
  <1>1. TypeInv => TypeOK
    BY DEF TypeInv
  <1> QED BY <1>1, Typing, TypedInitially, PTL DEF Spec

\* On one event loop, for every rate, burst and cost, any number of callers and any
\* passage of time: no stretch lets through more than a burst and what came in.
THEOREM RateIsBounded == Spec => []RateBound
  <1>1. RateInv => RateBound
    BY DEF RateInv, RateBound
  <1> QED BY <1>1, RateInductive, RateInitially, PTL DEF Spec

\* On one event loop, for every rate, burst and cost: whoever waits as long as the last
\* refusal said is not refused, unless another call passed meanwhile.
THEOREM RetryAfterIsHonest == Spec => RetryAfterIsEnough
  <1>1. WaitInv /\ [Next]_vars
          => [\A r \in told, n \in told' :
                 /\ ~private
                 /\ Burst >= Cost /\ Rate > 0 /\ (n.at - r.at) * Rate >= r.missing
                 => n = r]_vars
    BY WaitedPasses
  <1> QED BY <1>1, WaitInductive, WaitInitially, PTL DEF Spec, RetryAfterIsEnough

\* For every window, every length of the deque and any number of callers, on one loop
\* or on private ones: the detector bounds the calls of one window that really were
\* admitted, whatever the deque forgot, if the window has no more than it holds and one.
THEOREM DetectorBoundsLoops ==
  ASSUME IsFiniteSet(Callers), Callers # {}
  PROVE  Spec => []LoopBoundOfAll
  <1>1. BoundInv => LoopBoundOfAll
    BY DequeIsEnough
  <1>2. Init => BoundInv
    BY BoundInitially
  <1>3. BoundInv /\ [Next]_vars => BoundInv'
    BY BoundInductive
  <1> QED BY <1>1, <1>2, <1>3, PTL DEF Spec
=============================================================================
