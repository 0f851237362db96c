----------------------------- MODULE NodeProofs -----------------------------
(***************************************************************************)
(* The parts of a node that MCNodeParts puts side by side, each for every  *)
(* value of its constants.                                                 *)
(***************************************************************************)
EXTENDS MCNodeParts, NatLemmas, SequenceTheorems, FiniteSetTheorems

-----------------------------------------------------------------------------
(***************************************************************************)
(* The channel buffer (ChannelBuffer) holds exactly the last Size messages *)
(* and a visitor reads them by number, in order, for every size of the     *)
(* buffer (0, where the ring has one slot that every message overwrites,   *)
(* included) and any number of messages.                                   *)
(***************************************************************************)

(* The ring has a slot. *)
LEMMA CapacityPositive == capacity \in Nat \ {0}
  BY SizeAssumption DEF capacity

(* The slots of a new buffer, a full window and a later read are all named *)
(* by the remainder of the message number.                                 *)
LEMMA IndexType == \A i \in Nat : GetIndex(i) \in 0 .. capacity - 1
  BY CapacityPositive, DivMod DEF GetIndex

(* Messages less than one lap apart have different slots. *)
LEMMA IndexDistinct ==
  ASSUME NEW i \in Nat, NEW j \in Nat, i < j, j < i + capacity
  PROVE  GetIndex(i) # GetIndex(j)
  BY CapacityPositive, LapDistinct DEF GetIndex

(* The free slot of a full ring is the one after its newest message. *)
LEMMA IndexWraps == \A i \in Nat : GetIndex(i + capacity) = GetIndex(i)
  BY CapacityPositive, LapSame DEF GetIndex

(* The constructor establishes the invariant. *)
LEMMA InitIInv == Init => IInv
  BY CapacityPositive, SizeAssumption, MaxMsgsAssumption, IndexType
     DEF Init, IInv, TypeOK, WindowExact, ReadsItsNumber, Empty0, Head_, at

(***************************************************************************)
(* Whether the ring is full or not, Fill stores the message in the slot of *)
(* its number and drops what is more than Size messages old.               *)
(***************************************************************************)
LEMMA FillResult ==
  ASSUME IInv, NEW v \in Nat
  PROVE  /\ Fill(buf, v).tail = buf.tail + 1
         /\ Fill(buf, v).head = IF Full(buf) THEN buf.head + 1 ELSE buf.head
         /\ Fill(buf, v).slots = [buf.slots EXCEPT ![GetIndex(buf.tail + 1)] = v]
<1>1. /\ buf \in [head : 0 .. MaxMsgs, tail : 0 .. MaxMsgs,
                  slots : [0 .. capacity - 1 -> 0 .. MaxMsgs]]
  BY DEF IInv, TypeOK
<1>2. Full(buf) => buf.tail + 1 = buf.head + capacity
  BY <1>1, CapacityPositive, MaxMsgsAssumption DEF Full
<1>3. Full(buf) => GetIndex(buf.tail + 1) = GetIndex(buf.head)
  BY <1>1, <1>2, IndexWraps, MaxMsgsAssumption
<1> QED BY <1>1, <1>3 DEF Fill

(* Dispatching a message moves the window on by one. *)
LEMMA DispatchIInv ==
  ASSUME IInv, Dispatch
  PROVE  IInv'
<1> DEFINE t == buf.tail
<1> DEFINE h == buf.head
<1>1. /\ t \in 0 .. MaxMsgs /\ h \in 0 .. MaxMsgs /\ t < MaxMsgs
      /\ buf.slots \in [0 .. capacity - 1 -> 0 .. MaxMsgs]
      /\ next_msg_index \in 0 .. MaxMsgs + 1
      /\ UNCHANGED <<next_msg_index, msgs>>
  BY DEF IInv, TypeOK, Dispatch
<1>2. /\ h = IF t > Size THEN t - Size ELSE 0
      /\ \A i \in h + 1 .. t : buf.slots[GetIndex(i)] = i
      /\ next_msg_index <= t + 1
  BY DEF IInv, WindowExact, Head_, at
<1>3. /\ buf'.tail = t + 1
      /\ buf'.head = IF Full(buf) THEN h + 1 ELSE h
      /\ buf'.slots = [buf.slots EXCEPT ![GetIndex(t + 1)] = t + 1]
  <2>1. buf' = Fill(buf, t + 1)
    BY DEF Dispatch
  <2>2. t + 1 \in Nat
    BY <1>1, MaxMsgsAssumption
  <2>3. \A v \in Nat :
          /\ Fill(buf, v).tail = buf.tail + 1
          /\ Fill(buf, v).head = IF Full(buf) THEN buf.head + 1 ELSE buf.head
          /\ Fill(buf, v).slots = [buf.slots EXCEPT ![GetIndex(buf.tail + 1)] = v]
    BY FillResult
  <2> QED
    BY <2>1, <2>2, <2>3, Zenon
<1>4. Full(buf) <=> t - h = Size
  BY <1>1, SizeAssumption, MaxMsgsAssumption DEF Full, capacity
<1>n. t \in Nat /\ t + 1 \in Nat /\ h \in Nat
  BY <1>1
<1> HIDE DEF t, h
<1>5. GetIndex(t + 1) \in 0 .. capacity - 1
  BY <1>n, IndexType
<1>6. TypeOK'
  <2>1. buf' = [head |-> buf'.head, tail |-> buf'.tail, slots |-> buf'.slots]
    BY <1>1 DEF Dispatch, Fill, IInv, TypeOK
  <2>2. /\ buf'.head \in 0 .. MaxMsgs /\ buf'.tail \in 0 .. MaxMsgs
        /\ buf'.slots \in [0 .. capacity - 1 -> 0 .. MaxMsgs]
    BY <1>1, <1>2, <1>3, <1>4, <1>5, SizeAssumption, MaxMsgsAssumption, SMTT(30)
  <2> QED BY <1>1, <2>1, <2>2 DEF TypeOK
<1>7. buf'.head = IF t + 1 > Size THEN t + 1 - Size ELSE 0
  BY <1>1, <1>2, <1>3, <1>4, SizeAssumption, MaxMsgsAssumption
<1>8. ASSUME NEW i \in buf'.head + 1 .. t + 1
      PROVE  buf'.slots[GetIndex(i)] = i
  <2>1. i \in Nat /\ t + 1 < i + capacity /\ (i # t + 1 => i \in h + 1 .. t)
    <3>1. i \in Int /\ buf'.head + 1 <= i /\ i <= t + 1
      BY <1>n, <1>3
    <3>2. i \in Nat /\ t + 1 < i + capacity
      BY <1>n, <1>7, <3>1, SizeAssumption DEF capacity
    <3> QED BY <1>n, <1>2, <1>7, <3>1, <3>2, SizeAssumption
  <2>2. CASE i = t + 1
    BY <1>1, <1>3, <1>5, <2>2
  <2>3. CASE i # t + 1
    <3>1. GetIndex(i) # GetIndex(t + 1)
      BY <1>1, <2>1, <2>3, IndexDistinct, MaxMsgsAssumption
    <3> QED BY <1>1, <1>2, <1>3, <2>1, <2>3, <3>1, IndexType
  <2> QED BY <2>2, <2>3
<1>9. buf'.slots[GetIndex(t + 1)] = t + 1
  BY <1>1, <1>3, <1>5
<1>10. WindowExact'
  <2>1. \A i \in buf'.head + 1 .. t + 1 : buf'.slots[GetIndex(i)] = i
    BY <1>8
  <2>2. next_msg_index' <= (t + 1) + 1
    BY <1>1, <1>2, <1>n
  <2>3. buf'.head = IF buf'.tail > Size THEN buf'.tail - Size ELSE 0
    BY <1>n, <1>3, <1>7, SizeAssumption
  <2>4. \A i \in Head_(buf)' .. buf'.tail : at(buf, i)' = i
    BY <1>3, <2>1 DEF Head_, at
  <2>5. at(buf, buf.tail)' = buf'.tail
    BY <1>3, <1>9 DEF at
  <2>6. (next_msg_index <= buf.tail + 1)'
    BY <1>3, <2>2
  <2> QED BY <2>3, <2>4, <2>5, <2>6 DEF WindowExact
<1>11. ReadsItsNumber'
  BY <1>1 DEF IInv, ReadsItsNumber
<1> QED BY <1>6, <1>10, <1>11 DEF IInv

(* The number a visitor fetches is in the window or is the newest. *)
LEMMA FetchInWindow ==
  ASSUME IInv, CanFetch(buf, next_msg_index)
  PROVE  LET index == FetchIndex(buf, next_msg_index)
         IN  /\ index \in 1 .. buf.tail
             /\ at(buf, index) = index
             /\ index >= next_msg_index
             /\ index = next_msg_index
                  \/ /\ next_msg_index = 0 \/ next_msg_index < Head_(buf)
                     /\ index = buf.tail
  BY MaxMsgsAssumption, SizeAssumption
     DEF IInv, TypeOK, WindowExact, CanFetch, FetchIndex, Empty, Head_

(* Every step preserves the invariant. *)
LEMMA NextIInv == IInv /\ [Next]_vars => IInv'
<1> SUFFICES ASSUME IInv, [Next]_vars PROVE IInv'
  OBVIOUS
<1>1. CASE Dispatch
  BY <1>1, DispatchIInv
<1>2. CASE TryFetch
  BY <1>2, FetchInWindow, MaxMsgsAssumption
     DEF TryFetch, IInv, TypeOK, WindowExact, ReadsItsNumber, Head_, at
<1>3. CASE Latest
  BY <1>3, MaxMsgsAssumption
     DEF Latest, Empty, IInv, TypeOK, WindowExact, ReadsItsNumber, Head_, at
<1>4. ASSUME NEW n \in 1 .. MaxMsgs, FetchMulti(n)
      PROVE  IInv'
  <2>1. FetchMultiRange(buf, n) \subseteq Head_(buf) .. buf.tail
    BY <1>4, MaxMsgsAssumption, SizeAssumption
       DEF FetchMultiRange, IInv, TypeOK, WindowExact, Head_
  <2> QED BY <1>4, <2>1 DEF FetchMulti, IInv, TypeOK, WindowExact, ReadsItsNumber, Head_, at
<1>5. CASE UNCHANGED vars
  BY <1>5 DEF vars, IInv, TypeOK, WindowExact, ReadsItsNumber, Head_, at
<1> QED BY <1>1, <1>2, <1>3, <1>4, <1>5 DEF Next

(* The invariant holds in every reachable state of the buffer. *)
THEOREM Invariance == Spec => []IInv
<1> QED BY InitIInv, NextIInv, PTL DEF Spec

(* The cursors and the visitor's index stay within the messages filled. *)
THEOREM TypeCorrect == Spec => []TypeOK
<1>1. IInv => TypeOK
  BY DEF IInv
<1> QED BY <1>1, Invariance, PTL

(* The ring holds exactly the last Size messages, each in its own slot. *)
THEOREM WindowCorrect == Spec => []WindowExact
<1>1. IInv => WindowExact
  BY DEF IInv
<1> QED BY <1>1, Invariance, PTL

(* Fetch, Latest and FetchMulti never hand out an overwritten slot. *)
THEOREM ReadsCorrect == Spec => []ReadsItsNumber
<1>1. IInv => ReadsItsNumber
  BY DEF IInv
<1> QED BY <1>1, Invariance, PTL

(* TryFetch delivers in order, at most once, and skips only to the newest. *)
THEOREM FetchOrder == Spec => FetchesInOrder
<1> DEFINE Ordered ==
      next_msg_index' # next_msg_index =>
        /\ next_msg_index' > next_msg_index
        /\ DOMAIN msgs' = {next_msg_index' - 1}
        /\ \/ next_msg_index' = next_msg_index + 1
           \/ /\ next_msg_index = 0 \/ next_msg_index < buf.tail - Size + 1
              /\ next_msg_index' = buf.tail + 1
<1>1. ASSUME IInv, [Next]_vars PROVE [Ordered]_vars
  <2>1. CASE TryFetch
    <3> DEFINE index == FetchIndex(buf, next_msg_index)
    <3>1. /\ index \in 1 .. buf.tail /\ index >= next_msg_index
          /\ index = next_msg_index
               \/ /\ next_msg_index = 0 \/ next_msg_index < Head_(buf)
                  /\ index = buf.tail
      BY <1>1, <2>1, FetchInWindow DEF TryFetch
    <3>2. next_msg_index' = index + 1 /\ DOMAIN msgs' = {index}
      BY <2>1 DEF TryFetch
    <3>3. /\ buf.tail \in Nat /\ next_msg_index \in Nat
          /\ next_msg_index < Head_(buf) /\ next_msg_index # 0
               => next_msg_index < buf.tail - Size + 1
      BY <1>1, SizeAssumption, MaxMsgsAssumption DEF IInv, TypeOK, WindowExact, Head_
    <3> HIDE DEF index
    <3> QED BY <3>1, <3>2, <3>3
  <2>2. CASE UNCHANGED next_msg_index
    BY <2>2
  <2> QED BY <1>1, <2>1, <2>2 DEF Next, Dispatch, Latest, FetchMulti, vars
<1> QED BY <1>1, Invariance, PTL DEF Spec, FetchesInOrder

-----------------------------------------------------------------------------
(* The loop timer (Rate). *)

(* The times of a cycle and of a sleep, as far from the clock as a cycle.  *)
RateInv ==
  /\ now \in 1 .. MaxNow /\ start_ \in Nat /\ until \in Nat /\ asleep \in Nat
  /\ expected_cycle_time_ \in Cycles
  /\ start_ <= MaxNow + expected_cycle_time_
  /\ Pace!SleepsAtMostACycle

(* Numbers that fit are what they are as unsigned numbers ... *)
LEMMA UnsignedExact ==
  ASSUME NEW n \in 0 .. ClockWord - 1
  PROVE  Pace!Unsigned(n) = n
<1>1. ClockWord \in Nat \ {0} /\ n \in Nat
  BY RateConstants
<1>2. n = ClockWord * 0 + n
  BY <1>1
<1> QED
  BY <1>1, <1>2, ModUnique DEF Pace!Unsigned

(* ... and the sign of a difference that fits is that of the difference.   *)
LEMMA SignedExact ==
  ASSUME NEW n \in Int, 0 < n + (ClockWord \div 2), n < ClockWord \div 2
  PROVE  Pace!Signed(n) = n
<1>1. ClockWord \in Nat /\ ClockWord \div 2 \in Nat /\ 2 * (ClockWord \div 2) <= ClockWord
  BY RateConstants
<1>2. CASE n >= 0
  <2>1. n = ClockWord * 0 + n /\ n \in 0 .. ClockWord - 1 /\ ClockWord \in Nat \ {0}
    BY <1>1, <1>2
  <2>2. n % ClockWord = n
    BY <2>1, ModUnique
  <2> QED
    BY <1>1, <2>2 DEF Pace!Signed
<1>3. CASE n < 0
  <2>1. n + ClockWord \in 0 .. ClockWord - 1 /\ ClockWord \in Nat \ {0}
    BY <1>1, <1>3
  <2>2. n % ClockWord = n + ClockWord
    <3> DEFINE r == n + ClockWord
    <3>1. n = ClockWord * (-1) + r
      BY <1>1
    <3>2. r \in 0 .. ClockWord - 1
      BY <2>1
    <3> QED
      BY <2>1, <1>3
  <2> QED
    BY <1>1, <1>3, <2>2 DEF Pace!Signed
<1> QED
  BY <1>2, <1>3

(* The end of the cycle is at most a cycle from now, and the arithmetic    *)
(* that leads to it does not wrap.                                         *)
LEMMA EndExact ==
  ASSUME RateInv
  PROVE  LET base == IF now < start_ THEN now ELSE start_
             c == expected_cycle_time_
         IN  /\ base \in Nat /\ base <= now /\ c \in Nat
             /\ Pace!ExpectedEnd = base + c
             /\ Pace!TimeDifference(Pace!ExpectedEnd, now) = base + c - now
             /\ Pace!StartAfterDelay(Pace!ExpectedEnd)
                  = IF now > base + 2 * c THEN now ELSE base + c
<1> DEFINE base == IF now < start_ THEN now ELSE start_
           c == expected_cycle_time_
<1>1. /\ base \in Nat /\ base <= now /\ c \in Nat /\ now \in Nat /\ now <= MaxNow
      /\ MaxNow \in Nat /\ ClockWord \in Nat
      /\ MaxNow + 2 * c < ClockWord \div 2
  BY RateConstants DEF RateInv
<1> HIDE DEF base, c
<1>2. Pace!TimePlus(base, c) = base + c /\ Pace!TimePlus(base + c, c) = base + 2 * c
  <2>1. base + c \in 0 .. ClockWord - 1 /\ base + c + c \in 0 .. ClockWord - 1
    BY <1>1
  <2> QED
    BY <1>1, <2>1, UnsignedExact DEF Pace!TimePlus
<1>3. Pace!TimeDifference(base + c, now) = base + c - now
  <2>h. ClockWord \div 2 \in Int
    BY <1>1
  <2> DEFINE d == (base + c) - now
  <2>1. d \in Int /\ 0 < d + (ClockWord \div 2) /\ d < ClockWord \div 2
    BY <1>1, <2>h
  <2> HIDE DEF d
  <2>2. Pace!Signed(d) = d
    BY <2>1, SignedExact
  <2>3. Pace!TimeDifference(base + c, now) = d
    BY <2>2 DEF Pace!TimeDifference, d
  <2> QED
    BY <1>1, <2>3 DEF d
<1>4. Pace!ExpectedEnd = base + c
  BY <1>2 DEF Pace!ExpectedEnd, base, c
<1>5. Pace!StartAfterDelay(Pace!ExpectedEnd) = IF now > base + 2 * c THEN now ELSE base + c
  BY <1>2, <1>4 DEF Pace!StartAfterDelay, c
<1> QED
  BY <1>1, <1>3, <1>4, <1>5 DEF base, c

(* A call of Rate::Sleep sleeps a cycle at most, and is late by a cycle at *)
(* most when it does not sleep.                                            *)
LEMMA SleepKeepsPace ==
  ASSUME RateInv, Pace!Sleep
  PROVE  RateInv' /\ (~ sleeping' => now - start_' <= expected_cycle_time_)
<1> DEFINE base == IF now < start_ THEN now ELSE start_
           c == expected_cycle_time_
<1>1. /\ base \in Nat /\ base <= now /\ c \in Nat /\ now \in Nat /\ now <= MaxNow
      /\ MaxNow \in Nat
  BY RateConstants DEF RateInv
<1>2. /\ Pace!ExpectedEnd = base + c
      /\ Pace!TimeDifference(Pace!ExpectedEnd, now) = base + c - now
      /\ Pace!StartAfterDelay(Pace!ExpectedEnd) = IF now > base + 2 * c THEN now ELSE base + c
  BY EndExact
<1>3. /\ ~ sleeping /\ asleep' = 0 /\ jumped' = FALSE /\ now' = now
      /\ expected_cycle_time_' = c
  BY DEF Pace!Sleep
<1>4. IF base + c - now < 0
      THEN /\ start_' = IF now > base + 2 * c THEN now ELSE base + c
           /\ sleeping' = FALSE /\ until' = until
      ELSE start_' = base + c /\ sleeping' = TRUE /\ until' = base + c
  BY <1>2 DEF Pace!Sleep, RateInv
<1>t. now \in 1 .. MaxNow /\ c \in Cycles /\ until \in Nat
  BY DEF RateInv
<1> HIDE DEF base, c
<1>5. CASE base + c - now < 0
  <2>1. start_' \in Nat /\ start_' <= MaxNow + c /\ now - start_' <= c
    BY <1>1, <1>4, <1>5
  <2> QED
    BY <1>1, <1>3, <1>4, <1>5, <1>t, <2>1 DEF RateInv, Pace!SleepsAtMostACycle, c
<1>6. CASE base + c - now >= 0
  <2>1. /\ start_' \in Nat /\ start_' <= MaxNow + c /\ until' - now <= c
        /\ until' <= now + c - 0 /\ until' \in Nat
    BY <1>1, <1>4, <1>6
  <2>2. sleeping'
    BY <1>4, <1>6, <1>1
  <2>3. RateInv'
    BY <1>1, <1>3, <1>4, <1>6, <1>t, <2>1 DEF RateInv, Pace!SleepsAtMostACycle, c
  <2> QED
    BY <2>2, <2>3
<1> QED
  BY <1>1, <1>5, <1>6 DEF c

(* Rate keeps its pace: for every clock, every cycle and however often and *)
(* however far the clock is set.                                           *)
THEOREM PaceKept == Pace!RateSpec => KeepsThePace
<1> DEFINE Paced ==
      /\ Pace!SleepsAtMostACycle'
      /\ Pace!Sleep /\ ~ sleeping' => now - start_' <= expected_cycle_time_
<1>1. Pace!RateInit => RateInv
  BY RateConstants DEF Pace!RateInit, RateInv, Pace!SleepsAtMostACycle
<1>2. ASSUME RateInv, [Pace!RateNext]_Pace!rateVars
      PROVE  RateInv' /\ [Paced]_Pace!rateVars
  <2>t. /\ now \in Nat /\ MaxNow \in Nat /\ expected_cycle_time_ \in Nat /\ asleep \in Nat
        /\ until \in Nat
    BY <1>2, RateConstants DEF RateInv
  <2>1. CASE Pace!Sleep
    BY <1>2, <2>1, SleepKeepsPace DEF RateInv
  <2>2. CASE ~ Pace!Sleep
    <3>1. RateInv'
      <4>1. CASE Pace!Tick
        BY <1>2, <2>t, <4>1 DEF Pace!Tick, RateInv, Pace!SleepsAtMostACycle
      <4>2. CASE Pace!SetClock
        <5>1. ASSUME sleeping', ~ jumped'
              PROVE  sleeping /\ ~ jumped /\ ~ (now' < now)
          BY <4>2, <5>1, Zenon DEF Pace!SetClock
        <5>2. /\ now' \in 1 .. MaxNow
              /\ UNCHANGED <<start_, until, asleep, expected_cycle_time_>>
          BY <4>2 DEF Pace!SetClock
        <5>3. Pace!SleepsAtMostACycle'
          <6>1. /\ ~ (now' < now) /\ until - now <= expected_cycle_time_
                /\ until <= now + expected_cycle_time_ - asleep
                => /\ until - now' <= expected_cycle_time_
                   /\ until <= now' + expected_cycle_time_ - asleep
            <7>1. \A u, m, n, c, k \in Int :
                    ~ (n < m) /\ u - m <= c /\ u <= m + c - k
                      => u - n <= c /\ u <= n + c - k
              OBVIOUS
            <7>2. /\ now \in Int /\ now' \in Int /\ until \in Int /\ asleep \in Int
                  /\ expected_cycle_time_ \in Int
              BY <2>t, <5>2
            <7> QED
              BY <7>1, <7>2, Zenon
          <6>2. sleeping /\ ~ jumped
                => /\ until - now <= expected_cycle_time_
                   /\ until <= now + expected_cycle_time_ - asleep
            BY <1>2, Zenon DEF RateInv, Pace!SleepsAtMostACycle
          <6>3. /\ until' = until /\ asleep' = asleep
                /\ expected_cycle_time_' = expected_cycle_time_
            BY <5>2
          <6> QED
            BY <5>1, <6>1, <6>2, <6>3, Zenon DEF Pace!SleepsAtMostACycle
        <5> QED
          BY <1>2, <5>2, <5>3 DEF RateInv
      <4>3. CASE Pace!Wake
        BY <1>2, <2>t, <4>3 DEF Pace!Wake, RateInv, Pace!SleepsAtMostACycle
      <4>4. CASE Pace!Reset
        BY <1>2, <2>t, <4>4 DEF Pace!Reset, RateInv, Pace!SleepsAtMostACycle
      <4>5. CASE UNCHANGED Pace!rateVars
        BY <1>2, <4>5 DEF Pace!rateVars, RateInv, Pace!SleepsAtMostACycle
      <4> QED
        BY <1>2, <2>2, <4>1, <4>2, <4>3, <4>4, <4>5 DEF Pace!RateNext
    <3> QED
      BY <2>2, <3>1 DEF RateInv
  <2> QED
    BY <2>1, <2>2
<1> QED
  BY <1>1, <1>2, PTL DEF Pace!RateSpec, KeepsThePace, Pace!KeepsThePace

-----------------------------------------------------------------------------
(* Blockers (Blocker). *)

PublishSteps == {"idle", "enqueue", "push", "queued", "notify"}
PublisherStates ==
  [step : PublishSteps, blocker : 0 .. MaxBlockers, calls : SUBSET CallbackIds]

BlockerTypeOK ==
  /\ manager \in 0 .. MaxBlockers /\ blockers \in 0 .. MaxBlockers
  /\ limit \in [Blocking!Blockers -> Nat] /\ count \in [Blocking!Blockers -> Nat]
  /\ published \in [Blocking!Blockers -> Seq(Nat)]
  /\ observed \in [Blocking!Blockers -> Seq(Nat)]
  /\ callbacks \in [Blocking!Blockers -> SUBSET CallbackIds]
  /\ pub \in [Publishers -> PublisherStates]

(* A blocker that was not made yet is empty; one that a thread or the map  *)
(* refers to was made.                                                     *)
MadeBlockers ==
  /\ manager <= blockers
  /\ \A p \in Publishers : pub[p].step # "idle" => pub[p].blocker \in 1 .. blockers
  /\ \A b \in Blocking!Blockers : b > blockers => published[b] = <<>>

(* Notify calls under cb_mutex_. *)
CallsRegistered ==
  \A p \in Publishers : pub[p].step = "notify" => pub[p].calls \subseteq callbacks[pub[p].blocker]

BlockerInv ==
  /\ BlockerTypeOK /\ MadeBlockers
  /\ Blocking!HistoryUnbroken /\ CallsRegistered

(* A callback is with the map's blocker and its user subscribed it, or it  *)
(* strayed.                                                                *)
Registered ==
  \A b \in Blocking!Blockers : \A id \in callbacks[b] :
    (id \in subscribed /\ b = manager) \/ <<b, id>> \in strayed

UserStates == [step : {"out", "subscribe", "unsubscribe"}, blocker : 0 .. MaxBlockers]

(* While an id is being unsubscribed, no Reset has been if it still is     *)
(* subscribed.                                                             *)
UserInv ==
  /\ user \in [CallbackIds -> UserStates]
  /\ \A id \in CallbackIds : user[id].step # "out" => user[id].blocker \in 1 .. blockers
  /\ \A id \in CallbackIds :
       user[id].step = "unsubscribe" /\ id \in subscribed => user[id].blocker = manager
  /\ Registered

(* Trimming keeps the newest messages, and a run of them. *)
LEMMA TrimmedRun ==
  ASSUME NEW queue \in Seq(Nat), NEW cap \in Nat, Blocking!Run(queue)
  PROVE  LET t == Blocking!Trimmed(queue, cap)
         IN  /\ t \in Seq(Nat) /\ Len(t) <= cap /\ Blocking!Run(t)
             /\ t # <<>> => queue # <<>> /\ Head(t) = Head(queue)
<1> DEFINE n == IF Len(queue) < cap THEN Len(queue) ELSE cap
           t == SubSeq(queue, 1, n)
<1>1. n \in Nat /\ n <= Len(queue) /\ n <= cap /\ Len(queue) \in Nat
  BY LenProperties
<1>2. \A i \in 1 .. n : queue[i] \in Nat
  BY <1>1, ElementOfSeq
<1> HIDE DEF n
<1>3. /\ t \in Seq(Nat) /\ Len(t) = IF 1 <= n THEN n - 1 + 1 ELSE 0
      /\ \A i \in 1 .. n - 1 + 1 : t[i] = queue[1 + i - 1]
  BY <1>1, <1>2, SubSeqProperties
<1>4. Len(t) = n /\ \A i \in 1 .. n : t[i] = queue[i]
  BY <1>1, <1>3
<1> HIDE DEF t
<1>5. Blocking!Run(t)
  <2> SUFFICES ASSUME NEW i \in 1 .. Len(t) - 1
               PROVE  t[i] = t[i + 1] + 1
    BY DEF Blocking!Run
  <2>1. i \in 1 .. n /\ i + 1 \in 1 .. n /\ i \in 1 .. Len(queue) - 1
    BY <1>1, <1>4
  <2>2. queue[i] = queue[i + 1] + 1
    BY <2>1 DEF Blocking!Run
  <2> QED
    BY <1>4, <2>1, <2>2
<1>6. t # <<>> => queue # <<>> /\ Head(t) = Head(queue)
  <2> SUFFICES ASSUME t # <<>>
               PROVE  queue # <<>> /\ Head(t) = Head(queue)
    OBVIOUS
  <2>1. n >= 1
    BY <1>3, <1>4, EmptySeq
  <2>2. Head(t) = t[1] /\ t[1] = queue[1]
    BY <1>1, <1>4, <2>1 DEF Head
  <2>3. queue # <<>>
    BY <1>1, <2>1, EmptySeq
  <2> QED
    BY <2>2, <2>3 DEF Head
<1>7. Blocking!Trimmed(queue, cap) = t
  BY DEF Blocking!Trimmed, t, n
<1> QED
  BY <1>1, <1>3, <1>4, <1>5, <1>6, <1>7

(* So does putting the next message in front. *)
LEMMA PushedRun ==
  ASSUME NEW queue \in Seq(Nat), NEW n \in Nat, Blocking!Run(queue),
         queue # <<>> => Head(queue) = n
  PROVE  LET q == <<n + 1>> \o queue
         IN  q \in Seq(Nat) /\ Blocking!Run(q) /\ q # <<>> /\ Head(q) = n + 1
<1> DEFINE q == <<n + 1>> \o queue
<1>1. <<n + 1>> \in Seq(Nat) /\ Len(<<n + 1>>) = 1 /\ Len(queue) \in Nat
  BY LenProperties
<1>2. /\ q \in Seq(Nat) /\ Len(q) = 1 + Len(queue)
      /\ \A i \in 1 .. 1 + Len(queue) :
           q[i] = IF i <= 1 THEN <<n + 1>>[i] ELSE queue[i - 1]
  BY <1>1, ConcatProperties
<1> HIDE DEF q
<1>3. q[1] = n + 1 /\ \A i \in 1 .. Len(queue) : q[i + 1] = queue[i]
  BY <1>1, <1>2
<1>4. q # <<>> /\ Head(q) = n + 1
  BY <1>1, <1>2, <1>3, EmptySeq DEF Head
<1>5. Blocking!Run(q)
  <2> SUFFICES ASSUME NEW i \in 1 .. Len(q) - 1
               PROVE  q[i] = q[i + 1] + 1
    BY DEF Blocking!Run
  <2>1. i \in 1 .. Len(queue) /\ q[i + 1] = queue[i]
    BY <1>1, <1>2, <1>3
  <2>2. CASE i = 1
    <3>1. queue # <<>>
      BY <2>1, EmptySeq
    <3>2. queue[1] = n
      BY <3>1 DEF Head
    <3> QED
      BY <1>3, <2>1, <2>2, <3>2
  <2>3. CASE i # 1
    <3>1. i - 1 \in 1 .. Len(queue) - 1 /\ (i - 1) + 1 = i
      BY <1>1, <2>1, <2>3
    <3>2. queue[i - 1] = queue[i] + 1
      BY <3>1 DEF Blocking!Run
    <3>3. i \in 1 .. 1 + Len(queue) /\ ~ (i <= 1)
      BY <1>1, <2>1, <2>3
    <3>4. q[i] = queue[i - 1]
      BY <1>2, <3>3
    <3> QED
      BY <2>1, <3>2, <3>4
  <2> QED
    BY <2>2, <2>3
<1> QED
  BY <1>2, <1>4, <1>5 DEF q

(* GetOrCreateBlocker gives a blocker that was made, and a new one is empty. *)
LEMMA GetOrCreate ==
  ASSUME BlockerInv, NEW cap \in Nat, Blocking!GetOrCreateBlocker(cap),
         UNCHANGED <<published, observed, count>>
  PROVE  /\ manager' \in 1 .. blockers' /\ blockers' \in 0 .. MaxBlockers
         /\ blockers <= blockers'
         /\ limit' \in [Blocking!Blockers -> Nat]
         /\ \A b \in Blocking!Blockers : b > blockers' => published'[b] = <<>>
         /\ Blocking!HistoryUnbroken'
<1>t. /\ manager \in 0 .. MaxBlockers /\ blockers \in 0 .. MaxBlockers /\ MaxBlockers \in Nat
      /\ limit \in [Blocking!Blockers -> Nat] /\ manager <= blockers
      /\ \A b \in Blocking!Blockers : b > blockers => published[b] = <<>>
  BY BlockerConstants DEF BlockerInv, BlockerTypeOK, MadeBlockers
<1>1. CASE manager # 0 /\ UNCHANGED <<manager, blockers, limit>>
  BY <1>1, <1>t DEF BlockerInv, Blocking!HistoryUnbroken,
            Blocking!GetLatestPublishedPtr, Blocking!GetLatestObservedPtr
<1>2. CASE /\ manager = 0 /\ blockers < MaxBlockers
           /\ blockers' = blockers + 1 /\ manager' = blockers'
           /\ limit' = [limit EXCEPT ![blockers'] = cap]
  <2>1. blockers' \in Blocking!Blockers /\ published[blockers'] = <<>>
    BY <1>2, <1>t DEF Blocking!Blockers
  <2>2. limit' \in [Blocking!Blockers -> Nat]
    BY <1>2, <1>t
  <2>3. \A b \in Blocking!Blockers : Len(published[b]) <= limit'[b]
    <3> SUFFICES ASSUME NEW b \in Blocking!Blockers
                 PROVE  Len(published[b]) <= limit'[b]
      OBVIOUS
    <3>1. CASE b = blockers'
      <4>1. Len(published[b]) = 0 /\ limit'[b] = cap
        BY <1>2, <1>t, <2>1, <3>1, EmptySeq
      <4> QED
        BY <4>1
    <3>2. CASE b # blockers'
      BY <1>2, <1>t, <3>2 DEF BlockerInv, Blocking!HistoryUnbroken,
            Blocking!GetLatestPublishedPtr, Blocking!GetLatestObservedPtr
    <3> QED
      BY <3>1, <3>2
  <2>4. Blocking!HistoryUnbroken'
    BY <2>3 DEF BlockerInv, Blocking!HistoryUnbroken,
            Blocking!GetLatestPublishedPtr, Blocking!GetLatestObservedPtr, Blocking!Blockers
  <2>5. \A b \in Blocking!Blockers : b > blockers' => published'[b] = <<>>
    BY <1>2, <1>t DEF Blocking!Blockers
  <2> QED
    BY <1>2, <1>t, <2>2, <2>4, <2>5
<1> QED
  BY <1>1, <1>2 DEF Blocking!GetOrCreateBlocker

(* A step of publisher p that leaves the lists and the callbacks alone. *)
LEMMA PublisherMoves ==
  ASSUME BlockerInv, NEW p \in Publishers,
         pub' \in [Publishers -> PublisherStates],
         \A q \in Publishers : q # p => pub'[q] = pub[q],
         pub'[p].step # "idle" => pub'[p].blocker \in 1 .. blockers',
         pub'[p].step = "notify" => pub'[p].calls \subseteq callbacks[pub'[p].blocker],
         UNCHANGED callbacks, blockers' \in 0 .. MaxBlockers, blockers <= blockers'
  PROVE  /\ \A q \in Publishers : pub'[q].step # "idle" => pub'[q].blocker \in 1 .. blockers'
         /\ CallsRegistered'
<1>1. ASSUME NEW q \in Publishers, q # p, pub'[q].step # "idle"
      PROVE  pub'[q].blocker \in 1 .. blockers'
  <2>1. pub[q].blocker \in 1 .. blockers /\ blockers \in Nat /\ blockers' \in Nat
    BY <1>1, BlockerConstants DEF BlockerInv, BlockerTypeOK, MadeBlockers
  <2> QED
    BY <1>1, <2>1
<1>2. ASSUME NEW q \in Publishers, q # p, pub'[q].step = "notify"
      PROVE  pub'[q].calls \subseteq callbacks'[pub'[q].blocker]
  BY <1>2 DEF BlockerInv, CallsRegistered
<1> QED
  BY <1>1, <1>2 DEF CallsRegistered

(* No step of a publisher disturbs the history or calls who unsubscribed. *)
LEMMA PublisherInv ==
  ASSUME BlockerInv, NEW p \in Publishers,
         \/ Blocking!PublishGet(p) \/ Blocking!EnqueueTest(p) \/ Blocking!EnqueuePush(p)
         \/ Blocking!Notify(p) \/ Blocking!NotifyEnd(p)
  PROVE  BlockerInv'
<1> DEFINE b == pub[p].blocker
<1>t. /\ pub \in [Publishers -> PublisherStates] /\ pub[p] \in PublisherStates
      /\ manager \in 0 .. MaxBlockers /\ blockers \in 0 .. MaxBlockers
      /\ MaxBlockers \in Nat /\ DefaultCapacity \in Nat
  BY BlockerConstants DEF BlockerInv, BlockerTypeOK
<1>r. b \in 0 .. MaxBlockers /\ pub[p].calls \in SUBSET CallbackIds /\ pub[p].step \in PublishSteps
  BY <1>t DEF PublisherStates
<1>u. pub[p].step # "idle" => b \in 1 .. blockers /\ b \in Blocking!Blockers
  BY <1>t DEF BlockerInv, MadeBlockers, Blocking!Blockers
<1>1. CASE Blocking!PublishGet(p)
  <2>1. /\ Blocking!GetOrCreateBlocker(DefaultCapacity)
        /\ UNCHANGED <<resetting, published, observed, callbacks, count>>
    BY <1>1 DEF Blocking!PublishGet
  <2>2. /\ manager' \in 1 .. blockers' /\ blockers' \in 0 .. MaxBlockers
        /\ blockers <= blockers'
        /\ limit' \in [Blocking!Blockers -> Nat]
        /\ \A c \in Blocking!Blockers : c > blockers' => published'[c] = <<>>
        /\ Blocking!HistoryUnbroken'
    BY <1>t, <2>1, GetOrCreate
  <2>4. manager' \in 0 .. MaxBlockers
    BY <1>t, <2>2
  <2>3. /\ pub' \in [Publishers -> PublisherStates]
        /\ pub'[p].step = "enqueue" /\ pub'[p].blocker = manager'
        /\ \A q \in Publishers : q # p => pub'[q] = pub[q]
    BY <1>1, <1>t, <2>4 DEF Blocking!PublishGet, PublisherStates, PublishSteps
  <2>5. /\ \A q \in Publishers : pub'[q].step # "idle" => pub'[q].blocker \in 1 .. blockers'
        /\ CallsRegistered'
    BY <2>1, <2>2, <2>3, PublisherMoves
  <2>6. BlockerTypeOK'
    BY <2>1, <2>2, <2>3, <2>4 DEF BlockerInv, BlockerTypeOK, Blocking!Blockers
  <2>7. MadeBlockers'
    BY <1>t, <2>2, <2>5 DEF MadeBlockers, Blocking!Blockers
  <2> QED
    BY <2>2, <2>5, <2>6, <2>7 DEF BlockerInv
<1>2. CASE Blocking!EnqueuePush(p)
  <2> DEFINE n == count[b]
             q == <<n + 1>> \o published[b]
             t == Blocking!Trimmed(q, limit[b])
  <2>1. /\ pub[p].step = "push" /\ count' = [count EXCEPT ![b] = n + 1]
        /\ published' = [published EXCEPT ![b] = t]
        /\ pub' = [pub EXCEPT ![p].step = "queued"]
        /\ UNCHANGED <<manager, blockers, resetting, observed, limit, callbacks>>
    <3>1. b \in Blocking!Blockers
      BY <1>2, <1>u DEF Blocking!EnqueuePush
    <3>2. count' = [count EXCEPT ![b] = n + 1] /\ count'[b] = n + 1
      BY <1>2, <3>1 DEF Blocking!EnqueuePush, BlockerInv, BlockerTypeOK
    <3> QED
      BY <1>2, <3>2 DEF Blocking!EnqueuePush
  <2>2. /\ b \in Blocking!Blockers /\ n \in Nat /\ published[b] \in Seq(Nat) /\ limit[b] \in Nat
        /\ Blocking!Run(published[b]) /\ (published[b] # <<>> => Head(published[b]) = n)
        /\ b \in 1 .. blockers
    BY <1>u, <2>1 DEF BlockerInv, BlockerTypeOK, Blocking!HistoryUnbroken,
            Blocking!GetLatestPublishedPtr, Blocking!GetLatestObservedPtr
  <2>3. q \in Seq(Nat) /\ Blocking!Run(q) /\ q # <<>> /\ Head(q) = n + 1
    BY <2>2, PushedRun
  <2> HIDE DEF q
  <2>4. /\ t \in Seq(Nat) /\ Len(t) <= limit[b] /\ Blocking!Run(t)
        /\ t # <<>> => Head(t) = n + 1
    BY <2>2, <2>3, TrimmedRun
  <2> HIDE DEF t, n
  <2>5. /\ count' \in [Blocking!Blockers -> Nat] /\ count'[b] = n + 1
        /\ published' \in [Blocking!Blockers -> Seq(Nat)] /\ published'[b] = t
        /\ \A c \in Blocking!Blockers : c # b => count'[c] = count[c] /\ published'[c] = published[c]
    <3> HIDE DEF b
    <3> QED
      BY <2>1, <2>2, <2>4 DEF BlockerInv, BlockerTypeOK
  <2>6. Blocking!HistoryUnbroken'
    <3> SUFFICES ASSUME NEW c \in Blocking!Blockers
                 PROVE  /\ Blocking!Run(published'[c]) /\ Len(published'[c]) <= limit[c]
                        /\ published'[c] # <<>> => Head(published'[c]) = count'[c]
                        /\ Blocking!Run(observed[c])
                        /\ observed[c] # <<>> => Head(observed[c]) <= count'[c]
      BY <2>1, Zenon DEF Blocking!HistoryUnbroken,
            Blocking!GetLatestPublishedPtr, Blocking!GetLatestObservedPtr, Blocking!Blockers, Blocking!Run
    <3>1. CASE c = b
      <4>1. observed[b] # <<>> => Head(observed[b]) \in Nat
        BY <2>2, HeadTailProperties DEF BlockerInv, BlockerTypeOK
      <4>2. observed[b] # <<>> => Head(observed[b]) <= n
        BY <2>2 DEF BlockerInv, Blocking!HistoryUnbroken,
            Blocking!GetLatestPublishedPtr, Blocking!GetLatestObservedPtr, n
      <4>3. observed[b] # <<>> => Head(observed[b]) <= n + 1
        BY <2>2, <4>1, <4>2
      <4>4. Blocking!Run(observed[b])
        BY <2>2 DEF BlockerInv, Blocking!HistoryUnbroken,
            Blocking!GetLatestPublishedPtr, Blocking!GetLatestObservedPtr
      <4> QED
        BY <2>4, <2>5, <3>1, <4>3, <4>4
    <3>2. CASE c # b
      BY <2>5, <3>2 DEF BlockerInv, Blocking!HistoryUnbroken,
            Blocking!GetLatestPublishedPtr, Blocking!GetLatestObservedPtr
    <3> QED
      BY <3>1, <3>2
  <2>7. /\ pub' \in [Publishers -> PublisherStates]
        /\ pub'[p].step = "queued" /\ pub'[p].blocker = b
        /\ \A other_p \in Publishers : other_p # p => pub'[other_p] = pub[other_p]
    BY <2>1, <1>t DEF PublisherStates, PublishSteps
  <2>8. /\ \A u \in Publishers : pub'[u].step # "idle" => pub'[u].blocker \in 1 .. blockers'
        /\ CallsRegistered'
    BY <1>t, <2>1, <2>2, <2>7, PublisherMoves
  <2>9. MadeBlockers'
    <3>1. \A c \in Blocking!Blockers : c > blockers => published'[c] = <<>>
      <4>1. ASSUME NEW c \in Blocking!Blockers, c > blockers
            PROVE  c # b /\ published[c] = <<>>
        BY <1>t, <2>2, <4>1 DEF BlockerInv, MadeBlockers, Blocking!Blockers
      <4> QED
        BY <2>5, <4>1
    <3> QED
      BY <2>1, <2>8, <3>1 DEF BlockerInv, MadeBlockers, Blocking!Blockers
  <2>10. BlockerTypeOK'
    BY <2>1, <2>5, <2>7 DEF BlockerInv, BlockerTypeOK, Blocking!Blockers
  <2> QED
    BY <2>6, <2>8, <2>9, <2>10 DEF BlockerInv
<1>3. ASSUME Blocking!EnqueueTest(p) \/ Blocking!Notify(p) \/ Blocking!NotifyEnd(p)
      PROVE  BlockerInv'
  <2>1. UNCHANGED <<manager, blockers, resetting, published, observed, limit, callbacks, count>>
    BY <1>3 DEF Blocking!EnqueueTest, Blocking!Notify, Blocking!NotifyEnd
  <2>2. /\ pub' \in [Publishers -> PublisherStates]
        /\ \A q \in Publishers : q # p => pub'[q] = pub[q]
        /\ pub'[p].step # "idle" => pub'[p].blocker \in 1 .. blockers
        /\ pub'[p].step = "notify" => pub'[p].calls \subseteq callbacks[pub'[p].blocker]
    <3>1. CASE Blocking!EnqueueTest(p)
      <4>1. b \in 1 .. blockers
        BY <1>u, <3>1 DEF Blocking!EnqueueTest
      <4> QED
        BY <1>t, <3>1, <4>1 DEF Blocking!EnqueueTest, PublisherStates, PublishSteps
    <3>2. CASE Blocking!Notify(p)
      <4>1. b \in 1 .. blockers /\ callbacks[b] \in SUBSET CallbackIds
        BY <1>u, <3>2 DEF Blocking!Notify, BlockerInv, BlockerTypeOK
      <4>2. /\ pub' \in [Publishers -> PublisherStates]
            /\ \A q \in Publishers : q # p => pub'[q] = pub[q]
            /\ pub'[p].blocker = b /\ pub'[p].calls = callbacks[b]
        BY <1>t, <3>2, <4>1 DEF Blocking!Notify, PublisherStates, PublishSteps
      <4> QED
        BY <4>1, <4>2
    <3>3. CASE Blocking!NotifyEnd(p)
      BY <1>t, <3>3
         DEF Blocking!NotifyEnd, Blocking!NotPublishing, PublisherStates, PublishSteps
    <3> QED
      BY <1>3, <3>1, <3>2, <3>3
  <2>3. /\ \A u \in Publishers : pub'[u].step # "idle" => pub'[u].blocker \in 1 .. blockers'
        /\ CallsRegistered'
    BY <1>t, <2>1, <2>2, PublisherMoves
  <2>4. BlockerTypeOK' /\ MadeBlockers'
    BY <2>1, <2>2, <2>3 DEF BlockerInv, BlockerTypeOK, MadeBlockers, Blocking!Blockers
  <2>5. Blocking!HistoryUnbroken'
    BY <2>1 DEF BlockerInv, Blocking!HistoryUnbroken,
            Blocking!GetLatestPublishedPtr, Blocking!GetLatestObservedPtr, Blocking!Run, Blocking!Blockers
  <2> QED
    BY <2>3, <2>4, <2>5 DEF BlockerInv
<1> QED
  BY <1>1, <1>2, <1>3

(* Callbacks change only while nobody calls them. *)
LEMMA CallbacksInv ==
  ASSUME BlockerInv, UserInv,
         \/ \E id \in CallbackIds : Blocking!Subscribe(id)
         \/ \E id \in CallbackIds : Blocking!Unsubscribe(id)
         \/ Blocking!ResetCallbacks
  PROVE  BlockerInv'
<1>t. /\ pub \in [Publishers -> PublisherStates]
      /\ manager \in 0 .. MaxBlockers /\ blockers \in 0 .. MaxBlockers
      /\ MaxBlockers \in Nat /\ Capacities \subseteq Nat
      /\ callbacks \in [Blocking!Blockers -> SUBSET CallbackIds]
  BY BlockerConstants DEF BlockerInv, BlockerTypeOK
<1>1. CASE \E id \in CallbackIds : Blocking!Subscribe(id)
  <2>1. PICK id \in CallbackIds : Blocking!Subscribe(id)
    BY <1>1
  <2> DEFINE b == user[id].blocker
  <2>2. /\ callbacks' = [callbacks EXCEPT ![b] = callbacks[b] \cup {id}]
        /\ UNCHANGED <<manager, blockers, published, observed, limit, count, pub>>
        /\ b \in 1 .. blockers
    BY <2>1 DEF Blocking!Subscribe, UserInv
  <2>3. b \in Blocking!Blockers
    BY <1>t, <2>2 DEF Blocking!Blockers
  <2>4. /\ callbacks' \in [Blocking!Blockers -> SUBSET CallbackIds]
        /\ \A c \in Blocking!Blockers : callbacks[c] \subseteq callbacks'[c]
    <3> HIDE DEF b
    <3> QED
      BY <1>t, <2>2, <2>3
  <2>5. BlockerTypeOK' /\ MadeBlockers'
    BY <2>2, <2>4 DEF BlockerInv, BlockerTypeOK, MadeBlockers, Blocking!Blockers
  <2>6. Blocking!HistoryUnbroken'
    BY <2>2 DEF BlockerInv, Blocking!HistoryUnbroken,
            Blocking!GetLatestPublishedPtr, Blocking!GetLatestObservedPtr, Blocking!Run, Blocking!Blockers
  <2>7. CallsRegistered'
    <3> SUFFICES ASSUME NEW p \in Publishers, pub[p].step = "notify"
                 PROVE  pub[p].calls \subseteq callbacks'[pub[p].blocker]
      BY <2>2 DEF CallsRegistered
    <3>1. pub[p].blocker \in Blocking!Blockers
      BY <1>t DEF BlockerInv, MadeBlockers, Blocking!Blockers
    <3> QED
      BY <2>4, <3>1 DEF BlockerInv, CallsRegistered
  <2> QED
    BY <2>5, <2>6, <2>7 DEF BlockerInv
<1>2. ASSUME (\E id \in CallbackIds : Blocking!Unsubscribe(id)) \/ Blocking!ResetCallbacks
      PROVE  BlockerInv'
  <2>1. PICK b \in 0 .. MaxBlockers, S \in SUBSET CallbackIds :
          /\ ~ Blocking!CallbacksLocked(b)
          /\ UNCHANGED <<blockers, published, observed, limit, count, pub>>
          /\ manager' \in {manager, 0}
          /\ callbacks' = [callbacks EXCEPT ![b] = S]
    <3>1. CASE \E id \in CallbackIds : Blocking!Unsubscribe(id)
      <4>1. PICK id \in CallbackIds : Blocking!Unsubscribe(id)
        BY <3>1
      <4> DEFINE c == user[id].blocker
      <4>2. /\ c \in 0 .. MaxBlockers /\ c \in 1 .. blockers /\ ~ Blocking!CallbacksLocked(c)
            /\ callbacks' = [callbacks EXCEPT ![c] = callbacks[c] \ {id}]
            /\ UNCHANGED <<manager, blockers, published, observed, limit, count, pub>>
        BY <4>1 DEF Blocking!Unsubscribe, Blocking!Unsubscribed, UserInv, UserStates
      <4> HIDE DEF c
      <4>3. callbacks[c] \in SUBSET CallbackIds
        BY <1>t, <4>2 DEF Blocking!Blockers
      <4>4. callbacks[c] \ {id} \in SUBSET CallbackIds
        BY <4>3
      <4> QED
        BY <4>2, <4>4
    <3>2. CASE Blocking!ResetCallbacks
      <4>1. {} \in SUBSET CallbackIds /\ callbacks' = [callbacks EXCEPT ![manager] = {}]
        BY <3>2 DEF Blocking!ResetCallbacks
      <4> QED
        BY <1>t, <3>2, <4>1 DEF Blocking!ResetCallbacks
    <3> QED
      BY <1>2, <3>1, <3>2
  <2>2. /\ callbacks' \in [Blocking!Blockers -> SUBSET CallbackIds]
        /\ \A c \in Blocking!Blockers : c # b => callbacks'[c] = callbacks[c]
    BY <1>t, <2>1
  <2>3. BlockerTypeOK'
    <3>1. manager' \in 0 .. MaxBlockers
      BY <1>t, <2>1
    <3> QED
      BY <2>1, <2>2, <3>1 DEF BlockerInv, BlockerTypeOK, Blocking!Blockers
  <2>4. MadeBlockers'
    <3>1. manager' <= blockers
      BY <1>t, <2>1 DEF BlockerInv, MadeBlockers
    <3> QED
      BY <2>1, <3>1 DEF BlockerInv, MadeBlockers, Blocking!Blockers
  <2>5. Blocking!HistoryUnbroken'
    BY <2>1 DEF BlockerInv, Blocking!HistoryUnbroken,
            Blocking!GetLatestPublishedPtr, Blocking!GetLatestObservedPtr, Blocking!Run, Blocking!Blockers
  <2>6. CallsRegistered'
    <3> SUFFICES ASSUME NEW p \in Publishers, pub[p].step = "notify"
                 PROVE  pub[p].calls \subseteq callbacks'[pub[p].blocker]
      BY <2>1 DEF CallsRegistered
    <3>1. pub[p].blocker \in Blocking!Blockers /\ pub[p].blocker # b
      BY <1>t, <2>1 DEF BlockerInv, MadeBlockers, Blocking!Blockers, Blocking!CallbacksLocked
    <3> QED
      BY <2>2, <3>1 DEF BlockerInv, CallsRegistered
  <2> QED
    BY <2>3, <2>4, <2>5, <2>6 DEF BlockerInv
<1> QED
  BY <1>1, <1>2

(***************************************************************************)
(* Observing, clearing and resizing change the lists of blocker b alone,   *)
(* to shorter ones or to copies.                                           *)
(***************************************************************************)
LEMMA ListsInv ==
  ASSUME BlockerInv, NEW b \in Blocking!Blockers, b <= blockers,
         NEW l \in Seq(Nat), NEW o \in Seq(Nat), NEW cap \in Nat,
         Blocking!Run(l), Len(l) <= cap, l # <<>> => Head(l) = count[b],
         Blocking!Run(o), o # <<>> => Head(o) <= count[b],
         published' = [published EXCEPT ![b] = l],
         observed' = [observed EXCEPT ![b] = o],
         limit' = [limit EXCEPT ![b] = cap],
         UNCHANGED <<manager, blockers, callbacks, count, pub>>
  PROVE  BlockerInv'
<1>1. /\ published' \in [Blocking!Blockers -> Seq(Nat)] /\ published'[b] = l
      /\ observed' \in [Blocking!Blockers -> Seq(Nat)] /\ observed'[b] = o
      /\ limit' \in [Blocking!Blockers -> Nat] /\ limit'[b] = cap
      /\ \A c \in Blocking!Blockers : c # b => /\ published'[c] = published[c]
                                               /\ observed'[c] = observed[c]
                                               /\ limit'[c] = limit[c]
  BY DEF BlockerInv, BlockerTypeOK
<1>2. BlockerTypeOK'
  BY <1>1 DEF BlockerInv, BlockerTypeOK, Blocking!Blockers
<1>3. Blocking!HistoryUnbroken'
  <2> SUFFICES ASSUME NEW c \in Blocking!Blockers
               PROVE  /\ Blocking!Run(published'[c]) /\ Len(published'[c]) <= limit'[c]
                      /\ published'[c] # <<>> => Head(published'[c]) = count[c]
                      /\ Blocking!Run(observed'[c])
                      /\ observed'[c] # <<>> => Head(observed'[c]) <= count[c]
    BY Zenon DEF Blocking!HistoryUnbroken,
            Blocking!GetLatestPublishedPtr, Blocking!GetLatestObservedPtr, Blocking!Blockers, Blocking!Run
  <2>1. CASE c = b
    BY <1>1, <2>1
  <2>2. CASE c # b
    BY <1>1, <2>2 DEF BlockerInv, Blocking!HistoryUnbroken,
            Blocking!GetLatestPublishedPtr, Blocking!GetLatestObservedPtr
  <2> QED
    BY <2>1, <2>2
<1>4. MadeBlockers'
  <2>1. ASSUME NEW c \in Blocking!Blockers, c > blockers
        PROVE  published'[c] = <<>>
    <3>1. c # b
      BY <2>1 DEF BlockerInv, BlockerTypeOK, Blocking!Blockers
    <3> QED
      BY <1>1, <2>1, <3>1 DEF BlockerInv, MadeBlockers
  <2> QED
    BY <2>1 DEF BlockerInv, MadeBlockers, Blocking!Blockers
<1>5. CallsRegistered'
  BY DEF BlockerInv, CallsRegistered
<1> QED
  BY <1>2, <1>3, <1>4, <1>5 DEF BlockerInv

(* A blocker is looked up. *)
LEMMA SubscribeGetInv ==
  ASSUME BlockerInv, NEW id \in CallbackIds, NEW cap \in Capacities,
         Blocking!SubscribeGet(id, cap)
  PROVE  BlockerInv'
<1>1. /\ Blocking!GetOrCreateBlocker(cap) /\ cap \in Nat
      /\ UNCHANGED <<published, observed, callbacks, count, pub>>
  BY BlockerConstants DEF Blocking!SubscribeGet
<1>2. /\ manager' \in 1 .. blockers' /\ blockers' \in 0 .. MaxBlockers
      /\ blockers <= blockers' /\ limit' \in [Blocking!Blockers -> Nat]
      /\ \A c \in Blocking!Blockers : c > blockers' => published'[c] = <<>>
      /\ Blocking!HistoryUnbroken'
  BY <1>1, GetOrCreate
<1>3. /\ manager' \in 0 .. MaxBlockers /\ manager' <= blockers'
      /\ \A p \in Publishers : pub[p].step # "idle" => pub[p].blocker \in 1 .. blockers'
  BY <1>2, BlockerConstants DEF BlockerInv, BlockerTypeOK, MadeBlockers
<1>4. BlockerTypeOK' /\ MadeBlockers'
  BY <1>1, <1>2, <1>3 DEF BlockerInv, BlockerTypeOK, MadeBlockers, Blocking!Blockers
<1>5. CallsRegistered'
  BY <1>1 DEF BlockerInv, CallsRegistered
<1> QED
  BY <1>2, <1>4, <1>5 DEF BlockerInv

(* The invariant holds of every step of the blockers. *)
LEMMA BlockerStep ==
  BlockerInv /\ UserInv /\ [Blocking!BlockerNext]_Blocking!blockerVars => BlockerInv'
<1> SUFFICES ASSUME BlockerInv, UserInv, [Blocking!BlockerNext]_Blocking!blockerVars
             PROVE  BlockerInv'
  OBVIOUS
<1>b. blockers \in 0 .. MaxBlockers /\ MaxBlockers \in Nat /\ manager \in 0 .. blockers
  BY BlockerConstants DEF BlockerInv, BlockerTypeOK, MadeBlockers
<1>m. ASSUME NEW b \in 1 .. blockers
      PROVE  /\ b \in Blocking!Blockers /\ b <= blockers
             /\ published[b] \in Seq(Nat) /\ observed[b] \in Seq(Nat)
             /\ limit[b] \in Nat /\ count[b] \in Nat
             /\ published = [published EXCEPT ![b] = published[b]]
             /\ observed = [observed EXCEPT ![b] = observed[b]]
             /\ limit = [limit EXCEPT ![b] = limit[b]]
  <2>1. b \in Blocking!Blockers /\ b <= blockers
    BY <1>b DEF Blocking!Blockers
  <2> QED
    BY <2>1 DEF BlockerInv, BlockerTypeOK
<1>h. ASSUME NEW b \in 1 .. blockers
      PROVE  /\ Blocking!Run(published[b]) /\ Len(published[b]) <= limit[b]
             /\ published[b] # <<>> => Head(published[b]) = count[b]
             /\ Blocking!Run(observed[b])
             /\ observed[b] # <<>> => Head(observed[b]) <= count[b]
  BY <1>m DEF BlockerInv, Blocking!HistoryUnbroken,
            Blocking!GetLatestPublishedPtr, Blocking!GetLatestObservedPtr
<1>e. <<>> \in Seq(Nat) /\ Blocking!Run(<<>>) /\ Len(<<>>) = 0
  BY EmptySeq DEF Blocking!Run
<1>1. ASSUME NEW p \in Publishers,
             \/ Blocking!PublishGet(p) \/ Blocking!EnqueueTest(p) \/ Blocking!EnqueuePush(p)
             \/ Blocking!Notify(p) \/ Blocking!NotifyEnd(p)
      PROVE  BlockerInv'
  BY <1>1, PublisherInv
<1>2. ASSUME NEW id \in CallbackIds, NEW cap \in Capacities, Blocking!SubscribeGet(id, cap)
      PROVE  BlockerInv'
  BY <1>2, SubscribeGetInv
<1>3. ASSUME NEW id \in CallbackIds, Blocking!Subscribe(id) \/ Blocking!Unsubscribe(id)
      PROVE  BlockerInv'
  BY <1>3, CallbacksInv
<1>4. CASE Blocking!ResetCallbacks
  BY <1>4, CallbacksInv
<1>5. ASSUME NEW b \in 1 .. blockers, Blocking!Observe(b)
      PROVE  BlockerInv'
  <2>1. published[b] # <<>> => Head(published[b]) <= count[b]
    BY <1>m, <1>h
  <2>2. b \in Blocking!Blockers /\ b <= blockers
    BY <1>m
  <2> QED
    BY <1>5, <1>m, <1>h, <2>1, <2>2, ListsInv DEF Blocking!Observe
<1>6. ASSUME NEW b \in 1 .. blockers, Blocking!ClearPublished(b)
      PROVE  BlockerInv'
  <2>1. Len(<<>>) <= limit[b]
    BY <1>m, <1>e
  <2>2. b \in Blocking!Blockers /\ b <= blockers
    BY <1>m
  <2> QED
    BY <1>6, <1>m, <1>h, <1>e, <2>1, <2>2, ListsInv DEF Blocking!ClearPublished
<1>7. ASSUME NEW b \in 1 .. blockers, Blocking!ClearObserved(b)
      PROVE  BlockerInv'
  <2>1. b \in Blocking!Blockers /\ b <= blockers
    BY <1>m
  <2> QED
    BY <1>7, <1>m, <1>h, <1>e, <2>1, ListsInv DEF Blocking!ClearObserved
<1>8. ASSUME NEW b \in 1 .. blockers, NEW cap \in Capacities, Blocking!set_capacity(b, cap)
      PROVE  BlockerInv'
  <2> DEFINE t == Blocking!Trimmed(published[b], cap)
  <2>1. cap \in Nat
    BY BlockerConstants
  <2>2. /\ t \in Seq(Nat) /\ Len(t) <= cap /\ Blocking!Run(t)
        /\ t # <<>> => Head(t) = count[b]
    BY <1>m, <1>h, <2>1, TrimmedRun
  <2>3. /\ published' = [published EXCEPT ![b] = t]
        /\ limit' = [limit EXCEPT ![b] = cap]
        /\ UNCHANGED <<manager, blockers, observed, callbacks, count, pub>>
    BY <1>8 DEF Blocking!set_capacity
  <2>4. b \in Blocking!Blockers /\ b <= blockers
    BY <1>m
  <2> HIDE DEF t
  <2> QED
    BY <1>m, <1>h, <2>1, <2>2, <2>3, <2>4, ListsInv
<1>9. CASE Blocking!ResetLists
  <2>1. manager \in 1 .. blockers
    BY <1>9, <1>b DEF Blocking!ResetLists
  <2>2. Len(<<>>) <= limit[manager]
    BY <1>m, <1>e, <2>1
  <2>3. manager \in Blocking!Blockers /\ manager <= blockers
    BY <1>m, <2>1
  <2> QED
    BY <1>9, <1>m, <1>h, <1>e, <2>1, <2>2, <2>3, ListsInv DEF Blocking!ResetLists
<1>10. ASSUME \/ UNCHANGED Blocking!blockerVars
              \/ \E id \in CallbackIds : Blocking!UnsubscribeGet(id)
       PROVE  BlockerInv'
  <2>1. UNCHANGED <<manager, blockers, published, observed, limit, callbacks, count, pub>>
    BY <1>10 DEF Blocking!blockerVars, Blocking!UnsubscribeGet
  <2> QED
    BY <2>1
       DEF BlockerInv, BlockerTypeOK, MadeBlockers, Blocking!Blockers,
           Blocking!HistoryUnbroken,
            Blocking!GetLatestPublishedPtr, Blocking!GetLatestObservedPtr, Blocking!Run, CallsRegistered
<1> QED
  BY <1>1, <1>2, <1>3, <1>4, <1>5, <1>6, <1>7, <1>8, <1>9, <1>10 DEF Blocking!BlockerNext

(* A step that leaves the users alone: a blocker may be made for the map. *)
LEMMA UsersLeftAlone ==
  ASSUME BlockerInv, UserInv, UNCHANGED <<user, subscribed, strayed, callbacks>>,
         blockers' \in 0 .. MaxBlockers, blockers <= blockers',
         manager' = manager \/ manager = 0
  PROVE  UserInv'
<1>1. /\ blockers \in 0 .. MaxBlockers /\ MaxBlockers \in Nat
      /\ blockers \in Nat /\ blockers' \in Nat
  BY BlockerConstants DEF BlockerInv, BlockerTypeOK
<1>2. ASSUME NEW id \in CallbackIds, user[id].step # "out"
      PROVE  user[id].blocker \in 1 .. blockers' /\ user[id].blocker # 0
  <2>1. user[id].blocker \in 1 .. blockers
    BY <1>2 DEF UserInv
  <2> QED
    BY <1>1, <2>1
<1>3. ASSUME NEW id \in CallbackIds, user[id].step = "unsubscribe", id \in subscribed
      PROVE  user[id].blocker = manager'
  BY <1>2, <1>3 DEF UserInv
<1>4. \A b \in Blocking!Blockers : b = manager => b = manager'
  BY DEF Blocking!Blockers
<1>5. Registered'
  BY <1>4 DEF UserInv, Registered, Blocking!Blockers
<1> QED
  BY <1>2, <1>3, <1>5 DEF UserInv

(* Nobody is registered twice or elsewhere, whatever Resets come between. *)
LEMMA UserStep ==
  BlockerInv /\ UserInv /\ [Blocking!BlockerNext]_Blocking!blockerVars => UserInv'
<1> SUFFICES ASSUME BlockerInv, UserInv, [Blocking!BlockerNext]_Blocking!blockerVars
             PROVE  UserInv'
  OBVIOUS
<1>t. /\ manager \in 0 .. blockers /\ blockers \in 0 .. MaxBlockers
      /\ MaxBlockers \in Nat /\ Capacities \subseteq Nat /\ DefaultCapacity \in Nat
      /\ callbacks \in [Blocking!Blockers -> SUBSET CallbackIds]
      /\ user \in [CallbackIds -> UserStates]
  BY BlockerConstants DEF BlockerInv, BlockerTypeOK, MadeBlockers, UserInv
<1>g. ASSUME NEW cap \in Nat, Blocking!GetOrCreateBlocker(cap),
             UNCHANGED <<published, observed, count>>
      PROVE  /\ manager' \in 1 .. blockers' /\ blockers' \in 0 .. MaxBlockers
             /\ blockers <= blockers' /\ (manager' = manager \/ manager = 0)
  <2>1. /\ manager' \in 1 .. blockers' /\ blockers' \in 0 .. MaxBlockers
        /\ blockers <= blockers'
    BY <1>g, GetOrCreate
  <2> QED
    BY <1>g, <2>1 DEF Blocking!GetOrCreateBlocker
<1>1. ASSUME NEW p \in Publishers, Blocking!PublishGet(p)
      PROVE  UserInv'
  <2>1. /\ Blocking!GetOrCreateBlocker(DefaultCapacity)
        /\ UNCHANGED <<published, observed, count, callbacks, user, subscribed, strayed>>
    BY <1>1 DEF Blocking!PublishGet, Blocking!userVars
  <2> QED
    BY <1>t, <1>g, <2>1, UsersLeftAlone
<1>2. ASSUME NEW id \in CallbackIds, NEW cap \in Capacities, Blocking!SubscribeGet(id, cap)
      PROVE  UserInv'
  <2>1. /\ Blocking!GetOrCreateBlocker(cap) /\ cap \in Nat
        /\ UNCHANGED <<published, observed, count, callbacks, subscribed, strayed>>
        /\ user' = [user EXCEPT ![id] = [step |-> "subscribe", blocker |-> manager']]
    BY <1>2, <1>t DEF Blocking!SubscribeGet
  <2>2. /\ manager' \in 1 .. blockers' /\ blockers' \in 0 .. MaxBlockers
        /\ blockers <= blockers' /\ (manager' = manager \/ manager = 0)
    BY <1>g, <2>1
  <2>3. manager' \in 0 .. MaxBlockers /\ blockers \in Nat /\ blockers' \in Nat
    BY <1>t, <2>2
  <2>4. /\ user' \in [CallbackIds -> UserStates]
        /\ user'[id] = [step |-> "subscribe", blocker |-> manager']
        /\ \A x \in CallbackIds : x # id => user'[x] = user[x]
    BY <1>t, <2>1, <2>3 DEF UserStates
  <2>5. ASSUME NEW x \in CallbackIds, user'[x].step # "out"
        PROVE  user'[x].blocker \in 1 .. blockers'
    <3>1. CASE x = id
      BY <2>2, <2>4, <3>1
    <3>2. CASE x # id
      <4>1. user[x].blocker \in 1 .. blockers /\ user'[x] = user[x]
        BY <2>4, <2>5, <3>2 DEF UserInv
      <4> QED
        BY <2>2, <2>3, <4>1
    <3> QED
      BY <3>1, <3>2
  <2>6. ASSUME NEW x \in CallbackIds, user'[x].step = "unsubscribe", x \in subscribed'
        PROVE  user'[x].blocker = manager'
    <3>1. x # id
      BY <2>4, <2>6
    <3>2. user[x].blocker \in 1 .. blockers /\ user[x].blocker = manager
      BY <2>1, <2>4, <2>6, <3>1 DEF UserInv
    <3> QED
      BY <1>t, <2>2, <2>4, <3>1, <3>2
  <2>7. Registered'
    <3>1. \A b \in Blocking!Blockers : b = manager => b = manager'
      BY <2>2 DEF Blocking!Blockers
    <3> QED
      BY <2>1, <3>1 DEF UserInv, Registered, Blocking!Blockers
  <2> QED
    BY <2>4, <2>5, <2>6, <2>7 DEF UserInv
<1>3. ASSUME NEW id \in CallbackIds, Blocking!Subscribe(id)
      PROVE  UserInv'
  <2> DEFINE b == user[id].blocker
  <2>1. /\ callbacks' = [callbacks EXCEPT ![b] = callbacks[b] \cup {id}]
        /\ user' = [user EXCEPT ![id] = Blocking!NotCalling]
        /\ subscribed' = subscribed \cup {id}
        /\ strayed' = strayed \cup (IF b = manager THEN {} ELSE {<<b, id>>})
        /\ UNCHANGED <<manager, blockers>>
    BY <1>3 DEF Blocking!Subscribe
  <2>2. /\ user' \in [CallbackIds -> UserStates] /\ user'[id].step = "out"
        /\ \A x \in CallbackIds : x # id => user'[x] = user[x]
    BY <1>t, <2>1 DEF UserStates, Blocking!NotCalling
  <2>3. Registered'
    <3> SUFFICES ASSUME NEW c \in Blocking!Blockers, NEW x \in callbacks'[c]
                 PROVE  (x \in subscribed' /\ c = manager) \/ <<c, x>> \in strayed'
      BY <2>1, Zenon DEF Registered, Blocking!Blockers
    <3>1. CASE x \in callbacks[c]
      BY <2>1, <3>1 DEF UserInv, Registered
    <3>2. CASE x \notin callbacks[c]
      <4> HIDE DEF b
      <4>1. c = b /\ x = id
        BY <1>t, <2>1, <3>2
      <4> QED
        BY <2>1, <4>1
    <3> QED
      BY <3>1, <3>2
  <2> QED
    BY <2>1, <2>2, <2>3 DEF UserInv
<1>4. ASSUME NEW id \in CallbackIds, Blocking!UnsubscribeGet(id)
      PROVE  UserInv'
  <2>1. UNCHANGED <<manager, blockers, callbacks, strayed>>
    BY <1>4 DEF Blocking!UnsubscribeGet
  <2>2. CASE manager = 0 /\ subscribed' = subscribed \ {id} /\ UNCHANGED user
    <3>1. Registered'
      <4>1. \A b \in Blocking!Blockers : b # manager
        BY <2>2 DEF Blocking!Blockers
      <4> QED
        BY <2>1, <4>1 DEF UserInv, Registered, Blocking!Blockers
    <3> QED
      BY <2>1, <2>2, <3>1 DEF UserInv
  <2>3. CASE /\ manager # 0 /\ UNCHANGED subscribed
             /\ user' = [user EXCEPT ![id] = [step |-> "unsubscribe", blocker |-> manager]]
    <3>1. manager \in 1 .. blockers /\ manager \in 0 .. MaxBlockers
      BY <1>t, <2>3
    <3>2. /\ user' \in [CallbackIds -> UserStates] /\ user'[id].blocker = manager
          /\ \A x \in CallbackIds : x # id => user'[x] = user[x]
      BY <1>t, <2>3, <3>1 DEF UserStates
    <3>3. Registered'
      BY <2>1, <2>3 DEF UserInv, Registered, Blocking!Blockers
    <3> QED
      BY <2>1, <2>3, <3>1, <3>2, <3>3 DEF UserInv
  <2> QED
    BY <1>4, <2>2, <2>3 DEF Blocking!UnsubscribeGet
<1>5. ASSUME NEW id \in CallbackIds, Blocking!Unsubscribe(id)
      PROVE  UserInv'
  <2> DEFINE b == user[id].blocker
  <2>1. /\ user[id].step = "unsubscribe"
        /\ callbacks' = [callbacks EXCEPT ![b] = callbacks[b] \ {id}]
        /\ user' = [user EXCEPT ![id] = Blocking!NotCalling]
        /\ subscribed' = subscribed \ {id}
        /\ UNCHANGED <<manager, blockers, strayed>>
    BY <1>5 DEF Blocking!Unsubscribe, Blocking!Unsubscribed
  <2>2. /\ user' \in [CallbackIds -> UserStates] /\ user'[id].step = "out"
        /\ \A x \in CallbackIds : x # id => user'[x] = user[x]
    BY <1>t, <2>1 DEF UserStates, Blocking!NotCalling
  <2>3. Registered'
    <3> SUFFICES ASSUME NEW c \in Blocking!Blockers, NEW x \in callbacks'[c]
                 PROVE  (x \in subscribed' /\ c = manager) \/ <<c, x>> \in strayed
      BY <2>1, Zenon DEF Registered, Blocking!Blockers
    <3>1. x \in callbacks[c] /\ (c = b => x # id)
      <4> HIDE DEF b
      <4> QED
        BY <1>t, <2>1
    <3>2. (x \in subscribed /\ c = manager) \/ <<c, x>> \in strayed
      BY <3>1 DEF UserInv, Registered
    <3>3. x = id /\ id \in subscribed => b = manager
      BY <2>1 DEF UserInv
    <3> QED
      BY <2>1, <3>1, <3>2, <3>3
  <2> QED
    BY <2>1, <2>2, <2>3 DEF UserInv
<1>6. CASE Blocking!ResetCallbacks
  <2>1. /\ callbacks' = [callbacks EXCEPT ![manager] = {}] /\ manager' = 0
        /\ subscribed' = {} /\ UNCHANGED <<blockers, user, strayed>>
    BY <1>6 DEF Blocking!ResetCallbacks
  <2>2. Registered'
    <3> SUFFICES ASSUME NEW c \in Blocking!Blockers, NEW x \in callbacks'[c]
                 PROVE  <<c, x>> \in strayed
      BY <2>1, Zenon DEF Registered, Blocking!Blockers
    <3>1. c # manager /\ x \in callbacks[c]
      BY <1>t, <2>1
    <3> QED
      BY <3>1 DEF UserInv, Registered
  <2> QED
    BY <2>1, <2>2 DEF UserInv
<1>7. ASSUME \/ \E p \in Publishers : \/ Blocking!EnqueueTest(p) \/ Blocking!EnqueuePush(p)
                                      \/ Blocking!Notify(p) \/ Blocking!NotifyEnd(p)
             \/ \E b \in 1 .. blockers :
                  \/ Blocking!Observe(b) \/ Blocking!ClearPublished(b) \/ Blocking!ClearObserved(b)
                  \/ \E cap \in Capacities : Blocking!set_capacity(b, cap)
             \/ Blocking!ResetLists \/ UNCHANGED Blocking!blockerVars
      PROVE  UserInv'
  <2>1. UNCHANGED <<manager, blockers, callbacks, user, subscribed, strayed>>
    BY <1>7
       DEF Blocking!EnqueueTest, Blocking!EnqueuePush, Blocking!Notify, Blocking!NotifyEnd,
           Blocking!Observe, Blocking!ClearPublished, Blocking!ClearObserved,
           Blocking!set_capacity, Blocking!ResetLists, Blocking!userVars, Blocking!blockerVars
  <2> QED
    BY <1>t, <2>1, UsersLeftAlone
<1> QED
  BY <1>1, <1>2, <1>3, <1>4, <1>5, <1>6, <1>7 DEF Blocking!BlockerNext

(***************************************************************************)
(* A blocker's history has no holes, and no callback runs once its         *)
(* Unsubscribe or a Reset has returned, but for a Subscribe that           *)
(* overlapped with a Reset, for any number of publishers, callbacks,       *)
(* blockers and messages.                                                  *)
(***************************************************************************)
THEOREM BlockersKeepOrder == Blocking!BlockerSpec => []BlockersOrderly
<1>1. Blocking!BlockerInit => BlockerInv /\ UserInv
  <2> SUFFICES ASSUME Blocking!BlockerInit
               PROVE  BlockerInv /\ UserInv
    OBVIOUS
  <2>1. <<>> \in Seq(Nat) /\ Blocking!Run(<<>>) /\ Len(<<>>) = 0
    BY EmptySeq DEF Blocking!Run
  <2>2. BlockerTypeOK
    BY <2>1, BlockerConstants
       DEF Blocking!BlockerInit, BlockerTypeOK, Blocking!NotPublishing, PublisherStates, PublishSteps
  <2>3. MadeBlockers
    BY DEF Blocking!BlockerInit, MadeBlockers, Blocking!NotPublishing
  <2>4. Blocking!HistoryUnbroken
    BY <2>1 DEF Blocking!BlockerInit, Blocking!HistoryUnbroken,
            Blocking!GetLatestPublishedPtr, Blocking!GetLatestObservedPtr
  <2>5. CallsRegistered
    BY DEF Blocking!BlockerInit, CallsRegistered, Blocking!NotPublishing
  <2>6. UserInv
    BY BlockerConstants
       DEF Blocking!BlockerInit, UserInv, UserStates, Blocking!NotCalling, Registered
  <2> QED
    BY <2>2, <2>3, <2>4, <2>5, <2>6 DEF BlockerInv
<1>2. BlockerInv /\ UserInv => BlockersOrderly
  <2> SUFFICES ASSUME BlockerInv, UserInv
               PROVE  Blocking!UnsubscribedIsQuiet
    BY DEF BlockerInv, BlockersOrderly
  <2> SUFFICES ASSUME NEW b \in Blocking!Blockers, NEW id \in CallbackIds \ subscribed,
                      <<b, id>> \notin strayed
               PROVE  /\ id \notin callbacks[b]
                      /\ \A p \in Publishers :
                           pub[p].step = "notify" /\ pub[p].blocker = b => id \notin pub[p].calls
    BY DEF Blocking!UnsubscribedIsQuiet
  <2>1. id \notin callbacks[b]
    BY DEF UserInv, Registered
  <2> QED
    BY <2>1 DEF BlockerInv, CallsRegistered
<1> QED
  BY <1>1, <1>2, BlockerStep, UserStep, PTL DEF Blocking!BlockerSpec

-----------------------------------------------------------------------------
(* The fusion of channels (DataFusion). *)

Tuples == [1 .. Others + 1 -> Nat]
Rings(S) == [head : Nat, tail : Nat, slots : [0 .. capacity - 1 -> S]]

(* The first message but one of a ring, as CacheBuffer::Fill moves it on.  *)
HeadExact(b) == b.head = IF b.tail > Size THEN b.tail - Size ELSE 0

(* The tuples a visitor may still fetch, by number. *)
InRing(j) == j \in 1 .. fused.tail /\ (j > fused.head \/ j = fused.tail)
TupleAt(j) == fused.slots[GetIndex(j)]

(* Tuple t was made before tuple u. *)
Before(t, u) == t[1] < u[1] /\ \A i \in 1 .. Others : t[i + 1] <= u[i + 1]

(* Tuple t was made before the callback under way, if there is one. *)
MadeBefore(t) ==
  /\ t \in Tuples /\ t[1] <= sent /\ (fusing # <<>> => t[1] < sent)
  /\ \A i \in 1 .. Others : t[i + 1] <= other[i].tail
  /\ \A i \in 1 .. Others : i < Len(fusing) => t[i + 1] <= fusing[i + 1]

FusionTypeOK ==
  /\ other \in [1 .. Others -> Rings(Nat)] /\ fused \in Rings(Tuples \cup {0})
  /\ sent \in Nat /\ cursor \in Nat /\ got \in Tuples
  /\ since \in [1 .. Others -> Nat]
  /\ fusing \in Seq(Nat) /\ Len(fusing) <= Others + 1

(* The newest message of each other channel is where Latest reads it. *)
OthersLatest ==
  \A i \in 1 .. Others :
    HeadExact(other[i]) /\ other[i].slots[GetIndex(other[i].tail)] = other[i].tail

(* The callback pairs its message with what was latest since it began. *)
CallbackReads ==
  /\ fusing # <<>> => fusing[1] = sent
  /\ \A i \in 1 .. Others :
       /\ since[i] <= other[i].tail
       /\ i < Len(fusing) => fusing[i + 1] \in since[i] .. other[i].tail

(* Tuples are in the ring in the order in which they were made. *)
TuplesInOrder ==
  /\ HeadExact(fused) /\ cursor <= fused.tail + 1
  /\ MadeBefore(got)
  /\ \A j \in Nat : InRing(j) => MadeBefore(TupleAt(j)) /\ (j >= cursor => Before(got, TupleAt(j)))
  /\ \A j, k \in Nat : InRing(j) /\ InRing(k) /\ j < k => Before(TupleAt(j), TupleAt(k))

FusionInv == FusionTypeOK /\ OthersLatest /\ CallbackReads /\ TuplesInOrder

(* The operators on rings are those of CacheBuffer. *)
LEMMA SameRing ==
  /\ Fusion!capacity = capacity
  /\ \A pos \in Nat : Fusion!GetIndex(pos) = GetIndex(pos)
  BY DEF Fusion!capacity, capacity, Fusion!GetIndex, GetIndex

(* Fill stores a value in the slot after the newest one. *)
LEMMA FillRing ==
  ASSUME NEW S, NEW b \in Rings(S), NEW v \in S, HeadExact(b)
  PROVE  /\ Fusion!Fill(b, v) \in Rings(S) /\ HeadExact(Fusion!Fill(b, v))
         /\ Fusion!Fill(b, v).tail = b.tail + 1
         /\ b.head <= Fusion!Fill(b, v).head
         /\ Fusion!Fill(b, v).slots = [b.slots EXCEPT ![GetIndex(b.tail + 1)] = v]
<1> DEFINE t == b.tail
           h == b.head
           slots == b.slots
           full == capacity - 1 = t - h
<1>1. t \in Nat /\ h \in Nat /\ slots \in [0 .. capacity - 1 -> S]
  BY DEF Rings
<1>2. h = IF t > Size THEN t - Size ELSE 0
  BY DEF HeadExact
<1>3. full => t + 1 = h + capacity
  BY <1>1, CapacityPositive
<1>4. GetIndex(t + 1) \in 0 .. capacity - 1 /\ (full => GetIndex(h) = GetIndex(t + 1))
  <2>1. GetIndex(t + 1) \in 0 .. capacity - 1
    BY <1>1, IndexType
  <2>2. GetIndex(h + capacity) = GetIndex(h)
    BY <1>1, IndexWraps
  <2> QED
    BY <1>3, <2>1, <2>2
<1>5. /\ Fusion!Full(b) <=> full
      /\ Fusion!GetIndex(h) = GetIndex(h) /\ Fusion!GetIndex(t + 1) = GetIndex(t + 1)
  BY <1>1, SameRing DEF Fusion!Full
<1> DEFINE s == [slots EXCEPT ![GetIndex(t + 1)] = v]
           g == IF full THEN h + 1 ELSE h
<1>6. Fusion!Fill(b, v) = [head |-> g, tail |-> t + 1, slots |-> s]
  <2>1. b = [head |-> h, tail |-> t, slots |-> slots]
    BY DEF Rings
  <2>2. CASE full
    <3>1. Fusion!Fill(b, v) = [b EXCEPT !.slots[GetIndex(h)] = v, !.head = @ + 1, !.tail = @ + 1]
      BY <1>5, <2>2 DEF Fusion!Fill
    <3> QED
      BY <1>4, <2>1, <2>2, <3>1
  <2>3. CASE ~ full
    <3>1. Fusion!Fill(b, v) = [b EXCEPT !.slots[GetIndex(t + 1)] = v, !.tail = @ + 1]
      BY <1>5, <2>3 DEF Fusion!Fill
    <3> QED
      BY <2>1, <2>3, <3>1
  <2> QED
    BY <2>2, <2>3
<1>7. s \in [0 .. capacity - 1 -> S]
  BY <1>1, <1>4
<1>8. g = IF t + 1 > Size THEN t + 1 - Size ELSE 0
  BY <1>1, <1>2, SizeAssumption DEF capacity
<1>9. g \in Nat /\ h <= g
  BY <1>1
<1> HIDE DEF t, h, slots, s, g
<1> QED
  <2> DEFINE r == Fusion!Fill(b, v)
  <2>1. r.head = g /\ r.tail = t + 1 /\ r.slots = s
    BY <1>6
  <2>2. r \in Rings(S)
    BY <1>1, <1>6, <1>7, <1>9 DEF Rings
  <2> HIDE DEF r
  <2>3. HeadExact(r)
    BY <1>1, <1>8, <2>1, SizeAssumption DEF HeadExact
  <2> QED
    BY <1>9, <2>1, <2>2, <2>3 DEF r, s, t, h, slots

(* What is older stays older while the other channels go on. *)
LEMMA MadeBeforeKept ==
  ASSUME NEW t, MadeBefore(t), UNCHANGED <<sent, fusing>>,
         \A i \in 1 .. Others : /\ other[i].tail \in Nat /\ other'[i].tail \in Nat
                                /\ other[i].tail <= other'[i].tail
  PROVE  MadeBefore(t)'
<1>1. \A i \in 1 .. Others : t[i + 1] \in Nat
  BY FusionConstants DEF MadeBefore, Tuples
<1>2. \A i \in 1 .. Others : t[i + 1] <= other'[i].tail
  BY <1>1 DEF MadeBefore
<1> QED
  BY <1>2 DEF MadeBefore

(* The tuples stay in order when none is made or fetched. *)
LEMMA OrderKept ==
  ASSUME TuplesInOrder, UNCHANGED <<fused, cursor, got>>,
         \A t : MadeBefore(t) => MadeBefore(t)'
  PROVE  TuplesInOrder'
<1>1. MadeBefore(got)'
  <2>1. PICK t : t = got
    OBVIOUS
  <2>2. MadeBefore(t)'
    BY <2>1 DEF TuplesInOrder
  <2> QED
    BY <2>1, <2>2 DEF MadeBefore
<1>2. ASSUME NEW j \in Nat, InRing(j)
      PROVE  MadeBefore(TupleAt(j))'
  <2>1. PICK t : t = TupleAt(j)
    OBVIOUS
  <2>2. MadeBefore(t)'
    BY <1>2, <2>1 DEF TuplesInOrder
  <2>3. TupleAt(j)' = t
    BY <2>1 DEF TupleAt
  <2> QED
    BY <2>2, <2>3 DEF MadeBefore
<1>3. \A j \in Nat : (InRing(j)' <=> InRing(j)) /\ TupleAt(j)' = TupleAt(j)
  BY DEF InRing, TupleAt
<1>4. HeadExact(fused)' /\ (cursor <= fused.tail + 1)'
  BY DEF TuplesInOrder, HeadExact
<1>5. ASSUME NEW j \in Nat, InRing(j)', j >= cursor'
      PROVE  Before(got, TupleAt(j))'
  <2>1. Before(got, TupleAt(j))
    BY <1>3, <1>5 DEF TuplesInOrder
  <2> QED
    BY <1>3, <2>1 DEF Before
<1>6. ASSUME NEW j \in Nat, NEW k \in Nat, InRing(j)', InRing(k)', j < k
      PROVE  Before(TupleAt(j), TupleAt(k))'
  <2>1. Before(TupleAt(j), TupleAt(k))
    BY <1>3, <1>6 DEF TuplesInOrder
  <2> QED
    BY <1>3, <2>1 DEF Before
<1>7. \A j \in Nat : InRing(j)' => MadeBefore(TupleAt(j))'
  BY <1>2, <1>3
<1> QED
  BY <1>1, <1>4, <1>5, <1>6, <1>7 DEF TuplesInOrder

(* A message of another channel. *)
LEMMA DispatchOtherInv ==
  ASSUME FusionInv, NEW i \in 1 .. Others, Fusion!DispatchOther(i)
  PROVE  FusionInv'
<1> DEFINE b == other[i]
           c == Fusion!Fill(b, b.tail + 1)
<1>1. /\ other \in [1 .. Others -> Rings(Nat)] /\ b \in Rings(Nat) /\ b.tail \in Nat
      /\ HeadExact(b)
  BY DEF FusionInv, FusionTypeOK, OthersLatest, Rings
<1>2. /\ other' = [other EXCEPT ![i] = c]
      /\ UNCHANGED <<fused, sent, fusing, since, cursor, got>>
  BY DEF Fusion!DispatchOther
<1> HIDE DEF b
<1>n. b.tail + 1 \in Nat /\ b.slots \in [0 .. capacity - 1 -> Nat]
  BY <1>1 DEF Rings
<1>3. /\ c \in Rings(Nat) /\ HeadExact(c) /\ c.tail = b.tail + 1
      /\ c.slots = [b.slots EXCEPT ![GetIndex(b.tail + 1)] = b.tail + 1]
  <2>1. \A v \in Nat :
          /\ Fusion!Fill(b, v) \in Rings(Nat) /\ HeadExact(Fusion!Fill(b, v))
          /\ Fusion!Fill(b, v).tail = b.tail + 1
          /\ Fusion!Fill(b, v).slots = [b.slots EXCEPT ![GetIndex(b.tail + 1)] = v]
    BY <1>1, FillRing, ZenonT(60)
  <2> QED
    BY <1>n, <2>1
<1>4. c.slots[GetIndex(c.tail)] = c.tail
  <2>1. GetIndex(b.tail + 1) \in 0 .. capacity - 1
    BY <1>n, IndexType
  <2> QED
    BY <1>n, <1>3, <2>1
<1> HIDE DEF c
<1>5. /\ other' \in [1 .. Others -> Rings(Nat)] /\ other'[i] = c
      /\ \A k \in 1 .. Others : k # i => other'[k] = other[k]
  BY <1>1, <1>2, <1>3
<1>6. OthersLatest'
  <2> SUFFICES ASSUME NEW k \in 1 .. Others
               PROVE  /\ HeadExact(other'[k])
                      /\ other'[k].slots[GetIndex(other'[k].tail)] = other'[k].tail
    BY DEF OthersLatest, HeadExact
  <2>1. CASE k = i
    BY <1>3, <1>4, <1>5, <2>1
  <2>2. CASE k # i
    BY <1>5, <2>2 DEF FusionInv, OthersLatest
  <2> QED
    BY <2>1, <2>2
<1>7. \A k \in 1 .. Others : /\ other[k].tail \in Nat /\ other'[k].tail \in Nat
                             /\ other[k].tail <= other'[k].tail
  <2> SUFFICES ASSUME NEW k \in 1 .. Others
               PROVE  /\ other[k].tail \in Nat /\ other'[k].tail \in Nat
                      /\ other[k].tail <= other'[k].tail
    OBVIOUS
  <2>1. other[k].tail \in Nat /\ other'[k].tail \in Nat
    BY <1>1, <1>5 DEF Rings
  <2>2. other'[k].tail = other[k].tail \/ other'[k].tail = other[k].tail + 1
    BY <1>3, <1>5 DEF b
  <2> QED
    BY <2>1, <2>2
<1>8. TuplesInOrder'
  <2>1. \A t : MadeBefore(t) => MadeBefore(t)'
    BY <1>2, <1>7, MadeBeforeKept
  <2> QED
    BY <1>2, <2>1, OrderKept DEF FusionInv
<1>9. CallbackReads'
  <2> SUFFICES ASSUME NEW k \in 1 .. Others
               PROVE  /\ since[k] <= other'[k].tail
                      /\ k < Len(fusing) => fusing[k + 1] \in since[k] .. other'[k].tail
    BY <1>2 DEF FusionInv, CallbackReads
  <2>1. /\ since[k] \in Nat /\ since[k] <= other[k].tail
        /\ k < Len(fusing) => fusing[k + 1] \in since[k] .. other[k].tail
    BY DEF FusionInv, FusionTypeOK, CallbackReads
  <2>2. other[k].tail \in Nat /\ other'[k].tail \in Nat /\ other[k].tail <= other'[k].tail
    BY <1>7
  <2> QED
    BY <2>1, <2>2
<1>10. FusionTypeOK'
  BY <1>2, <1>5 DEF FusionInv, FusionTypeOK
<1> QED
  BY <1>6, <1>8, <1>9, <1>10 DEF FusionInv

(* A message of the first channel, with or without the callback set. *)
LEMMA DispatchFirstInv ==
  ASSUME FusionInv, Fusion!DispatchFirst
  PROVE  FusionInv'
<1>1. /\ fusing = <<>> /\ sent' = sent + 1 /\ sent \in Nat
      /\ UNCHANGED <<other, fused, cursor, got>>
      /\ \/ fusing' = <<sent'>> /\ since' = [i \in 1 .. Others |-> other[i].tail]
         \/ UNCHANGED <<fusing, since>>
  BY DEF Fusion!DispatchFirst, Fusion!NotFusing, FusionInv, FusionTypeOK
<1>2. \A i \in 1 .. Others : other[i].tail \in Nat
  BY DEF FusionInv, FusionTypeOK, Rings
<1>3. /\ fusing' \in Seq(Nat) /\ Len(fusing') \in Nat /\ Len(fusing') <= 1 /\ since' \in [1 .. Others -> Nat]
      /\ fusing' # <<>> => fusing'[1] = sent'
  <2>1. CASE fusing' = <<sent'>> /\ since' = [i \in 1 .. Others |-> other[i].tail]
    BY <1>1, <1>2, <2>1
  <2>2. CASE UNCHANGED <<fusing, since>>
    <3>1. <<>> \in Seq(Nat) /\ Len(<<>>) = 0
      BY EmptySeq
    <3> QED
      BY <1>1, <2>2, <3>1 DEF FusionInv, FusionTypeOK
  <2> QED
    BY <1>1, <2>1, <2>2
<1>4. FusionTypeOK'
  <2>1. Len(fusing') <= Others + 1
    BY <1>3, FusionConstants
  <2> QED
    BY <1>1, <1>3, <2>1 DEF FusionInv, FusionTypeOK
<1>5. OthersLatest'
  BY <1>1 DEF FusionInv, OthersLatest, HeadExact
<1>6. CallbackReads'
  <2> SUFFICES ASSUME NEW i \in 1 .. Others
               PROVE  since'[i] <= other[i].tail /\ ~ (i < Len(fusing'))
    BY <1>1, <1>3 DEF CallbackReads
  <2>1. ~ (i < Len(fusing'))
    BY <1>3, FusionConstants
  <2>2. since[i] <= other[i].tail
    BY DEF FusionInv, CallbackReads
  <2>3. since'[i] <= other[i].tail
    <3>1. CASE since' = [k \in 1 .. Others |-> other[k].tail]
      <4>1. since'[i] = other[i].tail /\ other[i].tail \in Nat
        BY <1>2, <3>1
      <4> QED
        BY <4>1
    <3>2. CASE since' = since
      BY <2>2, <3>2
    <3> QED
      BY <1>1, <3>1, <3>2
  <2> QED
    BY <2>1, <2>3
<1>7. ASSUME NEW t, MadeBefore(t)
      PROVE  MadeBefore(t)'
  <2>1. t \in Tuples /\ t[1] \in Nat /\ t[1] <= sent
    BY <1>7, FusionConstants DEF MadeBefore, Tuples
  <2>2. t[1] < sent' /\ t[1] <= sent'
    BY <1>1, <2>1
  <2>3. \A i \in 1 .. Others : ~ (i < Len(fusing'))
    BY <1>3, FusionConstants
  <2> QED
    BY <1>1, <1>7, <2>1, <2>2, <2>3 DEF MadeBefore
<1>8. TuplesInOrder'
  BY <1>1, <1>7, OrderKept DEF FusionInv
<1> QED
  BY <1>4, <1>5, <1>6, <1>8 DEF FusionInv

(* The callback reads the latest message of a channel, or gives up. *)
LEMMA FusionLatestInv ==
  ASSUME FusionInv, Fusion!FusionLatest
  PROVE  FusionInv'
<1> DEFINE i == Len(fusing)
           x == other[i].tail
<1>1. /\ i \in 1 .. Others /\ UNCHANGED <<other, fused, sent, since, cursor, got>>
      /\ fusing' = <<>> \/ fusing' = Append(fusing, Fusion!at(other[i], other[i].tail))
  BY DEF Fusion!FusionLatest, Fusion!NotFusing
<1>2. fusing \in Seq(Nat) /\ Others \in Nat /\ \A k \in 1 .. Others : other[k].tail \in Nat
  BY FusionConstants DEF FusionInv, FusionTypeOK, Rings
<1>3. x \in Nat /\ Fusion!at(other[i], other[i].tail) = x
  <2>1. other[i].slots[GetIndex(x)] = x /\ x \in Nat
    BY <1>1, <1>2 DEF FusionInv, OthersLatest
  <2>2. Fusion!GetIndex(x) = GetIndex(x)
    BY <2>1, SameRing
  <2> QED
    BY <2>1, <2>2 DEF Fusion!at
<1>s. fusing # <<>>
  BY <1>1, <1>2, EmptySeq
<1>4. CASE fusing' = <<>>
  <2>0. <<>> \in Seq(Nat) /\ Len(<<>>) = 0
    BY EmptySeq
  <2>1. FusionTypeOK'
    BY <1>1, <1>2, <1>4, <2>0 DEF FusionInv, FusionTypeOK
  <2>2. OthersLatest'
    BY <1>1 DEF FusionInv, OthersLatest, HeadExact
  <2>3. \A k \in 1 .. Others : ~ (k < Len(fusing'))
    BY <1>2, <1>4, <2>0
  <2>4. CallbackReads'
    BY <1>1, <1>4, <2>3 DEF FusionInv, CallbackReads
  <2>5. \A t : MadeBefore(t) => MadeBefore(t)'
    BY <1>1, <1>4, <2>3 DEF MadeBefore
  <2>6. TuplesInOrder'
    BY <1>1, <2>5, OrderKept DEF FusionInv
  <2> QED
    BY <2>1, <2>2, <2>4, <2>6 DEF FusionInv
<1>5. CASE fusing' = Append(fusing, x)
  <2>1. /\ fusing' \in Seq(Nat) /\ Len(fusing') = i + 1 /\ fusing'[i + 1] = x
        /\ \A k \in 1 .. i : fusing'[k] = fusing[k]
    BY <1>2, <1>3, <1>5, AppendProperties
  <2> HIDE DEF i, x
  <2>2. FusionTypeOK'
    <3>1. Len(fusing') <= Others + 1
      BY <1>1, <1>2, <2>1
    <3> QED
      BY <1>1, <2>1, <3>1 DEF FusionInv, FusionTypeOK
  <2>3. OthersLatest'
    BY <1>1 DEF FusionInv, OthersLatest, HeadExact
  <2>4. \A k \in 1 .. Others : k < Len(fusing') => k = i \/ (k < i /\ k + 1 \in 1 .. i)
    BY <1>1, <1>2, <2>1
  <2>5. \A k \in 1 .. Others :
          k < Len(fusing') => \/ fusing'[k + 1] = other[k].tail
                              \/ k < Len(fusing) /\ fusing'[k + 1] = fusing[k + 1]
    BY <2>1, <2>4 DEF i, x
  <2>6. CallbackReads'
    <3> SUFFICES ASSUME NEW k \in 1 .. Others
                 PROVE  /\ since[k] <= other[k].tail
                        /\ k < Len(fusing') => fusing'[k + 1] \in since[k] .. other[k].tail
      <4>1. fusing'[1] = sent
        <5>1. 1 \in 1 .. i
          BY <1>1, <1>2
        <5> QED
          BY <1>s, <2>1, <5>1 DEF FusionInv, CallbackReads
      <4> QED
        BY <1>1, <4>1 DEF CallbackReads
    <3>1. since[k] <= other[k].tail /\ since[k] \in Nat /\ other[k].tail \in Nat
      BY <1>2 DEF FusionInv, FusionTypeOK, CallbackReads
    <3>2. other[k].tail \in since[k] .. other[k].tail
      BY <3>1
    <3> QED
      BY <2>5, <3>1, <3>2 DEF FusionInv, CallbackReads
  <2>7. ASSUME NEW t, MadeBefore(t)
        PROVE  MadeBefore(t)'
    <3>1. \A k \in 1 .. Others : k < Len(fusing') => t[k + 1] <= fusing'[k + 1]
      BY <2>5, <2>7 DEF MadeBefore
    <3>2. t[1] < sent
      BY <1>s, <2>7 DEF MadeBefore
    <3> QED
      BY <1>1, <2>7, <3>1, <3>2 DEF MadeBefore
  <2>8. TuplesInOrder'
    BY <1>1, <2>7, OrderKept DEF FusionInv
  <2> QED
    BY <2>2, <2>3, <2>6, <2>8 DEF FusionInv
<1> QED
  BY <1>1, <1>3, <1>4, <1>5

(* The finished tuple is newer than all tuples of the ring. *)
LEMMA FusionFillInv ==
  ASSUME FusionInv, Fusion!FusionFill
  PROVE  /\ FusionInv'
         /\ \A i \in 1 .. Others : fusing[i + 1] \in since[i] .. other[i].tail
<1> DEFINE b == Fusion!Fill(fused, fusing)
<1>1. /\ Len(fusing) = Others + 1 /\ fused' = b /\ fusing' = <<>>
      /\ UNCHANGED <<other, sent, since, cursor, got>>
  BY DEF Fusion!FusionFill, Fusion!NotFusing
<1>2. /\ fusing \in Seq(Nat) /\ fused \in Rings(Tuples \cup {0}) /\ HeadExact(fused)
      /\ Others \in Nat /\ fused.tail \in Nat /\ fused.head \in Nat
      /\ fused.slots \in [0 .. capacity - 1 -> Tuples \cup {0}]
  BY FusionConstants DEF FusionInv, FusionTypeOK, TuplesInOrder, Rings
<1>n. PICK n \in Nat : n = fused.tail + 1
  BY <1>2
<1>3. fusing \in Tuples
  <2>1. fusing \in [1 .. Len(fusing) -> Nat]
    BY <1>2, LenProperties
  <2> QED
    BY <1>1, <2>1 DEF Tuples
<1>4. /\ b \in Rings(Tuples \cup {0}) /\ HeadExact(b) /\ b.tail = n /\ fused.head <= b.head
      /\ b.slots = [fused.slots EXCEPT ![GetIndex(n)] = fusing]
  <2> DEFINE S == Tuples \cup {0}
  <2>1. fused \in Rings(S) /\ fusing \in S
    BY <1>2, <1>3
  <2> HIDE DEF S
  <2>2. /\ b \in Rings(S) /\ HeadExact(b) /\ b.tail = fused.tail + 1 /\ fused.head <= b.head
        /\ b.slots = [fused.slots EXCEPT ![GetIndex(fused.tail + 1)] = fusing]
    BY <1>2, <2>1, FillRing
  <2> QED
    BY <1>n, <2>2 DEF S
<1>5. fusing # <<>> /\ fusing[1] = sent
  <2>1. fusing # <<>>
    BY <1>1, <1>2, EmptySeq
  <2> QED
    BY <2>1 DEF FusionInv, CallbackReads
<1>6. \A i \in 1 .. Others : i < Len(fusing) /\ fusing[i + 1] \in since[i] .. other[i].tail
  <2>1. \A i \in 1 .. Others : i < Len(fusing)
    BY <1>1, <1>2
  <2> QED
    BY <2>1 DEF FusionInv, CallbackReads
<1>7. ASSUME NEW t, MadeBefore(t)
      PROVE  Before(t, fusing) /\ MadeBefore(t)'
  <2>1. Before(t, fusing)
    BY <1>5, <1>6, <1>7 DEF MadeBefore, Before
  <2>2. \A i \in 1 .. Others : ~ (i < Len(fusing'))
    <3>1. Len(<<>>) = 0
      BY EmptySeq
    <3> QED
      BY <1>1, <1>2, <3>1
  <2> QED
    BY <1>1, <1>7, <2>1, <2>2 DEF MadeBefore
<1>8. ASSUME NEW t, t = fusing
      PROVE  MadeBefore(t)'
  <2>1. \A i \in 1 .. Others : ~ (i < Len(fusing'))
    <3>1. Len(<<>>) = 0
      BY EmptySeq
    <3> QED
      BY <1>1, <1>2, <3>1
  <2>2. sent \in Nat /\ \A i \in 1 .. Others : other[i].tail \in Nat
    BY DEF FusionInv, FusionTypeOK, Rings
  <2>3. \A i \in 1 .. Others : since[i] \in Nat
    BY DEF FusionInv, FusionTypeOK
  <2>4. \A i \in 1 .. Others : t[i + 1] <= other[i].tail
    BY <1>6, <1>8, <2>2, <2>3
  <2>5. t \in Tuples /\ t[1] <= sent
    BY <1>3, <1>5, <1>8, <2>2
  <2> QED
    BY <1>1, <2>1, <2>4, <2>5 DEF MadeBefore
<1>9. GetIndex(n) \in 0 .. capacity - 1 /\ n \in Nat
  BY <1>n, IndexType
<1>10. TupleAt(n)' = fusing
  BY <1>1, <1>2, <1>4, <1>9 DEF TupleAt
<1> HIDE DEF b
<1>11. ASSUME NEW j \in Nat, InRing(j)', j # n
       PROVE  InRing(j) /\ TupleAt(j)' = TupleAt(j)
  <2>1. j \in 1 .. n /\ j > b.head /\ j < n
    BY <1>1, <1>4, <1>9, <1>11 DEF InRing
  <2>2. b.head = IF n > Size THEN n - Size ELSE 0
    BY <1>4 DEF HeadExact
  <2>3. n < j + capacity
    BY <1>9, <2>1, <2>2, SizeAssumption DEF capacity
  <2>4. GetIndex(j) # GetIndex(n)
    BY <1>9, <2>1, <2>3, IndexDistinct
  <2>5. j > fused.head /\ j \in 1 .. fused.tail
    <3>1. b.head \in Nat
      BY <1>4 DEF Rings
    <3> QED
      BY <1>2, <1>n, <1>4, <2>1, <3>1
  <2>6. GetIndex(j) \in 0 .. capacity - 1
    BY IndexType
  <2>7. TupleAt(j)' = TupleAt(j)
    BY <1>1, <1>2, <1>4, <1>9, <2>4, <2>6 DEF TupleAt
  <2> QED
    BY <2>5, <2>7 DEF InRing
<1>12. TuplesInOrder'
  <2>1. MadeBefore(got)'
    <3>1. PICK t : t = got
      OBVIOUS
    <3>2. MadeBefore(t)'
      BY <1>7, <3>1 DEF FusionInv, TuplesInOrder
    <3> QED
      BY <1>1, <3>1, <3>2 DEF MadeBefore
  <2>2. ASSUME NEW j \in Nat, InRing(j)'
        PROVE  MadeBefore(TupleAt(j))' /\ (j >= cursor => Before(got, TupleAt(j))')
    <3>1. CASE j = n
      <4>1. PICK t : t = fusing
        OBVIOUS
      <4>2. MadeBefore(t)' /\ TupleAt(j)' = t
        BY <1>8, <1>10, <3>1, <4>1
      <4>3. Before(got, fusing)
        BY <1>7 DEF FusionInv, TuplesInOrder
      <4>4. MadeBefore(TupleAt(j))'
        BY <4>2 DEF MadeBefore
      <4>5. Before(got, TupleAt(j))'
        BY <1>1, <4>1, <4>2, <4>3 DEF Before
      <4> QED
        BY <4>4, <4>5
    <3>2. CASE j # n
      <4>1. InRing(j) /\ TupleAt(j)' = TupleAt(j)
        BY <1>11, <2>2, <3>2
      <4>2. PICK t : t = TupleAt(j)
        OBVIOUS
      <4>3. MadeBefore(t) /\ (j >= cursor => Before(got, t))
        BY <4>1, <4>2 DEF FusionInv, TuplesInOrder
      <4>4. MadeBefore(t)' /\ TupleAt(j)' = t
        BY <1>7, <4>1, <4>2, <4>3
      <4>5. MadeBefore(TupleAt(j))'
        BY <4>4 DEF MadeBefore
      <4>6. j >= cursor => Before(got, TupleAt(j))'
        BY <1>1, <4>3, <4>4 DEF Before
      <4> QED
        BY <4>5, <4>6
    <3> QED
      BY <3>1, <3>2
  <2>3. ASSUME NEW j \in Nat, NEW k \in Nat, InRing(j)', InRing(k)', j < k
        PROVE  Before(TupleAt(j), TupleAt(k))'
    <3>1. k <= n
      BY <1>1, <1>4, <1>9, <2>3 DEF InRing
    <3>2. j # n
      BY <1>9, <2>3, <3>1
    <3>3. InRing(j) /\ TupleAt(j)' = TupleAt(j)
      BY <1>11, <2>3, <3>2
    <3>4. CASE k = n
      <4>1. Before(TupleAt(j), fusing)
        BY <1>7, <3>3 DEF FusionInv, TuplesInOrder
      <4> QED
        BY <1>10, <3>3, <3>4, <4>1 DEF Before
    <3>5. CASE k # n
      <4>1. InRing(k) /\ TupleAt(k)' = TupleAt(k)
        BY <1>11, <2>3, <3>5
      <4>2. Before(TupleAt(j), TupleAt(k))
        BY <2>3, <3>3, <4>1 DEF FusionInv, TuplesInOrder
      <4> QED
        BY <3>3, <4>1, <4>2 DEF Before
    <3> QED
      BY <3>4, <3>5
  <2>4. HeadExact(fused)' /\ (cursor <= fused.tail + 1)'
    <3>1. cursor \in Nat /\ cursor <= n
      BY <1>n DEF FusionInv, FusionTypeOK, TuplesInOrder
    <3>2. cursor <= n + 1
      BY <1>9, <3>1
    <3> QED
      BY <1>1, <1>4, <3>2 DEF HeadExact
  <2> QED
    BY <1>1, <2>1, <2>2, <2>3, <2>4 DEF TuplesInOrder
<1>13. FusionTypeOK'
  <2>1. <<>> \in Seq(Nat) /\ Len(<<>>) = 0
    BY EmptySeq
  <2>2. Len(fusing') <= Others + 1
    BY <1>1, <1>2, <2>1
  <2> QED
    BY <1>1, <1>4, <2>1, <2>2 DEF FusionInv, FusionTypeOK
<1>14. OthersLatest'
  BY <1>1 DEF FusionInv, OthersLatest, HeadExact
<1>15. CallbackReads'
  <2>1. \A i \in 1 .. Others : ~ (i < Len(fusing'))
    <3>1. Len(<<>>) = 0
      BY EmptySeq
    <3> QED
      BY <1>1, <1>2, <3>1
  <2> QED
    BY <1>1, <2>1 DEF FusionInv, CallbackReads
<1> QED
  BY <1>6, <1>12, <1>13, <1>14, <1>15 DEF FusionInv

(* What is fetched is newer than what was fetched before. *)
LEMMA FusionFetchInv ==
  ASSUME FusionInv, Fusion!FusionFetch
  PROVE  FusionInv' /\ Before(got, got')
<1> DEFINE j == Fusion!FetchIndex(fused, cursor)
<1>1. /\ Fusion!CanFetch(fused, cursor) /\ got' = Fusion!at(fused, j) /\ cursor' = j + 1
      /\ UNCHANGED <<other, fused, sent, fusing, since>>
  BY DEF Fusion!FusionFetch
<1>2. /\ fused.tail \in Nat /\ fused.head \in Nat /\ cursor \in Nat /\ cursor <= fused.tail + 1
      /\ fused.head <= fused.tail
  BY SizeAssumption DEF FusionInv, FusionTypeOK, TuplesInOrder, Rings, HeadExact
<1>3. j \in Nat /\ InRing(j) /\ j >= cursor
  BY <1>1, <1>2 DEF Fusion!CanFetch, Fusion!Empty, Fusion!FetchIndex, Fusion!Head_, InRing
<1> HIDE DEF j
<1>4. got' = TupleAt(j)
  BY <1>1, <1>3, SameRing DEF Fusion!at, TupleAt
<1>5. MadeBefore(TupleAt(j)) /\ Before(got, TupleAt(j))
  BY <1>3 DEF FusionInv, TuplesInOrder
<1>6. FusionTypeOK'
  BY <1>1, <1>3, <1>4, <1>5 DEF FusionInv, FusionTypeOK, MadeBefore
<1>7. OthersLatest' /\ CallbackReads'
  BY <1>1 DEF FusionInv, OthersLatest, HeadExact, CallbackReads
<1>8. TuplesInOrder'
  <2>1. \A k \in Nat : (InRing(k)' <=> InRing(k)) /\ TupleAt(k)' = TupleAt(k)
    BY <1>1 DEF InRing, TupleAt
  <2>2. MadeBefore(got)'
    BY <1>1, <1>4, <1>5 DEF MadeBefore
  <2>3. ASSUME NEW k \in Nat, InRing(k)'
        PROVE  MadeBefore(TupleAt(k))' /\ (k >= cursor' => Before(got, TupleAt(k))')
    <3>1. InRing(k) /\ TupleAt(k)' = TupleAt(k) /\ MadeBefore(TupleAt(k))
      BY <2>1, <2>3 DEF FusionInv, TuplesInOrder
    <3>2. MadeBefore(TupleAt(k))'
      BY <1>1, <3>1 DEF MadeBefore
    <3>3. ASSUME k >= cursor'
          PROVE  Before(got, TupleAt(k))'
      <4>1. j < k
        BY <1>1, <1>3, <3>3
      <4>2. Before(TupleAt(j), TupleAt(k))
        BY <1>3, <3>1, <4>1 DEF FusionInv, TuplesInOrder
      <4> QED
        BY <1>4, <3>1, <4>2 DEF Before
    <3> QED
      BY <3>2, <3>3
  <2>4. ASSUME NEW k \in Nat, NEW l \in Nat, InRing(k)', InRing(l)', k < l
        PROVE  Before(TupleAt(k), TupleAt(l))'
    <3>1. Before(TupleAt(k), TupleAt(l))
      BY <2>1, <2>4 DEF FusionInv, TuplesInOrder
    <3> QED
      BY <2>1, <3>1 DEF Before
  <2>5. HeadExact(fused)' /\ (cursor <= fused.tail + 1)'
    <3>1. j + 1 <= fused.tail + 1
      BY <1>2, <1>3 DEF InRing
    <3> QED
      BY <1>1, <3>1 DEF FusionInv, TuplesInOrder, HeadExact
  <2> QED
    BY <2>2, <2>3, <2>4, <2>5 DEF TuplesInOrder
<1> QED
  BY <1>4, <1>5, <1>6, <1>7, <1>8 DEF FusionInv

(* What a visitor of several channels fetches moves forward in all of      *)
(* them, for any number of channels and messages and any size of the rings. *)
THEOREM FusionForward == Fusion!FusionSpec => FusionMovesForward
<1> DEFINE Forward ==
      /\ got' # got => /\ got'[1] > got[1]
                       /\ \A i \in 1 .. Others : got'[i + 1] >= got[i + 1]
      /\ fused' # fused =>
           \A i \in 1 .. Others : fusing[i + 1] \in since[i] .. other[i].tail
<1>1. Fusion!FusionInit => FusionInv
  <2> SUFFICES ASSUME Fusion!FusionInit
               PROVE  FusionInv
    OBVIOUS
  <2>1. Fusion!Empty0 = [head |-> 0, tail |-> 0, slots |-> [i \in 0 .. capacity - 1 |-> 0]]
    BY SameRing DEF Fusion!Empty0
  <2>2. /\ other = [i \in 1 .. Others |-> Fusion!Empty0] /\ fused = Fusion!Empty0
        /\ sent = 0 /\ fusing = <<>> /\ since = [i \in 1 .. Others |-> 0]
        /\ cursor = 0 /\ got = [i \in 1 .. Others + 1 |-> 0]
    BY DEF Fusion!FusionInit, Fusion!NotFusing
  <2>3. <<>> \in Seq(Nat) /\ Len(<<>>) = 0 /\ Others \in Nat
    BY EmptySeq, FusionConstants
  <2>4. /\ \A i \in 1 .. Others : other[i].tail = 0 /\ other[i].head = 0
                                  /\ other[i].slots[GetIndex(0)] = 0
        /\ fused.tail = 0 /\ fused.head = 0
    BY <2>1, <2>2, IndexType
  <2>5. FusionTypeOK
    <3>1. Fusion!Empty0 \in Rings(Nat) /\ Fusion!Empty0 \in Rings(Tuples \cup {0})
      BY <2>1 DEF Rings
    <3>2. got \in Tuples
      BY <2>2 DEF Tuples
    <3> QED
      BY <2>2, <2>3, <3>1, <3>2 DEF FusionTypeOK
  <2>6. OthersLatest
    BY <2>4, SizeAssumption DEF OthersLatest, HeadExact
  <2>7. \A i \in 1 .. Others : ~ (i < Len(fusing))
    BY <2>2, <2>3
  <2>8. CallbackReads
    BY <2>2, <2>4, <2>7 DEF CallbackReads
  <2>9. \A j \in Nat : ~ InRing(j)
    BY <2>4 DEF InRing
  <2>10. MadeBefore(got)
    <3>1. \A i \in 1 .. Others : got[i + 1] = 0
      BY <2>2, <2>3
    <3>2. got[1] = 0 /\ got \in Tuples
      BY <2>2, <2>3, <2>5 DEF FusionTypeOK
    <3>3. \A i \in 1 .. Others : got[i + 1] <= other[i].tail
      BY <2>4, <3>1
    <3>4. fusing = <<>> /\ sent = 0
      BY <2>2
    <3> QED
      BY <2>7, <3>2, <3>3, <3>4 DEF MadeBefore
  <2>11. TuplesInOrder
    BY <2>2, <2>4, <2>9, <2>10, SizeAssumption DEF TuplesInOrder, HeadExact
  <2> QED
    BY <2>5, <2>6, <2>8, <2>11 DEF FusionInv
<1>2. ASSUME FusionInv, [Fusion!FusionNext]_Fusion!fusionVars
      PROVE  FusionInv' /\ [Forward]_Fusion!fusionVars
  <2>1. CASE Fusion!FusionFetch
    <3>1. FusionInv' /\ Before(got, got') /\ UNCHANGED fused
      BY <1>2, <2>1, FusionFetchInv DEF Fusion!FusionFetch
    <3>2. \A i \in 1 .. Others + 1 : got[i] \in Nat /\ got'[i] \in Nat
      BY <1>2, <3>1 DEF FusionInv, FusionTypeOK, Tuples
    <3>3. \A i \in 1 .. Others : i + 1 \in 1 .. Others + 1
      BY FusionConstants
    <3>4. 1 \in 1 .. Others + 1
      BY FusionConstants
    <3>5. got'[1] > got[1] /\ \A i \in 1 .. Others : got'[i + 1] >= got[i + 1]
      BY <3>1, <3>2, <3>3, <3>4 DEF Before
    <3> QED
      BY <3>1, <3>5
  <2>2. CASE Fusion!FusionFill
    BY <1>2, <2>2, FusionFillInv DEF Fusion!FusionFill
  <2>3. CASE Fusion!FusionLatest
    BY <1>2, <2>3, FusionLatestInv DEF Fusion!FusionLatest
  <2>4. CASE Fusion!DispatchFirst
    BY <1>2, <2>4, DispatchFirstInv DEF Fusion!DispatchFirst
  <2>5. ASSUME NEW i \in 1 .. Others, Fusion!DispatchOther(i)
        PROVE  FusionInv' /\ [Forward]_Fusion!fusionVars
    BY <1>2, <2>5, DispatchOtherInv DEF Fusion!DispatchOther
  <2>6. ASSUME UNCHANGED <<other, fused, sent, fusing, since, cursor, got>>
        PROVE  FusionInv' /\ [Forward]_Fusion!fusionVars
    <3>1. FusionTypeOK' /\ OthersLatest' /\ CallbackReads'
      BY <1>2, <2>6 DEF FusionInv, FusionTypeOK, OthersLatest, CallbackReads, HeadExact
    <3>2. \A t : MadeBefore(t) => MadeBefore(t)'
      BY <2>6 DEF MadeBefore
    <3>3. TuplesInOrder'
      BY <1>2, <2>6, <3>2, OrderKept DEF FusionInv
    <3> QED
      BY <2>6, <3>1, <3>3 DEF FusionInv
  <2> QED
    BY <1>2, <2>1, <2>2, <2>3, <2>4, <2>5, <2>6
       DEF Fusion!FusionNext, Fusion!VisitorConstruct, Fusion!fusionVars
<1> QED
  BY <1>1, <1>2, PTL DEF Fusion!FusionSpec, FusionMovesForward, Fusion!FusionMovesForward

-----------------------------------------------------------------------------
(* The logger (Logger). *)

LogSteps == {"out", "write", "check", "close", "rename", "open"}
LogLines == Loggers \X Nat

LogTypeOK ==
  /\ inode \in Seq(Seq(LogLines))
  /\ DOMAIN dir \subseteq Nat /\ dir \in [DOMAIN dir -> 1 .. Len(inode)]
  /\ fout \in [open : BOOLEAN, fail : BOOLEAN, file : 1 .. Len(inode)]
  /\ thread \in [Loggers -> [at : LogSteps, lines : Nat]]
  /\ second \in Nat \ {0} /\ collided \in BOOLEAN

(* A file has one name, and unless a name was given twice it has one. *)
NamesDiffer == \A m, n \in DOMAIN dir : dir[m] = dir[n] => m = n
FilesNamed == ~ collided => \A f \in 1 .. Len(inode) : \E n \in DOMAIN dir : dir[n] = f

(* A line that was written is in a file; no line is in two places; and a   *)
(* line that its thread is about to write is in none.                      *)
WrittenOnce ==
  /\ \A l \in written : \E f \in 1 .. Len(inode) : \E i \in 1 .. Len(inode[f]) : inode[f][i] = l
  /\ \A f, g \in 1 .. Len(inode) :
       \A i \in 1 .. Len(inode[f]), j \in 1 .. Len(inode[g]) :
         inode[f][i] = inode[g][j] => f = g /\ i = j
  /\ \A f \in 1 .. Len(inode) : \A i \in 1 .. Len(inode[f]) : \A t \in Loggers, k \in Nat :
       inode[f][i] = <<t, k>> =>
         k <= thread[t].lines /\ (thread[t].at = "write" => k < thread[t].lines)

LogInv == LogTypeOK /\ NamesDiffer /\ FilesNamed /\ WrittenOnce

(* The files stay as they are; threads move on without going to write, or  *)
(* with a new line.                                                        *)
LEMMA ThreadsMove ==
  ASSUME LogInv, UNCHANGED <<inode, written>>,
         thread' \in [Loggers -> [at : LogSteps, lines : Nat]],
         \A t \in Loggers :
           \/ thread'[t].lines = thread[t].lines
              /\ (thread'[t].at = "write" => thread[t].at = "write")
           \/ thread'[t].lines = thread[t].lines + 1
  PROVE  WrittenOnce'
<1> SUFFICES ASSUME NEW f \in 1 .. Len(inode), NEW i \in 1 .. Len(inode[f]),
                    NEW t \in Loggers, NEW k \in Nat, inode[f][i] = <<t, k>>
             PROVE  /\ k <= thread'[t].lines
                    /\ thread'[t].at = "write" => k < thread'[t].lines
  BY DEF LogInv, WrittenOnce
<1>1. k <= thread[t].lines /\ (thread[t].at = "write" => k < thread[t].lines)
  BY DEF LogInv, WrittenOnce
<1>2. thread[t].lines \in Nat /\ thread'[t].lines \in Nat
  BY DEF LogInv, LogTypeOK
<1>3. \A a, b \in Nat : k <= a /\ b = a + 1 => k <= b /\ k < b
  OBVIOUS
<1> QED
  BY <1>1, <1>2, <1>3

(* The write adds a line that was in no file. *)
LEMMA LogWriteInv ==
  ASSUME LogInv, NEW t \in Loggers, Log!LogWrite(t)
  PROVE  LogInv'
<1> DEFINE line == <<t, thread[t].lines>>
           file == fout.file
           grown == Append(inode[file], line)
<1>t. /\ inode \in Seq(Seq(LogLines)) /\ file \in 1 .. Len(inode) /\ Len(inode) \in Nat
      /\ thread \in [Loggers -> [at : LogSteps, lines : Nat]]
  BY LenProperties DEF LogInv, LogTypeOK
<1>l. thread[t].lines \in Nat /\ line \in LogLines /\ inode[file] \in Seq(LogLines)
  BY <1>t, ElementOfSeq DEF LogLines
<1>1. /\ thread[t].at = "write" /\ thread' = [thread EXCEPT ![t].at = "check"]
      /\ UNCHANGED <<dir, file_len, second, collided, crashed>>
  BY DEF Log!LogWrite, Log!At, Log!Goto
<1>2. /\ thread' \in [Loggers -> [at : LogSteps, lines : Nat]]
      /\ \A u \in Loggers : /\ thread'[u].lines = thread[u].lines
                            /\ thread'[u].at = "write" => thread[u].at = "write" /\ u # t
  BY <1>t, <1>1 DEF LogSteps
<1>3. CASE fout' = [fout EXCEPT !.fail = TRUE] /\ UNCHANGED <<inode, written>>
  <2>1. LogTypeOK'
    BY <1>1, <1>2, <1>3 DEF LogInv, LogTypeOK
  <2>2. WrittenOnce'
    BY <1>2, <1>3, ThreadsMove
  <2> QED
    BY <1>1, <1>3, <2>1, <2>2 DEF LogInv, NamesDiffer, FilesNamed
<1>4. CASE /\ inode' = [inode EXCEPT ![file] = grown]
           /\ written' = written \cup {line} /\ UNCHANGED fout
  <2>1. /\ grown \in Seq(LogLines) /\ Len(grown) = Len(inode[file]) + 1
        /\ \A i \in 1 .. Len(inode[file]) : grown[i] = inode[file][i]
        /\ grown[Len(inode[file]) + 1] = line
    BY <1>l, AppendProperties
  <2> HIDE DEF grown, line, file
  <2>2. /\ inode' \in Seq(Seq(LogLines)) /\ Len(inode') = Len(inode) /\ inode'[file] = grown
        /\ \A f \in 1 .. Len(inode) : f # file => inode'[f] = inode[f]
    BY <1>t, <1>4, <2>1, ExceptSeq
  <2>3. LogTypeOK'
    BY <1>1, <1>2, <1>4, <2>2 DEF LogInv, LogTypeOK
  <2>4. NamesDiffer' /\ FilesNamed'
    BY <1>1, <2>2 DEF LogInv, NamesDiffer, FilesNamed
  <2>5. \A f \in 1 .. Len(inode) : Len(inode[f]) \in Nat
    BY <1>t, ElementOfSeq, LenProperties
  <2>6. ASSUME NEW f \in 1 .. Len(inode), NEW i \in 1 .. Len(inode'[f])
        PROVE  \/ i \in 1 .. Len(inode[f]) /\ inode'[f][i] = inode[f][i]
               \/ f = file /\ i = Len(inode[file]) + 1 /\ inode'[f][i] = line
    <3>1. CASE f # file
      BY <2>2, <2>6, <3>1
    <3>2. CASE f = file
      <4>1. i \in 1 .. Len(inode[file]) \/ i = Len(inode[file]) + 1
        BY <2>1, <2>2, <2>5, <2>6, <3>2
      <4> QED
        BY <2>1, <2>2, <3>2, <4>1
    <3> QED
      BY <3>1, <3>2
  <2>7. ASSUME NEW f \in 1 .. Len(inode), NEW i \in 1 .. Len(inode[f])
        PROVE  inode[f][i] # line
    <3>1. inode[f][i] = <<t, thread[t].lines>> => thread[t].lines < thread[t].lines
      BY <1>l, <1>1, <2>7 DEF LogInv, WrittenOnce
    <3> QED
      BY <1>l, <3>1 DEF line
  <2>8. ASSUME NEW f \in 1 .. Len(inode), NEW g \in 1 .. Len(inode),
               NEW i \in 1 .. Len(inode'[f]), NEW j \in 1 .. Len(inode'[g]),
               inode'[f][i] = inode'[g][j]
        PROVE  f = g /\ i = j
    <3>1. \/ i \in 1 .. Len(inode[f]) /\ inode'[f][i] = inode[f][i]
          \/ f = file /\ i = Len(inode[file]) + 1 /\ inode'[f][i] = line
      BY <2>6
    <3>2. \/ j \in 1 .. Len(inode[g]) /\ inode'[g][j] = inode[g][j]
          \/ g = file /\ j = Len(inode[file]) + 1 /\ inode'[g][j] = line
      BY <2>6
    <3>3. CASE /\ i \in 1 .. Len(inode[f]) /\ inode'[f][i] = inode[f][i]
               /\ j \in 1 .. Len(inode[g]) /\ inode'[g][j] = inode[g][j]
      <4>1. inode[f][i] = inode[g][j]
        BY <2>8, <3>3
      <4> QED
        BY <3>3, <4>1 DEF LogInv, WrittenOnce
    <3> QED
      BY <2>7, <2>8, <3>1, <3>2, <3>3
  <2>9. ASSUME NEW l \in written'
        PROVE  \E f \in 1 .. Len(inode) : \E i \in 1 .. Len(inode'[f]) : inode'[f][i] = l
    <3>1. CASE l = line
      <4>1. Len(inode[file]) + 1 \in 1 .. Len(inode'[file])
        BY <1>t, <2>1, <2>2, <2>5
      <4> QED
        BY <1>t, <2>1, <2>2, <3>1, <4>1
    <3>2. CASE l \in written
      <4>0. PICK f \in 1 .. Len(inode) : \E i \in 1 .. Len(inode[f]) : inode[f][i] = l
        BY <3>2 DEF LogInv, WrittenOnce
      <4>1. PICK i \in 1 .. Len(inode[f]) : inode[f][i] = l
        BY <4>0
      <4>2. i \in 1 .. Len(inode'[f]) /\ inode'[f][i] = l
        <5>1. CASE f = file
          BY <2>1, <2>2, <2>5, <4>1, <5>1
        <5>2. CASE f # file
          BY <2>2, <4>1, <5>2
        <5> QED
          BY <5>1, <5>2
      <4> QED
        BY <4>2
    <3> QED
      BY <1>4, <2>9, <3>1, <3>2
  <2>10. ASSUME NEW f \in 1 .. Len(inode), NEW i \in 1 .. Len(inode'[f]),
                NEW u \in Loggers, NEW k \in Nat, inode'[f][i] = <<u, k>>
         PROVE  k <= thread'[u].lines /\ (thread'[u].at = "write" => k < thread'[u].lines)
    <3>1. CASE i \in 1 .. Len(inode[f]) /\ inode'[f][i] = inode[f][i]
      BY <1>2, <2>10, <3>1, SMTT(30) DEF LogInv, WrittenOnce
    <3>2. CASE inode'[f][i] = line
      <4>1. u = t /\ k = thread[t].lines
        BY <2>10, <3>2 DEF line
      <4>2. k <= thread[t].lines
        BY <1>l, <4>1
      <4> QED
        BY <1>2, <4>1, <4>2
    <3> QED
      BY <2>6, <3>1, <3>2
  <2>11. WrittenOnce'
    BY <2>2, <2>8, <2>9, <2>10 DEF WrittenOnce
  <2> QED
    BY <2>3, <2>4, <2>11 DEF LogInv
<1> QED
  BY <1>3, <1>4 DEF Log!LogWrite, Log!Line

(* Renaming keeps the names apart and, unless the second had one already,  *)
(* loses no file.                                                          *)
LEMMA RotateRenameInv ==
  ASSUME LogInv, NEW t \in Loggers, Log!RotateRename(t)
  PROVE  LogInv'
<1>t. /\ thread \in [Loggers -> [at : LogSteps, lines : Nat]] /\ second \in Nat \ {0}
      /\ DOMAIN dir \subseteq Nat /\ dir \in [DOMAIN dir -> 1 .. Len(inode)]
  BY DEF LogInv, LogTypeOK
<1>1. /\ thread' = [thread EXCEPT ![t].at = "open"]
      /\ UNCHANGED <<inode, fout, file_len, second, written>>
  BY DEF Log!RotateRename, Log!Goto
<1>2. /\ thread' \in [Loggers -> [at : LogSteps, lines : Nat]]
      /\ \A u \in Loggers : /\ thread'[u].lines = thread[u].lines
                            /\ thread'[u].at = "write" => thread[u].at = "write"
  BY <1>t, <1>1 DEF LogSteps
<1>3. WrittenOnce'
  BY <1>1, <1>2, ThreadsMove
<1>4. CASE UNCHANGED <<dir, collided>>
  <2>1. LogTypeOK'
    BY <1>1, <1>2, <1>4 DEF LogInv, LogTypeOK
  <2>2. NamesDiffer' /\ FilesNamed'
    BY <1>1, <1>4 DEF LogInv, NamesDiffer, FilesNamed
  <2> QED
    BY <1>3, <2>1, <2>2 DEF LogInv
<1>5. CASE 0 \in DOMAIN dir
  <2> DEFINE D == (DOMAIN dir \ {0}) \cup {second}
             d == [n \in D |-> IF n = second THEN dir[0] ELSE dir[n]]
  <2>1. dir' = d /\ collided' = (collided \/ second \in DOMAIN dir)
    BY <1>5 DEF Log!RotateRename
  <2>2. /\ D \subseteq Nat /\ second \in D /\ DOMAIN d = D /\ d[second] = dir[0]
        /\ \A n \in D : n # second => n \in DOMAIN dir /\ n # 0 /\ d[n] = dir[n]
    BY <1>t
  <2>3. d \in [D -> 1 .. Len(inode)]
    BY <1>t, <1>5
  <2> HIDE DEF d, D
  <2>4. collided' \in BOOLEAN
    BY <2>1
  <2>5. LogTypeOK'
    BY <1>1, <1>2, <2>1, <2>2, <2>3, <2>4 DEF LogInv, LogTypeOK
  <2>6. NamesDiffer'
    <3> SUFFICES ASSUME NEW m \in D, NEW n \in D, d[m] = d[n]
                 PROVE  m = n
      BY <2>1, <2>2 DEF NamesDiffer
    <3> QED
      BY <1>5, <2>2 DEF LogInv, NamesDiffer
  <2>7. ASSUME ~ collided', NEW f \in 1 .. Len(inode)
        PROVE  \E n \in D : d[n] = f
    <3>1. ~ collided /\ second \notin DOMAIN dir
      BY <2>1, <2>7
    <3>2. PICK n \in DOMAIN dir : dir[n] = f
      BY <3>1 DEF LogInv, FilesNamed
    <3>3. CASE n = 0
      BY <2>2, <3>2, <3>3
    <3>4. CASE n # 0
      <4>1. n \in D /\ n # second
        BY <3>1, <3>4 DEF D
      <4> QED
        BY <2>2, <3>2, <4>1
    <3> QED
      BY <3>3, <3>4
  <2>8. FilesNamed'
    BY <1>1, <2>1, <2>2, <2>7 DEF FilesNamed
  <2> QED
    BY <1>3, <2>5, <2>6, <2>8 DEF LogInv
<1> QED
  BY <1>4, <1>5 DEF Log!RotateRename

(* Opening the log file again makes an empty file at most. *)
LEMMA RotateOpenInv ==
  ASSUME LogInv, NEW t \in Loggers, Log!RotateOpen(t)
  PROVE  LogInv'
<1>t. /\ thread \in [Loggers -> [at : LogSteps, lines : Nat]]
      /\ inode \in Seq(Seq(LogLines)) /\ Len(inode) \in Nat
      /\ DOMAIN dir \subseteq Nat /\ dir \in [DOMAIN dir -> 1 .. Len(inode)]
  BY LenProperties DEF LogInv, LogTypeOK
<1>1. /\ thread' = [thread EXCEPT ![t].at = "out"]
      /\ UNCHANGED <<second, written, collided>>
  BY DEF Log!RotateOpen, Log!Goto
<1>2. /\ thread' \in [Loggers -> [at : LogSteps, lines : Nat]]
      /\ \A u \in Loggers : /\ thread'[u].lines = thread[u].lines
                            /\ thread'[u].at = "write" => thread[u].at = "write"
  BY <1>t, <1>1 DEF LogSteps
<1>3. CASE 0 \in DOMAIN dir
  <2>1. fout' = [open |-> TRUE, fail |-> FALSE, file |-> dir[0]] /\ UNCHANGED <<inode, dir>>
    BY <1>3 DEF Log!RotateOpen, Log!Open
  <2>2. LogTypeOK'
    BY <1>t, <1>1, <1>2, <1>3, <2>1 DEF LogInv, LogTypeOK
  <2>3. WrittenOnce'
    BY <1>1, <1>2, <2>1, ThreadsMove
  <2> QED
    BY <1>1, <2>1, <2>2, <2>3 DEF LogInv, NamesDiffer, FilesNamed
<1>4. CASE 0 \notin DOMAIN dir
  <2> DEFINE new == Len(inode) + 1
             D == DOMAIN dir \cup {0}
             d == [n \in D |-> IF n = 0 THEN new ELSE dir[n]]
  <2>1. /\ inode' = Append(inode, <<>>) /\ dir' = d
        /\ fout' = [open |-> TRUE, fail |-> FALSE, file |-> new]
    BY <1>4 DEF Log!RotateOpen, Log!Open
  <2>2. <<>> \in Seq(LogLines) /\ Len(<<>>) = 0
    BY EmptySeq
  <2>3. /\ inode' \in Seq(Seq(LogLines)) /\ Len(inode') = new /\ inode'[new] = <<>>
        /\ \A f \in 1 .. Len(inode) : inode'[f] = inode[f]
    BY <1>t, <2>1, <2>2, AppendProperties
  <2>4. /\ D \subseteq Nat /\ DOMAIN d = D /\ d[0] = new /\ 0 \in D
        /\ \A n \in DOMAIN dir : n \in D /\ n # 0 /\ d[n] = dir[n]
        /\ \A n \in D : n # 0 => n \in DOMAIN dir
    BY <1>t, <1>4
  <2>5. d \in [D -> 1 .. new]
    BY <1>t
  <2>n. /\ new \in 1 .. new /\ new \notin 1 .. Len(inode)
        /\ \A f \in 1 .. new : f \in 1 .. Len(inode) \/ f = new
        /\ \A f \in 1 .. Len(inode) : f \in 1 .. new
    BY <1>t
  <2> HIDE DEF new, D, d
  <2>6. LogTypeOK'
    BY <1>1, <1>2, <2>1, <2>3, <2>4, <2>5, <2>n DEF LogInv, LogTypeOK
  <2>7. NamesDiffer'
    <3> SUFFICES ASSUME NEW m \in D, NEW n \in D, d[m] = d[n]
                 PROVE  m = n
      BY <2>1, <2>4 DEF NamesDiffer
    <3>1. \A k \in DOMAIN dir : dir[k] \in 1 .. Len(inode)
      BY <1>t
    <3>2. CASE m # 0 /\ n # 0
      BY <2>4, <3>2 DEF LogInv, NamesDiffer
    <3>3. CASE m = 0 \/ n = 0
      BY <2>4, <2>n, <3>1, <3>3
    <3> QED
      BY <3>2, <3>3
  <2>8. FilesNamed'
    <3> SUFFICES ASSUME ~ collided, NEW f \in 1 .. new
                 PROVE  \E n \in D : d[n] = f
      BY <1>1, <2>1, <2>3, <2>4 DEF FilesNamed
    <3>1. CASE f = new
      BY <2>4, <3>1
    <3>2. CASE f \in 1 .. Len(inode)
      <4>1. PICK n \in DOMAIN dir : dir[n] = f
        BY <3>2 DEF LogInv, FilesNamed
      <4> QED
        BY <2>4, <4>1
    <3> QED
      BY <2>n, <3>1, <3>2
  <2>9. ASSUME NEW f \in 1 .. new, NEW i \in 1 .. Len(inode'[f])
        PROVE  f \in 1 .. Len(inode) /\ inode'[f] = inode[f]
    <3>1. CASE f = new
      BY <2>2, <2>3, <2>9, <3>1
    <3> QED
      BY <2>3, <2>n, <3>1
  <2>10. WrittenOnce'
    <3>1. ASSUME NEW l \in written
          PROVE  \E f \in 1 .. new : \E i \in 1 .. Len(inode'[f]) : inode'[f][i] = l
      <4>1. PICK f \in 1 .. Len(inode) : \E i \in 1 .. Len(inode[f]) : inode[f][i] = l
        BY DEF LogInv, WrittenOnce
      <4> QED
        BY <2>3, <2>n, <4>1
    <3>2. ASSUME NEW f \in 1 .. new, NEW g \in 1 .. new,
                 NEW i \in 1 .. Len(inode'[f]), NEW j \in 1 .. Len(inode'[g]),
                 inode'[f][i] = inode'[g][j]
          PROVE  f = g /\ i = j
      <4>1. /\ f \in 1 .. Len(inode) /\ g \in 1 .. Len(inode)
            /\ i \in 1 .. Len(inode[f]) /\ j \in 1 .. Len(inode[g])
            /\ inode[f][i] = inode[g][j]
        BY <2>9, <3>2
      <4> QED
        BY <4>1 DEF LogInv, WrittenOnce
    <3>3. ASSUME NEW f \in 1 .. new, NEW i \in 1 .. Len(inode'[f]),
                 NEW u \in Loggers, NEW k \in Nat, inode'[f][i] = <<u, k>>
          PROVE  k <= thread'[u].lines /\ (thread'[u].at = "write" => k < thread'[u].lines)
      <4>1. /\ f \in 1 .. Len(inode) /\ i \in 1 .. Len(inode[f]) /\ inode[f][i] = <<u, k>>
        BY <2>9, <3>3
      <4>2. k <= thread[u].lines /\ (thread[u].at = "write" => k < thread[u].lines)
        BY <4>1 DEF LogInv, WrittenOnce
      <4> QED
        BY <1>2, <4>2
    <3> QED
      BY <1>1, <2>3, <3>1, <3>2, <3>3 DEF WrittenOnce
  <2> QED
    BY <2>6, <2>7, <2>8, <2>10 DEF LogInv
<1> QED
  BY <1>3, <1>4

(* A line that reached the log stays in one of its files, once, for any    *)
(* number of threads, lines and rotations.                                 *)
THEOREM LinesAreKept == Log!LogSpec => []LinesKept
<1>1. Log!LogInit => LogInv
  <2> SUFFICES ASSUME Log!LogInit
               PROVE  LogInv
    OBVIOUS
  <2>1. <<>> \in Seq(LogLines) /\ Len(<<>>) = 0
    BY EmptySeq
  <2>2. inode \in Seq(Seq(LogLines)) /\ Len(inode) = 1 /\ inode[1] = <<>>
    BY <2>1 DEF Log!LogInit
  <2>3. DOMAIN dir = {0} /\ dir[0] = 1 /\ dir \in [{0} -> 1 .. Len(inode)]
    BY <2>2 DEF Log!LogInit
  <2>4. LogTypeOK
    <3>1. DOMAIN dir \subseteq Nat /\ dir \in [DOMAIN dir -> 1 .. Len(inode)]
      BY <2>3
    <3>2. fout \in [open : BOOLEAN, fail : BOOLEAN, file : 1 .. Len(inode)]
      BY <2>2 DEF Log!LogInit
    <3>3. thread \in [Loggers -> [at : LogSteps, lines : Nat]]
      <4> DEFINE r == [at |-> "out", lines |-> 0]
                 R == [at : LogSteps, lines : Nat]
      <4>1. r \in R
        BY DEF LogSteps
      <4>2. thread = [t \in Loggers |-> r]
        BY DEF Log!LogInit
      <4> HIDE DEF r, R
      <4>3. thread \in [Loggers -> R]
        BY <4>1, <4>2
      <4> QED
        BY <4>3 DEF R
    <3>4. second = 1 /\ collided = FALSE
      BY Zenon DEF Log!LogInit
    <3>5. 1 \in Nat \ {0}
      OBVIOUS
    <3>6. second \in Nat \ {0} /\ collided \in BOOLEAN
      BY <3>4, <3>5, Zenon
    <3> QED
      BY <2>2, <3>1, <3>2, <3>3, <3>6 DEF LogTypeOK
  <2>5. NamesDiffer /\ FilesNamed
    BY <2>2, <2>3 DEF NamesDiffer, FilesNamed
  <2>6. WrittenOnce
    <3>1. \A f \in 1 .. Len(inode) : Len(inode[f]) = 0
      BY <2>1, <2>2
    <3> QED
      BY <3>1 DEF Log!LogInit, WrittenOnce
  <2> QED
    BY <2>4, <2>5, <2>6 DEF LogInv
<1>2. LogInv /\ [Log!LogNext]_Log!logVars => LogInv'
  <2> SUFFICES ASSUME LogInv, [Log!LogNext]_Log!logVars
               PROVE  LogInv'
    OBVIOUS
  <2>t. /\ thread \in [Loggers -> [at : LogSteps, lines : Nat]]
        /\ fout \in [open : BOOLEAN, fail : BOOLEAN, file : 1 .. Len(inode)]
        /\ second \in Nat \ {0}
    BY DEF LogInv, LogTypeOK
  <2>m. ASSUME UNCHANGED <<inode, dir, written, collided>>,
               fout' \in [open : BOOLEAN, fail : BOOLEAN, file : 1 .. Len(inode)],
               second' \in Nat \ {0},
               thread' \in [Loggers -> [at : LogSteps, lines : Nat]],
               \A t \in Loggers :
                 \/ thread'[t].lines = thread[t].lines
                    /\ (thread'[t].at = "write" => thread[t].at = "write")
                 \/ thread'[t].lines = thread[t].lines + 1
        PROVE  LogInv'
    <3>1. WrittenOnce'
      BY <2>m, ThreadsMove
    <3>2. LogTypeOK'
      BY <2>m DEF LogInv, LogTypeOK
    <3> QED
      BY <2>m, <3>1, <3>2 DEF LogInv, NamesDiffer, FilesNamed
  <2>1. ASSUME NEW t \in Loggers, NEW l \in Levels, Log!Log(t, l)
        PROVE  LogInv'
    <3>1. /\ UNCHANGED <<inode, dir, fout, second, written, collided>>
          /\ \/ thread' = [thread EXCEPT ![t].lines = @ + 1]
             \/ thread' = [thread EXCEPT ![t] = [at |-> "write", lines |-> thread[t].lines + 1]]
      BY <2>1 DEF Log!Log, Log!fileVars
    <3>2. /\ thread' \in [Loggers -> [at : LogSteps, lines : Nat]]
          /\ thread'[t].lines = thread[t].lines + 1
          /\ \A u \in Loggers : u # t => thread'[u] = thread[u]
      BY <2>t, <3>1 DEF LogSteps
    <3> QED
      BY <2>m, <2>t, <3>1, <3>2
  <2>2. ASSUME NEW t \in Loggers, Log!LogWrite(t)
        PROVE  LogInv'
    BY <2>2, LogWriteInv
  <2>3. ASSUME NEW t \in Loggers, Log!LogCheck(t)
        PROVE  LogInv'
    <3>1. /\ UNCHANGED <<inode, dir, fout, second, written, collided>>
          /\ \E s \in {"close", "out"} : thread' = [thread EXCEPT ![t].at = s]
      BY <2>3 DEF Log!LogCheck, Log!Goto, Log!fileVars
    <3>2. /\ thread' \in [Loggers -> [at : LogSteps, lines : Nat]]
          /\ \A u \in Loggers : /\ thread'[u].lines = thread[u].lines
                                /\ thread'[u].at = "write" => thread[u].at = "write"
      BY <2>t, <3>1 DEF LogSteps
    <3> QED
      BY <2>m, <2>t, <3>1, <3>2
  <2>4. ASSUME NEW t \in Loggers, Log!RotateClose(t)
        PROVE  LogInv'
    <3>1. /\ UNCHANGED <<inode, dir, second, written, collided>>
          /\ fout' = [fout EXCEPT !.open = FALSE, !.fail = @ \/ ~fout.open]
          /\ thread' = [thread EXCEPT ![t].at = "rename"]
      BY <2>4 DEF Log!RotateClose, Log!Goto
    <3>2. /\ thread' \in [Loggers -> [at : LogSteps, lines : Nat]]
          /\ \A u \in Loggers : /\ thread'[u].lines = thread[u].lines
                                /\ thread'[u].at = "write" => thread[u].at = "write"
      BY <2>t, <3>1 DEF LogSteps
    <3>3. fout' \in [open : BOOLEAN, fail : BOOLEAN, file : 1 .. Len(inode)]
      BY <2>t, <3>1
    <3> QED
      BY <2>m, <2>t, <3>1, <3>2, <3>3
  <2>5. ASSUME NEW t \in Loggers, Log!RotateRename(t)
        PROVE  LogInv'
    BY <2>5, RotateRenameInv
  <2>6. ASSUME NEW t \in Loggers, Log!RotateOpen(t)
        PROVE  LogInv'
    BY <2>6, RotateOpenInv
  <2>7. CASE Log!Tick
    <3>1. /\ UNCHANGED <<inode, dir, fout, thread, written, collided>>
          /\ second' = second + 1
      BY <2>7 DEF Log!Tick, Log!fileVars
    <3>2. second' \in Nat \ {0}
      BY <2>t, <3>1
    <3> QED
      BY <2>m, <2>t, <3>1, <3>2
  <2>8. CASE UNCHANGED Log!logVars
    BY <2>8, <2>m, <2>t DEF Log!logVars
  <2> QED
    BY <2>1, <2>2, <2>3, <2>4, <2>5, <2>6, <2>7, <2>8 DEF Log!LogNext
<1>3. LogInv => LinesKept
  <2> SUFFICES ASSUME LogInv, ~ collided, NEW l \in written
               PROVE  \E n \in DOMAIN dir : \E i \in 1 .. Len(inode[dir[n]]) :
                        /\ inode[dir[n]][i] = l
                        /\ \A m \in DOMAIN dir : \A j \in 1 .. Len(inode[dir[m]]) :
                             inode[dir[m]][j] = l => m = n /\ j = i
    BY DEF LinesKept, Log!LinesKept
  <2>1. PICK f \in 1 .. Len(inode) : \E i \in 1 .. Len(inode[f]) : inode[f][i] = l
    BY DEF LogInv, WrittenOnce
  <2>2. PICK i \in 1 .. Len(inode[f]) : inode[f][i] = l
    BY <2>1
  <2>3. PICK n \in DOMAIN dir : dir[n] = f
    BY DEF LogInv, FilesNamed
  <2>4. ASSUME NEW m \in DOMAIN dir, NEW j \in 1 .. Len(inode[dir[m]]), inode[dir[m]][j] = l
        PROVE  m = n /\ j = i
    <3>1. dir[m] \in 1 .. Len(inode)
      BY DEF LogInv, LogTypeOK
    <3>2. dir[m] = f /\ j = i
      BY <2>2, <2>4, <3>1 DEF LogInv, WrittenOnce
    <3> QED
      BY <2>3, <3>2 DEF LogInv, NamesDiffer
  <2> QED
    BY <2>2, <2>3, <2>4
<1> QED
  BY <1>1, <1>2, <1>3, PTL DEF Log!LogSpec
-----------------------------------------------------------------------------
(***************************************************************************)
(* The API of a process (NodeApi): a subscriber owns its coroutine and its *)
(* receiver is enabled for the writers, for any numbers of threads, nodes, *)
(* channels and writers, and any way coroutines may share a name.          *)
(***************************************************************************)

ApiSteps == {"out", "task", "receiver", "listen", "writers", "join"}
ApiWriters == Remote \cup Api!Subs
ApiChange == [channel : Channels, writer : ApiWriters, joins : BOOLEAN, to : SUBSET Api!Subs]

ApiTypeOK ==
  /\ init \in SUBSET Api!Subs /\ publishers \in SUBSET Api!Subs
  /\ listening \in SUBSET Api!Subs /\ readers \in SUBSET Api!Subs
  /\ subscribers \in [NodeObjects -> SUBSET Channels]
  /\ task_owner \in [{Api!Name(s) : s \in Api!Subs} -> Api!Subs \cup {Nothing}]
  /\ writers \in [Channels -> SUBSET ApiWriters]
  /\ enabled \in [Channels -> SUBSET ApiWriters]
  /\ changes \in SUBSET ApiChange
  /\ call \in [Callers -> [at : ApiSteps, sub : Api!Subs \cup {Nothing}]]
  /\ \A t \in Callers : call[t].at # "out" => call[t].sub \in Api!Subs

(* subscribers_mutex_ admits one creation per node, and that of a          *)
(* subscriber which the node does not have.                                *)
CreationsApart ==
  \A t \in Callers : call[t].at # "out" =>
    /\ call[t].sub[2] \notin subscribers[call[t].sub[1]]
    /\ \A u \in Callers \ {t} : call[u].at # "out" => call[u].sub[1] # call[t].sub[1]

(* Whoever has init_ has its coroutine or is about to ask for it. *)
TaskOwned ==
  \A s \in init : \/ task_owner[Api!Name(s)] = s
                  \/ \E t \in Callers : call[t].at = "task" /\ call[t].sub = s

(* Who has asked for the writers listens for changes, and did before. *)
AskedForWriters(s) == s \in readers \/ \E t \in Callers : call[t].at = "join" /\ call[t].sub = s
ListensFirst ==
  /\ readers \subseteq listening
  /\ \A t \in Callers : call[t].at \in {"writers", "join"} => call[t].sub \in listening

(* A writer that is known is enabled, or the change that will enable it is *)
(* still to reach the subscriber.                                          *)
WriterComes(s, w) ==
  \/ w \in enabled[s[2]]
  \/ \E x \in changes : x.channel = s[2] /\ x.writer = w /\ x.joins = TRUE /\ s \in x.to
WritersReached ==
  \A s \in Api!Subs : AskedForWriters(s) => \A w \in writers[s[2]] : WriterComes(s, w)

(* A change that is notified as a leave is one. *)
LeavesRecorded == \A x \in changes : x.joins = FALSE => x.writer \notin writers[x.channel]

ApiInv ==
  /\ ApiTypeOK /\ CreationsApart /\ TaskOwned
  /\ ListensFirst /\ WritersReached /\ LeavesRecorded

LEMMA SubsArePairs ==
  \A s \in Api!Subs : s = <<s[1], s[2]>> /\ s[1] \in NodeObjects /\ s[2] \in Channels
  BY DEF Api!Subs

(* A caller takes a step of CreateSubscriber that leaves it creating. *)
LEMMA ApiGoto ==
  ASSUME ApiTypeOK, NEW t \in Callers, NEW to \in ApiSteps,
         call[t].at # "out", to # "out", Api!Goto(t, to)
  PROVE  /\ call' \in [Callers -> [at : ApiSteps, sub : Api!Subs \cup {Nothing}]]
         /\ \A u \in Callers : call'[u].at # "out" => call'[u].sub \in Api!Subs
         /\ \A u \in Callers : call'[u].sub = call[u].sub
         /\ call'[t].at = to
         /\ \A u \in Callers \ {t} : call'[u].at = call[u].at
  BY DEF ApiTypeOK, Api!Goto

(* A caller returns. *)
LEMMA ApiReturn ==
  ASSUME ApiTypeOK, NEW t \in Callers, Api!Return(t)
  PROVE  /\ call' \in [Callers -> [at : ApiSteps, sub : Api!Subs \cup {Nothing}]]
         /\ \A u \in Callers : call'[u].at # "out" => call'[u].sub \in Api!Subs
         /\ call'[t].at = "out"
         /\ \A u \in Callers \ {t} : call'[u] = call[u]
<1>1. call' = [call EXCEPT ![t] = Api!Out]
  BY DEF Api!Return
<1>2. Api!Out \in [at : ApiSteps, sub : Api!Subs \cup {Nothing}] /\ Api!Out.at = "out"
  BY DEF Api!Out, ApiSteps
<1>3. call \in [Callers -> [at : ApiSteps, sub : Api!Subs \cup {Nothing}]]
  BY DEF ApiTypeOK
<1>4. call' \in [Callers -> [at : ApiSteps, sub : Api!Subs \cup {Nothing}]]
  BY <1>1, <1>2, <1>3
<1>5. call'[t] = Api!Out /\ \A u \in Callers \ {t} : call'[u] = call[u]
  BY <1>1, <1>3
<1> QED
  BY <1>2, <1>4, <1>5 DEF ApiTypeOK

(* The steps that leave everything but the callers' positions before       *)
(* JoinWriters alone.                                                      *)
LEMMA ApiQuiet ==
  ASSUME ApiInv,
         UNCHANGED <<subscribers, init, task_owner, enabled, publishers, writers, readers,
                     listening, changes, call>>
  PROVE  ApiInv'
<1>1. ApiTypeOK'
  BY DEF ApiInv, ApiTypeOK
<1>2. CreationsApart' /\ TaskOwned' /\ ListensFirst' /\ LeavesRecorded'
  BY DEF ApiInv, CreationsApart, TaskOwned, ListensFirst, LeavesRecorded
<1>3. WritersReached'
  BY DEF ApiInv, WritersReached, WriterComes, AskedForWriters
<1> QED
  BY <1>1, <1>2, <1>3 DEF ApiInv

(* Subscriber::Shutdown of subscribers their nodes have. *)
LEMMA ApiShutdown ==
  ASSUME ApiInv, NEW S \in SUBSET Api!Subs, Api!ShutdownAll(S),
         \A s \in S : s[2] \in subscribers[s[1]],
         subscribers' \in [NodeObjects -> SUBSET Channels],
         \A n \in NodeObjects : subscribers'[n] \subseteq subscribers[n],
         UNCHANGED <<enabled, publishers, writers, changes, call>>
  PROVE  ApiInv'
<1>t. ApiTypeOK
  BY DEF ApiInv
<1>1. /\ init' = init \ S
      /\ listening' = listening \ (init \cap S) /\ readers' = readers \ (init \cap S)
      /\ task_owner' = [r \in DOMAIN task_owner |->
                          IF \E s \in init \cap S : Api!Name(s) = r THEN Nothing ELSE task_owner[r]]
  BY DEF Api!ShutdownAll
<1>2. \A s \in S : \A t \in Callers : call[t].at # "out" => call[t].sub # s
  BY SubsArePairs DEF ApiInv, CreationsApart
<1>3. ApiTypeOK'
  <2>1. task_owner' \in [{Api!Name(s) : s \in Api!Subs} -> Api!Subs \cup {Nothing}]
    BY <1>t, <1>1 DEF ApiTypeOK
  <2> QED
    BY <1>t, <1>1, <2>1 DEF ApiTypeOK
<1>4. CreationsApart'
  <2>1. \A t \in Callers : call[t].at # "out" => call[t].sub[1] \in NodeObjects
    BY <1>t, SubsArePairs DEF ApiTypeOK
  <2> QED
    BY <2>1 DEF ApiInv, CreationsApart
<1>5. TaskOwned'
  <2> SUFFICES ASSUME NEW s \in init',
                      ~ \E t \in Callers : call[t].at = "task" /\ call[t].sub = s
               PROVE  task_owner'[Api!Name(s)] = s
    BY DEF TaskOwned
  <2>1. s \in init /\ s \notin S /\ s \in Api!Subs
    BY <1>t, <1>1 DEF ApiTypeOK
  <2>2. task_owner[Api!Name(s)] = s
    BY <2>1 DEF ApiInv, TaskOwned
  <2>3. ASSUME NEW z \in init \cap S, Api!Name(z) = Api!Name(s)
        PROVE  FALSE
    <3>1. task_owner[Api!Name(z)] = z
      BY <1>2, <2>3 DEF ApiInv, TaskOwned
    <3> QED
      BY <2>1, <2>2, <2>3, <3>1
  <2>4. Api!Name(s) \in DOMAIN task_owner
    BY <1>t, <2>1 DEF ApiTypeOK
  <2> QED
    BY <1>1, <2>2, <2>3, <2>4
<1>6. ListensFirst'
  BY <1>1, <1>2 DEF ApiInv, ListensFirst
<1>7. WritersReached'
  BY <1>1 DEF ApiInv, WritersReached, WriterComes, AskedForWriters
<1>8. LeavesRecorded'
  BY DEF ApiInv, LeavesRecorded
<1> QED
  BY <1>3, <1>4, <1>5, <1>6, <1>7, <1>8 DEF ApiInv

(* The channel manager records a writer's join or leave. *)
LEMMA ApiChanged ==
  ASSUME ApiInv, NEW c \in Channels, NEW w \in ApiWriters, NEW joins \in BOOLEAN,
         Api!Changed(c, w, joins), publishers' \in SUBSET Api!Subs,
         UNCHANGED <<subscribers, init, task_owner, enabled, call>>
  PROVE  ApiInv'
<1>t. ApiTypeOK
  BY DEF ApiInv
<1> DEFINE new == [channel |-> c, writer |-> w, joins |-> joins, to |-> listening]
<1>1. /\ \A x \in changes : x.writer # w
      /\ writers' = [writers EXCEPT ![c] = IF joins THEN @ \cup {w} ELSE @ \ {w}]
      /\ changes' = changes \cup {new}
      /\ readers' = readers /\ listening' = listening
  BY DEF Api!Changed
<1>2. /\ new \in ApiChange /\ new.channel = c /\ new.writer = w /\ new.joins = joins
      /\ new.to = listening
  BY <1>t DEF ApiTypeOK, ApiChange
<1> HIDE DEF new
<1>3. /\ writers' \in [Channels -> SUBSET ApiWriters]
      /\ \A d \in Channels \ {c} : writers'[d] = writers[d]
      /\ joins = TRUE => writers'[c] = writers[c] \cup {w}
      /\ joins = FALSE => writers'[c] = writers[c] \ {w}
  BY <1>t, <1>1 DEF ApiTypeOK
<1>4. ApiTypeOK'
  BY <1>t, <1>1, <1>2, <1>3 DEF ApiTypeOK
<1>5. CreationsApart' /\ TaskOwned' /\ ListensFirst'
  BY <1>1 DEF ApiInv, CreationsApart, TaskOwned, ListensFirst
<1>6. WritersReached'
  <2> SUFFICES ASSUME NEW s \in Api!Subs, AskedForWriters(s), NEW v \in writers'[s[2]]
               PROVE  WriterComes(s, v)'
    BY <1>1 DEF WritersReached, AskedForWriters
  <2>1. s \in listening
    BY DEF ApiInv, ListensFirst, AskedForWriters
  <2>2. CASE s[2] = c /\ v = w
    <3>1. joins = TRUE
      BY <1>3, <2>2
    <3> QED
      BY <1>1, <1>2, <2>1, <2>2, <3>1 DEF WriterComes
  <2>3. CASE ~ (s[2] = c /\ v = w)
    <3>1. v \in writers[s[2]]
      BY <1>3, <2>3, SubsArePairs
    <3>2. WriterComes(s, v)
      BY <3>1 DEF ApiInv, WritersReached
    <3> QED
      BY <1>1, <3>2 DEF WriterComes
  <2> QED
    BY <2>2, <2>3
<1>7. LeavesRecorded'
  <2> SUFFICES ASSUME NEW x \in changes', x.joins = FALSE
               PROVE  x.writer \notin writers'[x.channel]
    BY DEF LeavesRecorded
  <2>1. CASE x = new
    BY <1>2, <1>3, <2>1
  <2>2. CASE x \in changes
    <3>1. x.writer # w /\ x.writer \notin writers[x.channel] /\ x.channel \in Channels
      BY <1>t, <1>1, <2>2 DEF ApiInv, LeavesRecorded, ApiTypeOK, ApiChange
    <3> QED
      BY <1>3, <3>1
  <2> QED
    BY <1>1, <2>1, <2>2
<1> QED
  BY <1>4, <1>5, <1>6, <1>7 DEF ApiInv

(* CreateSubscriber up to Init: nobody else creates in this node. *)
LEMMA ApiCreateSubscriber ==
  ASSUME ApiInv, NEW t \in Callers, NEW s \in Api!Subs,
         Api!CreateSubscriber(t, s[1], s[2])
  PROVE  ApiInv'
<1>t. ApiTypeOK
  BY DEF ApiInv
<1> DEFINE new == [at |-> "task", sub |-> s]
<1>1. /\ call[t].at = "out" /\ s[2] \notin subscribers[s[1]]
      /\ \A u \in Callers : call[u].at # "out" => call[u].sub[1] # s[1]
      /\ init' = init \cup {s}
      /\ call' = [call EXCEPT ![t] = new]
      /\ UNCHANGED <<subscribers, task_owner, enabled, publishers, writers, readers,
                     listening, changes>>
  BY SubsArePairs
     DEF Api!CreateSubscriber, Api!NewSubscriber, Api!At, Api!Locked, Api!nodeVars, Api!topoVars
<1>2. /\ new \in [at : ApiSteps, sub : Api!Subs \cup {Nothing}]
      /\ new.at = "task" /\ new.sub = s
  BY DEF ApiSteps
<1> HIDE DEF new
<1>3. /\ call' \in [Callers -> [at : ApiSteps, sub : Api!Subs \cup {Nothing}]]
      /\ call'[t].at = "task" /\ call'[t].sub = s
      /\ \A u \in Callers \ {t} : call'[u] = call[u]
  BY <1>t, <1>1, <1>2 DEF ApiTypeOK
<1>4. ApiTypeOK'
  BY <1>t, <1>1, <1>3 DEF ApiTypeOK
<1>5. CreationsApart'
  BY <1>1, <1>3 DEF ApiInv, CreationsApart
<1>6. TaskOwned'
  BY <1>1, <1>3 DEF ApiInv, TaskOwned
<1>7. ListensFirst' /\ LeavesRecorded'
  BY <1>1, <1>3 DEF ApiInv, ListensFirst, LeavesRecorded
<1>8. WritersReached'
  BY <1>1, <1>3 DEF ApiInv, WritersReached, WriterComes, AskedForWriters
<1> QED
  BY <1>4, <1>5, <1>6, <1>7, <1>8 DEF ApiInv

(* Init: the coroutine is the subscriber's, or init_ is reset. *)
LEMMA ApiInitTask ==
  ASSUME ApiInv, NEW t \in Callers, Api!InitTask(t)
  PROVE  ApiInv'
<1>t. ApiTypeOK
  BY DEF ApiInv
<1> DEFINE s == call[t].sub
<1>1. /\ call[t].at = "task"
      /\ UNCHANGED <<subscribers, enabled, publishers, writers, readers, listening, changes>>
      /\ \/ /\ task_owner[Api!Name(s)] = Nothing
            /\ task_owner' = [task_owner EXCEPT ![Api!Name(s)] = s]
            /\ init' = init /\ Api!Goto(t, "receiver")
         \/ /\ task_owner' = task_owner /\ init' = init \ {s} /\ Api!Return(t)
  BY DEF Api!InitTask, Api!At, Api!nodeVars, Api!topoVars
<1>2. s \in Api!Subs /\ Api!Name(s) \in DOMAIN task_owner
  BY <1>t, <1>1 DEF ApiTypeOK
<1>3. ASSUME NEW u \in Callers, call[u].at # "out", u # t
      PROVE  call[u].sub # s
  BY <1>1, <1>3 DEF ApiInv, CreationsApart
<1>4. CASE /\ task_owner[Api!Name(s)] = Nothing
           /\ task_owner' = [task_owner EXCEPT ![Api!Name(s)] = s]
           /\ init' = init /\ Api!Goto(t, "receiver")
  <2>1. /\ call' \in [Callers -> [at : ApiSteps, sub : Api!Subs \cup {Nothing}]]
        /\ \A u \in Callers : call'[u].at # "out" => call'[u].sub \in Api!Subs
        /\ \A u \in Callers : call'[u].sub = call[u].sub
        /\ call'[t].at = "receiver"
        /\ \A u \in Callers \ {t} : call'[u].at = call[u].at
    BY <1>t, <1>1, <1>4, ApiGoto DEF ApiSteps
  <2>2. ApiTypeOK'
    BY <1>t, <1>1, <1>2, <1>4, <2>1 DEF ApiTypeOK
  <2>3. CreationsApart'
    BY <1>1, <2>1 DEF ApiInv, CreationsApart
  <2>4. TaskOwned'
    <3> SUFFICES ASSUME NEW z \in init,
                        ~ \E u \in Callers : call'[u].at = "task" /\ call'[u].sub = z
                 PROVE  task_owner'[Api!Name(z)] = z
      BY <1>4 DEF TaskOwned
    <3>1. CASE z = s
      BY <1>2, <1>4, <3>1
    <3>2. CASE z # s
      <4>1. task_owner[Api!Name(z)] = z /\ z \in Api!Subs
        BY <1>t, <2>1, <3>2 DEF ApiInv, TaskOwned, ApiTypeOK
      <4>2. Api!Name(z) # Api!Name(s)
        BY <1>4, <4>1, ApiConstants DEF Api!Subs
      <4> QED
        BY <1>2, <1>4, <4>1, <4>2
    <3> QED
      BY <3>1, <3>2
  <2>5. ListensFirst' /\ LeavesRecorded'
    BY <1>1, <2>1 DEF ApiInv, ListensFirst, LeavesRecorded
  <2>6. WritersReached'
    BY <1>1, <2>1 DEF ApiInv, WritersReached, WriterComes, AskedForWriters
  <2> QED
    BY <2>2, <2>3, <2>4, <2>5, <2>6 DEF ApiInv
<1>5. CASE task_owner' = task_owner /\ init' = init \ {s} /\ Api!Return(t)
  <2>1. /\ call' \in [Callers -> [at : ApiSteps, sub : Api!Subs \cup {Nothing}]]
        /\ \A u \in Callers : call'[u].at # "out" => call'[u].sub \in Api!Subs
        /\ call'[t].at = "out"
        /\ \A u \in Callers \ {t} : call'[u] = call[u]
    BY <1>t, <1>5, ApiReturn
  <2>2. ApiTypeOK'
    BY <1>t, <1>1, <1>5, <2>1 DEF ApiTypeOK
  <2>3. CreationsApart'
    BY <1>1, <2>1 DEF ApiInv, CreationsApart
  <2>4. TaskOwned'
    BY <1>5, <2>1 DEF ApiInv, TaskOwned
  <2>5. ListensFirst' /\ LeavesRecorded'
    BY <1>1, <2>1 DEF ApiInv, ListensFirst, LeavesRecorded
  <2>6. WritersReached'
    BY <1>1, <2>1 DEF ApiInv, WritersReached, WriterComes, AskedForWriters
  <2> QED
    BY <2>2, <2>3, <2>4, <2>5, <2>6 DEF ApiInv
<1> QED
  BY <1>1, <1>4, <1>5

(* GetReceiver and the steps of JoinTheTopology. *)
LEMMA ApiJoin ==
  ASSUME ApiInv, NEW t \in Callers, Api!GetReceiver(t) \/ Api!JoinTheTopology(t)
  PROVE  ApiInv'
<1>t. ApiTypeOK
  BY DEF ApiInv
<1> DEFINE s == call[t].sub
           Moved(to) ==
             /\ call' \in [Callers -> [at : ApiSteps, sub : Api!Subs \cup {Nothing}]]
             /\ \A u \in Callers : call'[u].at # "out" => call'[u].sub \in Api!Subs
             /\ \A u \in Callers : call'[u].sub = call[u].sub
             /\ call'[t].at = to
             /\ \A u \in Callers \ {t} : call'[u].at = call[u].at
<1>1. CASE Api!GetReceiver(t)
  <2>1. /\ call[t].at = "receiver"
        /\ UNCHANGED <<subscribers, init, task_owner, enabled, publishers, writers, readers,
                       listening, changes>>
        /\ Moved("listen")
    BY <1>t, <1>1, ApiGoto DEF Api!GetReceiver, Api!At, Api!nodeVars, Api!topoVars, ApiSteps
  <2>2. ApiTypeOK'
    BY <1>t, <2>1 DEF ApiTypeOK
  <2>3. CreationsApart' /\ TaskOwned'
    BY <2>1 DEF ApiInv, CreationsApart, TaskOwned
  <2>4. ListensFirst' /\ LeavesRecorded'
    BY <2>1 DEF ApiInv, ListensFirst, LeavesRecorded
  <2>5. WritersReached'
    BY <2>1 DEF ApiInv, WritersReached, WriterComes, AskedForWriters
  <2> QED
    BY <2>2, <2>3, <2>4, <2>5 DEF ApiInv
<1>2. CASE Api!JoinListen(t, "listen", "writers")
  <2>1. /\ call[t].at = "listen"
        /\ UNCHANGED <<subscribers, init, task_owner, enabled, publishers, writers, readers,
                       changes>>
        /\ listening' = listening \cup {s}
        /\ Moved("writers")
    BY <1>t, <1>2, ApiGoto DEF Api!JoinListen, Api!At, Api!nodeVars, ApiSteps
  <2>2. ApiTypeOK'
    BY <1>t, <2>1 DEF ApiTypeOK
  <2>3. CreationsApart' /\ TaskOwned'
    BY <2>1 DEF ApiInv, CreationsApart, TaskOwned
  <2>4. ListensFirst' /\ LeavesRecorded'
    BY <2>1 DEF ApiInv, ListensFirst, LeavesRecorded
  <2>5. WritersReached'
    BY <2>1 DEF ApiInv, WritersReached, WriterComes, AskedForWriters
  <2> QED
    BY <2>2, <2>3, <2>4, <2>5 DEF ApiInv
<1>3. CASE Api!JoinWriters(t, "writers", "join")
  <2>1. /\ call[t].at = "writers"
        /\ UNCHANGED <<subscribers, init, task_owner, publishers, writers, readers,
                       listening, changes>>
        /\ enabled' = [enabled EXCEPT ![s[2]] = @ \cup writers[s[2]]]
        /\ Moved("join")
    BY <1>t, <1>3, ApiGoto DEF Api!JoinWriters, Api!At, Api!nodeVars, Api!topoVars, ApiSteps
  <2>2. s \in Api!Subs /\ s[2] \in Channels
    BY <1>t, <2>1, SubsArePairs DEF ApiTypeOK
  <2>3. /\ enabled' \in [Channels -> SUBSET ApiWriters]
        /\ \A c \in Channels : enabled[c] \subseteq enabled'[c]
        /\ writers[s[2]] \subseteq enabled'[s[2]]
    BY <1>t, <2>1, <2>2 DEF ApiTypeOK
  <2>4. ApiTypeOK'
    BY <1>t, <2>1, <2>3 DEF ApiTypeOK
  <2>5. CreationsApart' /\ TaskOwned'
    BY <2>1 DEF ApiInv, CreationsApart, TaskOwned
  <2>6. ListensFirst' /\ LeavesRecorded'
    BY <2>1 DEF ApiInv, ListensFirst, LeavesRecorded
  <2>7. WritersReached'
    <3> SUFFICES ASSUME NEW z \in Api!Subs, AskedForWriters(z)', NEW w \in writers[z[2]]
                 PROVE  WriterComes(z, w)'
      BY <2>1 DEF WritersReached
    <3>1. CASE z = s
      BY <2>3, <3>1 DEF WriterComes
    <3>2. CASE z # s
      <4>1. AskedForWriters(z)
        BY <2>1, <3>2 DEF AskedForWriters
      <4>2. WriterComes(z, w) /\ z[2] \in Channels
        BY <4>1, SubsArePairs DEF ApiInv, WritersReached
      <4> QED
        BY <2>1, <2>3, <4>2 DEF WriterComes
    <3> QED
      BY <3>1, <3>2
  <2> QED
    BY <2>4, <2>5, <2>6, <2>7 DEF ApiInv
<1>4. CASE Api!JoinReader(t)
  <2>1. /\ call[t].at = "join"
        /\ UNCHANGED <<init, task_owner, enabled, publishers, writers, listening, changes>>
        /\ readers' = readers \cup {s}
        /\ subscribers' = [subscribers EXCEPT ![s[1]] = @ \cup {s[2]}]
        /\ call' \in [Callers -> [at : ApiSteps, sub : Api!Subs \cup {Nothing}]]
        /\ \A u \in Callers : call'[u].at # "out" => call'[u].sub \in Api!Subs
        /\ call'[t].at = "out"
        /\ \A u \in Callers \ {t} : call'[u] = call[u]
    BY <1>t, <1>4, ApiReturn DEF Api!JoinReader, Api!At
  <2>2. s \in Api!Subs /\ s[1] \in NodeObjects /\ s[2] \in Channels
    BY <1>t, <2>1, SubsArePairs DEF ApiTypeOK
  <2>3. /\ subscribers' \in [NodeObjects -> SUBSET Channels]
        /\ \A n \in NodeObjects \ {s[1]} : subscribers'[n] = subscribers[n]
    BY <1>t, <2>1, <2>2 DEF ApiTypeOK
  <2>4. ApiTypeOK'
    BY <1>t, <2>1, <2>2, <2>3 DEF ApiTypeOK
  <2>5. CreationsApart'
    <3>1. \A u \in Callers \ {t} : call[u].at # "out" =>
            call[u].sub[1] # s[1] /\ call[u].sub[1] \in NodeObjects
      BY <1>t, <2>1, SubsArePairs DEF ApiInv, CreationsApart, ApiTypeOK
    <3> QED
      BY <2>1, <2>3, <3>1 DEF ApiInv, CreationsApart
  <2>6. TaskOwned'
    BY <2>1 DEF ApiInv, TaskOwned
  <2>7. ListensFirst' /\ LeavesRecorded'
    BY <2>1 DEF ApiInv, ListensFirst, LeavesRecorded
  <2>8. \A z \in Api!Subs : AskedForWriters(z)' => AskedForWriters(z)
    BY <2>1 DEF AskedForWriters
  <2>9. WritersReached'
    BY <2>1, <2>8 DEF ApiInv, WritersReached, WriterComes
  <2> QED
    BY <2>4, <2>5, <2>6, <2>7, <2>9 DEF ApiInv
<1> QED
  BY <1>1, <1>2, <1>3, <1>4 DEF Api!JoinTheTopology

(* A change reaches a subscriber, or has reached all. *)
LEMMA ApiNotified ==
  ASSUME ApiInv, NEW x \in changes,
         Api!NotifyReturn(x) \/ \E s \in Api!Subs : Api!OnChannelChange(x, s)
  PROVE  ApiInv'
<1>t. ApiTypeOK /\ x \in ApiChange
  BY DEF ApiInv, ApiTypeOK
<1>1. CASE Api!NotifyReturn(x)
  <2>1. /\ x.to = {} /\ changes' = changes \ {x}
        /\ UNCHANGED <<subscribers, init, task_owner, enabled, publishers, writers, readers,
                       listening, call>>
    BY <1>1 DEF Api!NotifyReturn, Api!nodeVars
  <2>2. ApiTypeOK'
    BY <1>t, <2>1 DEF ApiTypeOK
  <2>3. CreationsApart' /\ TaskOwned' /\ ListensFirst' /\ LeavesRecorded'
    BY <2>1 DEF ApiInv, CreationsApart, TaskOwned, ListensFirst, LeavesRecorded
  <2>4. WritersReached'
    BY <2>1 DEF ApiInv, WritersReached, WriterComes, AskedForWriters
  <2> QED
    BY <2>2, <2>3, <2>4 DEF ApiInv
<1>2. ASSUME NEW s \in Api!Subs, Api!OnChannelChange(x, s)
      PROVE  ApiInv'
  <2> DEFINE rest == [x EXCEPT !.to = @ \ {s}]
  <2>1. /\ s \in x.to
        /\ changes' = (changes \ {x}) \cup {rest}
        /\ UNCHANGED <<subscribers, init, task_owner, publishers, writers, readers,
                       listening, call>>
    BY <1>2 DEF Api!OnChannelChange, Api!nodeVars
  <2>2. /\ rest \in ApiChange /\ rest.channel = x.channel /\ rest.writer = x.writer
        /\ rest.joins = x.joins /\ rest.to = x.to \ {s}
    BY <1>t DEF ApiChange
  <2> HIDE DEF rest
  <2>3. \/ enabled' = enabled /\ (s[2] # x.channel \/ s \notin listening)
        \/ /\ s[2] = x.channel /\ x.joins = TRUE
           /\ enabled' = [enabled EXCEPT ![s[2]] = @ \cup {x.writer}]
        \/ /\ s[2] = x.channel /\ x.joins = FALSE
           /\ enabled' = [enabled EXCEPT ![s[2]] = @ \ {x.writer}]
    BY <1>t, <1>2 DEF Api!OnChannelChange, ApiChange
  <2>4. enabled' \in [Channels -> SUBSET ApiWriters]
    BY <1>t, <2>3 DEF ApiTypeOK, ApiChange
  <2>5. ApiTypeOK'
    BY <1>t, <2>1, <2>2, <2>4 DEF ApiTypeOK
  <2>6. CreationsApart' /\ TaskOwned' /\ ListensFirst'
    BY <2>1 DEF ApiInv, CreationsApart, TaskOwned, ListensFirst
  <2>7. LeavesRecorded'
    BY <2>1, <2>2 DEF ApiInv, LeavesRecorded
  <2>8. WritersReached'
    <3> SUFFICES ASSUME NEW z \in Api!Subs, AskedForWriters(z), NEW w \in writers[z[2]]
                 PROVE  WriterComes(z, w)'
      BY <2>1 DEF WritersReached, AskedForWriters
    <3>1. WriterComes(z, w) /\ z \in listening /\ z[2] \in Channels
      BY SubsArePairs DEF ApiInv, WritersReached, ListensFirst, AskedForWriters
    <3>2. CASE w \in enabled[z[2]]
      <4>1. ~ (x.joins = FALSE /\ z[2] = x.channel /\ w = x.writer)
        BY DEF ApiInv, LeavesRecorded
      <4>2. w \in enabled'[z[2]]
        BY <1>t, <2>3, <3>1, <3>2, <4>1 DEF ApiTypeOK
      <4> QED
        BY <4>2 DEF WriterComes
    <3>3. ASSUME NEW y \in changes,
                 y.channel = z[2], y.writer = w, y.joins = TRUE, z \in y.to
          PROVE  WriterComes(z, w)'
      <4>1. CASE y # x
        BY <2>1, <3>3, <4>1 DEF WriterComes
      <4>2. CASE y = x /\ z # s
        BY <2>1, <2>2, <3>3, <4>2 DEF WriterComes
      <4>3. CASE y = x /\ z = s
        <5>1. w \in enabled'[z[2]]
          BY <1>t, <2>3, <3>1, <3>3, <4>3 DEF ApiTypeOK
        <5> QED
          BY <5>1 DEF WriterComes
      <4> QED
        BY <4>1, <4>2, <4>3
    <3> QED
      BY <3>1, <3>2, <3>3 DEF WriterComes
  <2> QED
    BY <2>5, <2>6, <2>7, <2>8 DEF ApiInv
<1> QED
  BY <1>1, <1>2

(* A subscriber has its own coroutine and hears of every writer, for any   *)
(* numbers of threads, nodes, channels and writers and any names.          *)
THEOREM SubscribersAreServed == Api!ApiSpec => []SubscribersServed
<1>1. Api!ApiInit => ApiInv
  <2> SUFFICES ASSUME Api!ApiInit
               PROVE  ApiInv
    OBVIOUS
  <2>1. /\ init = {} /\ publishers = {} /\ readers = {} /\ listening = {} /\ changes = {}
        /\ subscribers = [n \in NodeObjects |-> {}]
        /\ writers = [c \in Channels |-> {}] /\ enabled = [c \in Channels |-> {}]
        /\ call = [t \in Callers |-> Api!Out]
        /\ task_owner = [r \in {Api!Name(s) : s \in Api!Subs} |-> Nothing]
    BY DEF Api!ApiInit, Api!Name
  <2>2. Api!Out \in [at : ApiSteps, sub : Api!Subs \cup {Nothing}] /\ Api!Out.at = "out"
    BY DEF Api!Out, ApiSteps
  <2>3. ApiTypeOK
    BY <2>1, <2>2 DEF ApiTypeOK
  <2> QED
    BY <2>1, <2>2, <2>3
       DEF ApiInv, CreationsApart, TaskOwned, ListensFirst, WritersReached, AskedForWriters,
           LeavesRecorded
<1>2. ApiInv /\ [Api!ApiNext]_Api!apiVars => ApiInv'
  <2> SUFFICES ASSUME ApiInv, [Api!ApiNext]_Api!apiVars
               PROVE  ApiInv'
    OBVIOUS
  <2>1. ASSUME NEW n \in NodeObjects, Api!CreateNode(n)
        PROVE  ApiInv'
    BY <2>1, ApiQuiet DEF Api!CreateNode, Api!topoVars
  <2>2. ASSUME NEW n \in NodeObjects, Api!DestroyNode(n)
        PROVE  ApiInv'
    <3> DEFINE S == {n} \X subscribers[n]
    <3>1. subscribers \in [NodeObjects -> SUBSET Channels]
      BY DEF ApiInv, ApiTypeOK
    <3>2. S \in SUBSET Api!Subs /\ \A s \in S : s[2] \in subscribers[s[1]]
      BY <3>1 DEF Api!Subs
    <3>3. /\ Api!ShutdownAll(S)
          /\ subscribers' = [subscribers EXCEPT ![n] = {}]
          /\ UNCHANGED <<enabled, publishers, writers, changes, call>>
      BY <2>2 DEF Api!DestroyNode
    <3>4. /\ subscribers' \in [NodeObjects -> SUBSET Channels]
          /\ \A m \in NodeObjects : subscribers'[m] \subseteq subscribers[m]
      BY <3>1, <3>3
    <3> HIDE DEF S
    <3> QED
      BY <3>2, <3>3, <3>4, ApiShutdown
  <2>3. ASSUME NEW t \in Callers,
               \/ Api!InitTask(t) \/ Api!GetReceiver(t) \/ Api!JoinTheTopology(t)
               \/ \E s \in Api!Subs : Api!CreateSubscriber(t, s[1], s[2])
        PROVE  ApiInv'
    BY <2>3, ApiInitTask, ApiJoin, ApiCreateSubscriber
  <2>4. ASSUME NEW s \in Api!Subs, Api!Shutdown(s[1], s[2])
        PROVE  ApiInv'
    <3> DEFINE S == {<<s[1], s[2]>>}
    <3>1. subscribers \in [NodeObjects -> SUBSET Channels]
      BY DEF ApiInv, ApiTypeOK
    <3>2. /\ Api!ShutdownAll(S) /\ s[2] \in subscribers[s[1]]
          /\ UNCHANGED <<subscribers, enabled, publishers, writers, changes, call>>
      BY <2>4 DEF Api!Shutdown, Api!nodeVars
    <3>3. S \in SUBSET Api!Subs /\ \A z \in S : z[2] \in subscribers[z[1]]
      BY <3>2, SubsArePairs
    <3> HIDE DEF S
    <3> QED
      BY <3>1, <3>2, <3>3, ApiShutdown
  <2>5. ASSUME NEW s \in Api!Subs, Api!CreatePublisher(s[1], s[2])
        PROVE  ApiInv'
    <3>1. /\ s[2] \in Channels /\ s \in ApiWriters
          /\ publishers' = publishers \cup {s} /\ Api!Changed(s[2], s, TRUE)
          /\ UNCHANGED <<subscribers, init, task_owner, enabled, call>>
      BY <2>5, SubsArePairs DEF Api!CreatePublisher, Api!CreateTransmitter, Api!nodeVars, ApiWriters
    <3>2. publishers' \in SUBSET Api!Subs
      BY <3>1 DEF ApiInv, ApiTypeOK
    <3> QED
      BY <3>1, <3>2, ApiChanged
  <2>6. ASSUME NEW p \in publishers, Api!DestroyPublisher(p)
        PROVE  ApiInv'
    <3>0. p \in Api!Subs /\ publishers \in SUBSET Api!Subs
      BY DEF ApiInv, ApiTypeOK
    <3>1. /\ p[2] \in Channels /\ p \in ApiWriters
          /\ publishers' = publishers \ {p} /\ Api!Changed(p[2], p, FALSE)
          /\ UNCHANGED <<subscribers, init, task_owner, enabled, call>>
      BY <2>6, <3>0, SubsArePairs DEF Api!DestroyPublisher, Api!nodeVars, ApiWriters
    <3>2. publishers' \in SUBSET Api!Subs
      BY <3>0, <3>1
    <3> QED
      BY <3>1, <3>2, ApiChanged
  <2>7. ASSUME NEW c \in Channels, NEW w \in Remote, NEW joins \in BOOLEAN,
               Api!RemoteChange(c, w, joins)
        PROVE  ApiInv'
    <3>1. /\ w \in ApiWriters /\ Api!Changed(c, w, joins)
          /\ UNCHANGED <<subscribers, init, task_owner, enabled, publishers, call>>
      BY <2>7 DEF Api!RemoteChange, Api!nodeVars, ApiWriters
    <3>2. publishers' \in SUBSET Api!Subs
      BY <3>1 DEF ApiInv, ApiTypeOK
    <3> QED
      BY <3>1, <3>2, ApiChanged
  <2>8. ASSUME NEW x \in changes,
               Api!NotifyReturn(x) \/ \E s \in Api!Subs : Api!OnChannelChange(x, s)
        PROVE  ApiInv'
    BY <2>8, ApiNotified
  <2>9. CASE Api!TransportShutdown
    BY <2>9, ApiQuiet DEF Api!TransportShutdown, Api!nodeVars, Api!topoVars
  <2>10. CASE UNCHANGED Api!apiVars
    BY <2>10, ApiQuiet DEF Api!apiVars
  <2> QED
    BY <2>1, <2>2, <2>3, <2>4, <2>5, <2>6, <2>7, <2>8, <2>9, <2>10 DEF Api!ApiNext
<1>3. ApiInv => SubscribersServed
  <2> SUFFICES ASSUME ApiInv
               PROVE  Api!OwnsItsTask /\ Api!KnowsWriters
    BY DEF SubscribersServed
  <2>1. Api!OwnsItsTask
    BY DEF ApiInv, TaskOwned, Api!OwnsItsTask, Api!Creating
  <2>2. Api!KnowsWriters
    BY DEF ApiInv, ApiTypeOK, WritersReached, WriterComes, AskedForWriters, Api!KnowsWriters
  <2> QED
    BY <2>1, <2>2
<1> QED
  BY <1>1, <1>2, <1>3, PTL DEF Api!ApiSpec
-----------------------------------------------------------------------------
(***************************************************************************)
(* The views of the other processes: the NodeManager's owner of a name     *)
(* (NodeNames) and the TopologyManager's reports (TopologyManager).        *)
(***************************************************************************)

Heard(q) == {n \in JoinTimes : <<q, n, "join">> \in told}
NodeOrNone == JoinTimes \cup {0}

NameTypeOK ==
  /\ owner \in [NameProcesses -> NodeOrNone]
  /\ work \in [Naming!NameThreads ->
                 [step : {"rest", "search", "compare"}, node : NodeOrNone, existing : NodeOrNone]]
  /\ \A q \in NameProcesses, n \in JoinTimes :
       <<q, n, "join">> \in told => <<HomeOf[n], n, "join">> \in told

(* A thread disposes of a join its process has been told of, and in a      *)
(* process without overlaps it does so alone.                              *)
JoinsAlone ==
  /\ \A t \in Naming!NameThreads : work[t].step # "rest" => work[t].node \in Heard(t[1])
  /\ \A t, u \in Naming!NameThreads :
       work[t].step # "rest" /\ work[u].step # "rest" /\ t[1] = u[1] /\ t[1] \notin overlapped => t = u

(* Until a node leaves, the owner of the name is one that was heard of, ... *)
HeardOwns ==
  left = {} =>
    \A q \in NameProcesses :
      (Heard(q) # {} => owner[q] \in Heard(q)) /\ (Heard(q) = {} => owner[q] = 0)

(* ... and the earliest of those not still being compared with it.         *)
EarliestOwns ==
  left = {} =>
    \A q \in NameProcesses \ overlapped :
      /\ \A n \in Heard(q) :
           owner[q] <= n \/ \E t \in Naming!BusyJoins(q) : work[t].node = n
      /\ \A t \in Naming!BusyJoins(q) : work[t].step = "compare" => work[t].existing = owner[q]

NameInv == NameTypeOK /\ JoinsAlone /\ HeardOwns /\ EarliestOwns

LEMMA NameThreadPairs ==
  /\ \A q \in NameProcesses, n \in NodeOrNone :
       <<q, n>> \in Naming!NameThreads /\ <<q, n>>[1] = q
  /\ \A t \in Naming!NameThreads : t[1] \in NameProcesses
  BY DEF Naming!NameThreads, NodeOrNone, Naming!None

(* A node joins: it takes the name if nobody has it. *)
LEMMA DisposeJoinInv ==
  ASSUME NameInv, NEW q \in NameProcesses, NEW n \in JoinTimes, Naming!DisposeJoin(q, n)
  PROVE  NameInv'
<1> DEFINE t == IF HomeOf[n] = q THEN <<q, n>> ELSE <<q, 0>>
           new == [step |-> "search", node |-> n, existing |-> 0]
<1>1. t \in Naming!NameThreads /\ t[1] = q
  BY NameThreadPairs DEF NodeOrNone
<1>2. /\ work[t].step = "rest"
      /\ HomeOf[n] # q => <<HomeOf[n], n, "join">> \in told
      /\ told' = told \cup {<<q, n, "join">>}
      /\ \/ owner[q] = 0 /\ owner' = [owner EXCEPT ![q] = n] /\ work' = work
         \/ owner[q] # 0 /\ owner' = owner /\ work' = [work EXCEPT ![t] = new]
      /\ overlapped' = IF Naming!BusyJoins(q) = {} THEN overlapped ELSE overlapped \cup {q}
      /\ left' = left
  BY DEF Naming!DisposeJoin, Naming!None
<1>3. new \in [step : {"rest", "search", "compare"}, node : NodeOrNone, existing : NodeOrNone]
  BY DEF NodeOrNone
<1>n. new.step = "search" /\ new.node = n
  OBVIOUS
<1> HIDE DEF t, new
<1>4. /\ owner' \in [NameProcesses -> NodeOrNone]
      /\ work' \in [Naming!NameThreads ->
                     [step : {"rest", "search", "compare"}, node : NodeOrNone, existing : NodeOrNone]]
  BY <1>1, <1>2, <1>3 DEF NameInv, NameTypeOK, NodeOrNone
<1>5. \A p \in NameProcesses, m \in JoinTimes :
        <<p, m, "join">> \in told' => <<p, m, "join">> \in told \/ (p = q /\ m = n)
  BY <1>2
<1>6. NameTypeOK'
  <2>1. \A p \in NameProcesses, m \in JoinTimes :
          <<p, m, "join">> \in told' => <<HomeOf[m], m, "join">> \in told'
    BY <1>2, <1>5 DEF NameInv, NameTypeOK
  <2> QED
    BY <1>4, <2>1 DEF NameTypeOK
<1>7. /\ n \in Heard(q)' /\ Heard(q)' = Heard(q) \cup {n}
      /\ \A p \in NameProcesses \ {q} : Heard(p)' = Heard(p)
  BY <1>2, <1>5 DEF Heard
<1>8. \A u \in Naming!NameThreads :
        \/ u # t /\ work'[u] = work[u]
        \/ u = t /\ work'[u] = work[u]
        \/ u = t /\ work'[u].step = "search" /\ work'[u].node = n /\ owner[q] # 0
  BY <1>1, <1>2, <1>n DEF NameInv, NameTypeOK
<1>9. JoinsAlone'
  <2>1. \A u \in Naming!NameThreads : work'[u].step # "rest" => work'[u].node \in Heard(u[1])'
    BY <1>1, <1>7, <1>8, NameThreadPairs DEF NameInv, JoinsAlone
  <2>2. ASSUME NEW u \in Naming!NameThreads, NEW v \in Naming!NameThreads,
               work'[u].step # "rest", work'[v].step # "rest", u[1] = v[1], u[1] \notin overlapped'
        PROVE  u = v
    <3>1. u[1] \notin overlapped
      BY <1>2, <2>2
    <3>2. CASE u[1] = q
      <4>1. Naming!BusyJoins(q) = {}
        BY <1>2, <2>2, <3>2
      <4>2. work[u].step = "rest" /\ work[v].step = "rest"
        BY <2>2, <3>2, <4>1 DEF Naming!BusyJoins
      <4> QED
        BY <1>8, <2>2, <4>2
    <3>3. CASE u[1] # q
      <4>1. work'[u] = work[u] /\ work'[v] = work[v]
        BY <1>1, <1>8, <2>2, <3>3
      <4> QED
        BY <2>2, <3>1, <4>1 DEF NameInv, JoinsAlone
    <3> QED
      BY <3>2, <3>3
  <2> QED
    BY <2>1, <2>2 DEF JoinsAlone
<1>10. EarliestOwns'
  <2> SUFFICES ASSUME left = {}, NEW p \in NameProcesses, p \notin overlapped'
               PROVE  /\ Heard(p)' # {} => owner'[p] \in Heard(p)'
                      /\ Heard(p)' = {} => owner'[p] = 0
                      /\ \A m \in Heard(p)' :
                           owner'[p] <= m \/ \E u \in Naming!BusyJoins(p)' : work'[u].node = m
                      /\ \A u \in Naming!BusyJoins(p)' :
                           work'[u].step = "compare" => work'[u].existing = owner'[p]
    BY <1>2 DEF EarliestOwns
  <2>1. p \notin overlapped
    BY <1>2
  <2>2. /\ Heard(p) # {} => owner[p] \in Heard(p)
        /\ Heard(p) = {} => owner[p] = 0
        /\ \A m \in Heard(p) :
             owner[p] <= m \/ \E u \in Naming!BusyJoins(p) : work[u].node = m
        /\ \A u \in Naming!BusyJoins(p) : work[u].step = "compare" => work[u].existing = owner[p]
    BY <2>1 DEF NameInv, HeardOwns, EarliestOwns
  <2>3. CASE p # q
    <3>1. Heard(p)' = Heard(p) /\ owner'[p] = owner[p]
      BY <1>2, <1>7, <2>3 DEF NameInv, NameTypeOK
    <3>2. \A u \in Naming!NameThreads : u[1] = p => work'[u] = work[u]
      BY <1>1, <1>8, <2>3
    <3>3. Naming!BusyJoins(p)' = Naming!BusyJoins(p)
      BY <3>2 DEF Naming!BusyJoins
    <3>4. \A u \in Naming!BusyJoins(p) : work'[u] = work[u]
      BY <3>2 DEF Naming!BusyJoins
    <3> QED
      BY <2>2, <3>1, <3>3, <3>4
  <2>4. CASE p = q
    <3>1. Naming!BusyJoins(q) = {} /\ \A u \in Naming!NameThreads : u[1] = q => work[u].step = "rest"
      BY <1>2, <2>4 DEF Naming!BusyJoins
    <3>2. CASE owner[q] = 0
      <4>1. Heard(q) = {}
        <5>1. 0 \notin JoinTimes
          BY NameConstants
        <5> QED
          BY <2>2, <2>4, <3>2, <5>1 DEF Heard
      <4>2. Heard(q)' = {n} /\ owner'[q] = n /\ work' = work
        BY <1>2, <1>7, <3>2, <4>1 DEF NameInv, NameTypeOK
      <4>3. Naming!BusyJoins(q)' = {}
        BY <3>1, <4>2 DEF Naming!BusyJoins
      <4>4. n <= n
        BY NameConstants
      <4> QED
        BY <2>4, <4>2, <4>3, <4>4
    <3>3. CASE owner[q] # 0
      <4>1. /\ owner' = owner /\ t \in Naming!BusyJoins(q)' /\ work'[t].node = n
            /\ \A u \in Naming!BusyJoins(q)' : u = t /\ work'[u].step = "search"
        BY <1>1, <1>2, <1>3, <1>8, <1>n, <3>1, <3>3 DEF Naming!BusyJoins, NameInv, NameTypeOK
      <4>2. owner[q] \in Heard(q)
        BY <2>2, <2>4, <3>3
      <4>3. \A m \in Heard(q) : owner[q] <= m
        BY <2>2, <2>4, <3>1
      <4> QED
        BY <1>7, <2>4, <4>1, <4>2, <4>3
    <3> QED
      BY <3>2, <3>3
  <2> QED
    BY <2>3, <2>4
<1>11. HeardOwns'
  <2> SUFFICES ASSUME left = {}, NEW p \in NameProcesses
               PROVE  (Heard(p)' # {} => owner'[p] \in Heard(p)') /\ (Heard(p)' = {} => owner'[p] = 0)
    BY <1>2 DEF HeardOwns
  <2>1. (Heard(p) # {} => owner[p] \in Heard(p)) /\ (Heard(p) = {} => owner[p] = 0)
    BY DEF NameInv, HeardOwns
  <2>2. CASE p # q
    BY <1>2, <1>7, <2>1, <2>2 DEF NameInv, NameTypeOK
  <2>3. CASE p = q
    <3>1. owner'[q] = n \/ (owner[q] # 0 /\ owner'[q] = owner[q])
      BY <1>2 DEF NameInv, NameTypeOK
    <3> QED
      BY <1>7, <2>1, <2>3, <3>1
  <2> QED
    BY <2>2, <2>3
<1> QED
  BY <1>6, <1>9, <1>10, <1>11 DEF NameInv

(* The two checks of a join that found the name taken. *)
LEMMA CheckExistingInv ==
  ASSUME NameInv, NEW t \in Naming!NameThreads, Naming!SearchExisting(t) \/ Naming!KeepEarlier(t)
  PROVE  NameInv'
<1> DEFINE q == t[1]
           W == [step : {"rest", "search", "compare"}, node : NodeOrNone, existing : NodeOrNone]
<1>1. /\ q \in NameProcesses /\ work[t].step # "rest" /\ work[t] \in W
      /\ owner \in [NameProcesses -> NodeOrNone] /\ work \in [Naming!NameThreads -> W]
      /\ UNCHANGED <<told, left, overlapped>>
  BY NameThreadPairs DEF NameInv, NameTypeOK, Naming!SearchExisting, Naming!KeepEarlier
<1>2. Naming!Rest \in W /\ Naming!Rest.step = "rest"
  BY DEF Naming!Rest, NodeOrNone, Naming!None
<1>3. work[t].node \in Heard(q) /\ work[t].node \in JoinTimes
  BY <1>1 DEF NameInv, JoinsAlone, Heard
<1>4. \/ /\ owner[q] = 0 /\ owner' = [owner EXCEPT ![q] = work[t].node]
         /\ work' = [work EXCEPT ![t] = Naming!Rest]
      \/ /\ owner[q] # 0 /\ owner' = owner
         /\ work' = [work EXCEPT ![t].step = "compare", ![t].existing = owner[q]]
      \/ /\ work[t].step = "compare" /\ work[t].node < work[t].existing
         /\ owner' = [owner EXCEPT ![q] = work[t].node]
         /\ work' = [work EXCEPT ![t] = Naming!Rest]
      \/ /\ work[t].step = "compare" /\ ~ (work[t].node < work[t].existing)
         /\ owner' = owner
         /\ work' = [work EXCEPT ![t] = Naming!Rest]
  BY DEF Naming!SearchExisting, Naming!KeepEarlier, Naming!None
<1> HIDE DEF W
<1>5. /\ owner' \in [NameProcesses -> NodeOrNone]
      /\ \A p \in NameProcesses \ {q} : owner'[p] = owner[p]
  BY <1>1, <1>3, <1>4 DEF NodeOrNone
<1>6. /\ work' \in [Naming!NameThreads -> W]
      /\ \A u \in Naming!NameThreads \ {t} : work'[u] = work[u]
      /\ \/ work'[t].step = "rest"
         \/ /\ work'[t].step = "compare" /\ work'[t].node = work[t].node
            /\ work'[t].existing = owner[q] /\ owner' = owner
  <2>1. CASE work' = [work EXCEPT ![t] = Naming!Rest]
    BY <1>1, <1>2, <2>1
  <2>2. CASE /\ owner' = owner
             /\ work' = [work EXCEPT ![t].step = "compare", ![t].existing = owner[q]]
    BY <1>1, <2>2 DEF W, NodeOrNone
  <2> QED
    BY <1>4, <2>1, <2>2
<1>7. NameTypeOK'
  BY <1>1, <1>5, <1>6 DEF NameInv, NameTypeOK, W
<1>8. \A p \in NameProcesses : Heard(p)' = Heard(p)
  BY <1>1 DEF Heard
<1>9. JoinsAlone'
  <2>1. \A u \in Naming!NameThreads : work'[u].step # "rest" =>
          work[u].step # "rest" /\ work'[u].node = work[u].node
    BY <1>1, <1>6
  <2> QED
    BY <1>1, <1>8, <2>1, NameThreadPairs DEF NameInv, JoinsAlone
<1>10. EarliestOwns'
  <2> SUFFICES ASSUME left = {}, NEW p \in NameProcesses, p \notin overlapped
               PROVE  /\ Heard(p)' # {} => owner'[p] \in Heard(p)'
                      /\ Heard(p)' = {} => owner'[p] = 0
                      /\ \A m \in Heard(p)' :
                           owner'[p] <= m \/ \E u \in Naming!BusyJoins(p)' : work'[u].node = m
                      /\ \A u \in Naming!BusyJoins(p)' :
                           work'[u].step = "compare" => work'[u].existing = owner'[p]
    BY <1>1 DEF EarliestOwns
  <2>2. /\ Heard(p) # {} => owner[p] \in Heard(p)
        /\ Heard(p) = {} => owner[p] = 0
        /\ \A m \in Heard(p) :
             owner[p] <= m \/ \E u \in Naming!BusyJoins(p) : work[u].node = m
        /\ \A u \in Naming!BusyJoins(p) : work[u].step = "compare" => work[u].existing = owner[p]
    BY DEF NameInv, HeardOwns, EarliestOwns
  <2>3. CASE p # q
    <3>2. \A u \in Naming!NameThreads : u[1] = p => work'[u] = work[u]
      BY <1>6, <2>3
    <3>3. Naming!BusyJoins(p)' = Naming!BusyJoins(p)
      BY <3>2 DEF Naming!BusyJoins
    <3>4. \A u \in Naming!BusyJoins(p) : work'[u] = work[u]
      BY <3>2 DEF Naming!BusyJoins
    <3> QED
      BY <1>5, <1>8, <2>2, <2>3, <3>3, <3>4
  <2>4. CASE p = q
    <3>1. \A u \in Naming!BusyJoins(q) : u = t
      BY <1>1, <2>4 DEF Naming!BusyJoins, NameInv, JoinsAlone
    <3>2. owner[q] \in Heard(q) /\ owner[q] # 0
      BY <1>3, <2>2, <2>4, NameConstants DEF Heard
    <3>3. \A m \in Heard(q) : m # work[t].node => owner[q] <= m
      BY <2>2, <2>4, <3>1
    <3>4. Heard(q)' = Heard(q) /\ Heard(q) \subseteq Nat
      BY <1>1, <1>8, NameConstants DEF Heard
    <3>5. work[t].step = "compare" => work[t].existing = owner[q]
      BY <1>1, <2>2, <2>4 DEF Naming!BusyJoins
    <3>6. CASE work'[t].step = "rest"
      <4>1. Naming!BusyJoins(q)' = {}
        BY <1>6, <3>1, <3>6 DEF Naming!BusyJoins
      <4>2. \/ owner'[q] = work[t].node /\ work[t].node < owner[q]
            \/ owner'[q] = owner[q] /\ owner[q] <= work[t].node
        <5>1. CASE /\ work[t].step = "compare" /\ work[t].node < work[t].existing
                   /\ owner' = [owner EXCEPT ![q] = work[t].node]
          BY <1>1, <3>5, <5>1
        <5>2. CASE /\ work[t].step = "compare" /\ ~ (work[t].node < work[t].existing)
                   /\ owner' = owner
          BY <1>3, <3>2, <3>4, <3>5, <5>2
        <5>3. CASE /\ owner' = owner
                   /\ work' = [work EXCEPT ![t].step = "compare", ![t].existing = owner[q]]
          BY <1>1, <3>6, <5>3 DEF W
        <5> QED
          BY <1>4, <3>2, <5>1, <5>2, <5>3
      <4>3. owner'[q] \in Heard(q) /\ \A m \in Heard(q) : owner'[q] <= m
        BY <1>3, <3>2, <3>3, <3>4, <4>2
      <4> QED
        BY <2>4, <3>4, <4>1, <4>3
    <3>7. CASE /\ work'[t].step = "compare" /\ work'[t].node = work[t].node
               /\ work'[t].existing = owner[q] /\ owner' = owner
      <4>1. t \in Naming!BusyJoins(q)' /\ \A u \in Naming!BusyJoins(q)' : u = t
        BY <1>1, <1>6, <3>1, <3>7 DEF Naming!BusyJoins
      <4> QED
        BY <2>4, <3>2, <3>3, <3>4, <3>7, <4>1
    <3> QED
      BY <1>6, <3>6, <3>7
  <2> QED
    BY <2>3, <2>4
<1>11. HeardOwns'
  <2>1. owner'[q] = owner[q] \/ owner'[q] = work[t].node
    BY <1>1, <1>4
  <2> QED
    BY <1>1, <1>3, <1>5, <1>8, <2>1 DEF NameInv, HeardOwns
<1> QED
  BY <1>7, <1>9, <1>10, <1>11 DEF NameInv

(* A node leaves: from then on nothing is claimed of the owner. *)
LEMMA DisposeLeaveInv ==
  ASSUME NameInv, NEW q \in NameProcesses, NEW n \in JoinTimes, Naming!DisposeLeave(q, n)
  PROVE  NameInv'
<1>1. /\ told' = told \cup {<<q, n, "leave">>} /\ left' = left \cup {n}
      /\ owner' = [owner EXCEPT ![q] = 0]
      /\ UNCHANGED <<work, overlapped>>
  BY DEF Naming!DisposeLeave, Naming!None
<1>2. \A p, m : <<p, m, "join">> \in told' <=> <<p, m, "join">> \in told
  BY <1>1
<1>3. NameTypeOK'
  BY <1>1, <1>2 DEF NameInv, NameTypeOK, NodeOrNone
<1>4. JoinsAlone'
  BY <1>1, <1>2 DEF NameInv, JoinsAlone, Heard
<1>5. EarliestOwns'
  BY <1>1 DEF EarliestOwns
<1>6. HeardOwns'
  BY <1>1 DEF HeardOwns
<1> QED
  BY <1>3, <1>4, <1>5, <1>6 DEF NameInv

LEMMA NameInvariance == Naming!NameSpec => [](NameInv /\ Naming!EarliestKept)
<1>1. Naming!NameInit => NameInv
  <2> SUFFICES ASSUME Naming!NameInit
               PROVE  NameInv
    OBVIOUS
  <2>1. /\ owner = [q \in NameProcesses |-> 0] /\ told = {}
        /\ work = [t \in Naming!NameThreads |-> Naming!Rest]
    BY DEF Naming!NameInit, Naming!None
  <2>2. /\ Naming!Rest \in [step : {"rest", "search", "compare"}, node : NodeOrNone,
                            existing : NodeOrNone]
        /\ Naming!Rest.step = "rest"
    BY DEF Naming!Rest, NodeOrNone, Naming!None
  <2>3. NameTypeOK
    BY <2>1, <2>2 DEF NameTypeOK, NodeOrNone
  <2>4. JoinsAlone
    BY <2>1, <2>2 DEF JoinsAlone
  <2>5. EarliestOwns
    BY <2>1, <2>2 DEF EarliestOwns, Heard, Naming!BusyJoins
  <2>6. HeardOwns
    BY <2>1 DEF HeardOwns, Heard
  <2> QED
    BY <2>3, <2>4, <2>5, <2>6 DEF NameInv
<1>2. NameInv /\ [Naming!NameNext]_Naming!nameVars => NameInv'
  <2> SUFFICES ASSUME NameInv, [Naming!NameNext]_Naming!nameVars
               PROVE  NameInv'
    OBVIOUS
  <2>1. CASE Naming!NameNext
    BY <2>1, DisposeJoinInv, CheckExistingInv, DisposeLeaveInv DEF Naming!NameNext
  <2>2. CASE UNCHANGED Naming!nameVars
    BY <2>2
       DEF Naming!nameVars, NameInv, NameTypeOK, JoinsAlone, HeardOwns, EarliestOwns, Heard,
           Naming!BusyJoins
  <2> QED
    BY <2>1, <2>2
<1>3. NameInv => Naming!EarliestKept
  <2> SUFFICES ASSUME NameInv, NEW q \in NameProcesses, left = {}, Naming!Joined # {},
                      \A n \in Naming!Joined : <<q, n, "join">> \in told
               PROVE  /\ owner[q] \in Naming!Joined
                      /\ Naming!BusyJoins(q) = {} /\ q \notin overlapped =>
                           \A n \in Naming!Joined : owner[q] <= n
    BY DEF Naming!EarliestKept
  <2>1. Naming!Joined = Heard(q)
    BY DEF Naming!Joined, Heard, NameInv, NameTypeOK
  <2> QED
    BY <2>1 DEF NameInv, HeardOwns, EarliestOwns
<1> QED
  BY <1>1, <1>2, <1>3, PTL DEF Naming!NameSpec

(* A node is in the warehouse under its own id. *)
NodesByKey == \A k \in DOMAIN nodes_ : nodes_[k].node_id = k

ReportTypeOK ==
  /\ report = [at |-> report.at, peer |-> report.peer, opt |-> report.opt, attr |-> report.attr,
               found |-> report.found]
  /\ report.at \in {"none", "init", "nodes", "remove", "channels", "readers", "dispose", "signal"}
  /\ report.peer \in Peers \cup {"none"} /\ report.opt \in {"none", "join", "leave"}

(* The steps of OnTopoModuleLeave of both managers. *)
Removing == {"nodes", "remove", "channels", "readers", "dispose"}

(* A leave that is reported was signalled as a join before, unless the     *)
(* manager is shut down before the report gets to it; and a participant    *)
(* whose name is known was signalled, or is being reported.                *)
LeavesPaired ==
  /\ report.at # "none" => report.opt \in {"join", "leave"}
  /\ report.at \in Removing => report.opt = "leave"
  /\ report.at # "none" /\ report.opt = "leave" => report.peer \notin participant_names_
  /\ report.at \in Removing \cup {"signal"} /\ report.opt = "leave" => report.peer \in open
  /\ init_ = TRUE /\ report.at = "init" /\ report.opt = "leave" => report.peer \in open
  /\ init_ = TRUE => \A p \in participant_names_ :
       p \in open \/ (report.at \in {"init", "signal"} /\ report.opt = "join" /\ report.peer = p)

(* What was found is of the process that vanished, and so is the node that *)
(* has the id of one found, unless it joined since.                        *)
FoundOwn ==
  /\ report.at \in {"remove", "readers", "dispose"} =>
       \A r \in report.found : r.process_id = report.peer
  /\ report.at = "readers" => report.attr.process_id = report.peer
  /\ report.at = "remove" =>
       \A r \in report.found : r.node_id \in DOMAIN nodes_ =>
         nodes_[r.node_id].process_id = report.peer \/ nodes_[r.node_id] \in swapped

ManagerInv ==
  /\ NodesByKey /\ ReportTypeOK /\ LeavesPaired /\ FoundOwn
  /\ init_ \in BOOLEAN /\ unpaired = FALSE

LEMMA RemoveKeyIs ==
  ASSUME NEW roles, NEW key
  PROVE  Manager!RemoveKey(roles, key) = [k \in DOMAIN roles \ {key} |-> roles[k]]
  BY DEF Manager!RemoveKey, Manager!Restrict

(* What each step of OnTopoModuleLeave finds and removes. *)
LEMMA SearchStep ==
  ASSUME Manager!NodesTopoModuleLeave, ReportTypeOK
  PROVE  /\ report.at = "nodes" /\ report'.peer = report.peer /\ report'.opt = report.opt
         /\ report'.at \in {"remove", "channels"} /\ ReportTypeOK'
         /\ report'.at = "remove" =>
              \A r \in report'.found :
                r.process_id = report.peer /\ \E k \in DOMAIN nodes_ : nodes_[k] = r
         /\ UNCHANGED <<init_, participant_names_, open, unpaired, nodes_, channel_writers_,
                        channel_readers_>>
<1>1. UNCHANGED <<init_, participant_names_, open, unpaired, nodes_, channel_writers_,
                  channel_readers_>>
  BY DEF Manager!NodesTopoModuleLeave, Manager!views, Manager!signals
<1>2. CASE report' = [report EXCEPT !.at = "channels"]
  BY <1>1, <1>2 DEF Manager!NodesTopoModuleLeave, ReportTypeOK
<1>3. ASSUME NEW attr \in Manager!Stack(report.peer),
             report' = [report EXCEPT
                          !.found = Manager!Matching(nodes_, attr),
                          !.at = IF Manager!Matching(nodes_, attr) = {} THEN "channels" ELSE "remove"]
      PROVE  /\ report'.peer = report.peer /\ report'.opt = report.opt
             /\ report'.at \in {"remove", "channels"} /\ ReportTypeOK'
             /\ \A r \in report'.found :
                  r.process_id = report.peer /\ \E k \in DOMAIN nodes_ : nodes_[k] = r
  <2>1. attr.process_id = report.peer
    BY DEF Manager!Stack
  <2>2. \A r \in Manager!Matching(nodes_, attr) :
          r.process_id = report.peer /\ \E k \in DOMAIN nodes_ : nodes_[k] = r
    BY <2>1 DEF Manager!Matching, Manager!Match
  <2>3. report'.found = Manager!Matching(nodes_, attr)
    BY <1>3 DEF ReportTypeOK
  <2> QED
    BY <1>3, <2>2, <2>3 DEF ReportTypeOK
<1>4. \/ report' = [report EXCEPT !.at = "channels"]
      \/ \E attr \in Manager!Stack(report.peer) :
           report' = [report EXCEPT
                        !.found = Manager!Matching(nodes_, attr),
                        !.at = IF Manager!Matching(nodes_, attr) = {} THEN "channels" ELSE "remove"]
  BY DEF Manager!NodesTopoModuleLeave
<1>5. report.at = "nodes"
  BY DEF Manager!NodesTopoModuleLeave
<1> QED
  BY <1>1, <1>2, <1>3, <1>4, <1>5

LEMMA RemoveStep ==
  ASSUME NEW role, Manager!RemoveNode(role), ReportTypeOK
  PROVE  /\ report.at = "remove" /\ role \in report.found
         /\ report'.peer = report.peer /\ report'.opt = report.opt
         /\ report'.at \in {"remove", "channels"} /\ ReportTypeOK'
         /\ report'.found = report.found \ {role}
         /\ report'.at = "remove" => swapped' = swapped
         /\ nodes_' = [k \in DOMAIN nodes_ \ {role.node_id} |-> nodes_[k]]
         /\ UNCHANGED <<init_, participant_names_, open, unpaired, channel_writers_,
                        channel_readers_>>
<1>1. nodes_' = [k \in DOMAIN nodes_ \ {role.node_id} |-> nodes_[k]]
  BY RemoveKeyIs DEF Manager!RemoveNode
<1>2. /\ report.at = "remove" /\ role \in report.found
      /\ report' = [report EXCEPT !.found = report.found \ {role},
                                  !.at = IF report.found = {role} THEN "channels" ELSE "remove"]
      /\ swapped' = IF report.found = {role} THEN {} ELSE swapped
      /\ UNCHANGED <<init_, participant_names_, open, channel_writers_, channel_readers_>>
  BY DEF Manager!RemoveNode
<1>3. unpaired' = unpaired
  BY DEF Manager!RemoveNode
<1> QED
  BY <1>1, <1>2, <1>3 DEF ReportTypeOK

LEMMA ChannelsStep ==
  ASSUME ReportTypeOK, FoundOwn,
         \/ Manager!ChannelsTopoModuleLeave \/ Manager!SearchReaders
         \/ \E r \in PeerRoles : Manager!DisposeLeave(r)
  PROVE  /\ report.at \in {"channels", "readers", "dispose"}
         /\ report'.peer = report.peer /\ report'.opt = report.opt
         /\ report'.at \in {"readers", "dispose", "signal"} /\ ReportTypeOK' /\ FoundOwn'
         /\ UNCHANGED <<init_, participant_names_, open, unpaired, nodes_>>
         /\ \A e \in channel_writers_ \cup channel_readers_ :
              e[2].process_id # report.peer => e \in channel_writers_' \cup channel_readers_'
<1>1. CASE Manager!ChannelsTopoModuleLeave
  <2>1. /\ report.at = "channels"
        /\ UNCHANGED <<init_, participant_names_, open, unpaired, nodes_, channel_writers_,
                       channel_readers_>>
    BY <1>1 DEF Manager!ChannelsTopoModuleLeave, Manager!views, Manager!signals
  <2>2. CASE report' = [report EXCEPT !.at = "signal"]
    BY <2>1, <2>2 DEF ReportTypeOK, FoundOwn
  <2>3. ASSUME NEW attr \in Manager!Stack(report.peer),
               report' = [report EXCEPT !.at = "readers", !.attr = attr,
                                        !.found = Manager!MatchingMulti(channel_writers_, attr)]
        PROVE  /\ report'.peer = report.peer /\ report'.opt = report.opt
               /\ report'.at = "readers" /\ ReportTypeOK' /\ FoundOwn'
    <3>1. attr.process_id = report.peer
      BY DEF Manager!Stack
    <3>2. \A r \in Manager!MatchingMulti(channel_writers_, attr) : r.process_id = report.peer
      BY <3>1 DEF Manager!MatchingMulti, Manager!Match
    <3> QED
      BY <2>3, <3>1, <3>2 DEF ReportTypeOK, FoundOwn
  <2> QED
    BY <1>1, <2>1, <2>2, <2>3 DEF Manager!ChannelsTopoModuleLeave
<1>2. CASE Manager!SearchReaders
  <2> DEFINE roles == report.found \cup Manager!MatchingMulti(channel_readers_, report.attr)
  <2>1. /\ report.at = "readers"
        /\ report' = [report EXCEPT !.attr = Manager!NoAttr, !.found = roles,
                                    !.at = IF roles = {} THEN "signal" ELSE "dispose"]
        /\ UNCHANGED <<init_, participant_names_, open, unpaired, nodes_, channel_writers_,
                       channel_readers_>>
    BY <1>2 DEF Manager!SearchReaders, Manager!views, Manager!signals
  <2>2. \A r \in roles : r.process_id = report.peer
    BY <2>1 DEF FoundOwn, Manager!MatchingMulti, Manager!Match
  <2> HIDE DEF roles
  <2> QED
    BY <2>1, <2>2 DEF ReportTypeOK, FoundOwn
<1>3. ASSUME NEW role \in PeerRoles, Manager!DisposeLeave(role)
      PROVE  /\ report.at = "dispose"
             /\ report'.peer = report.peer /\ report'.opt = report.opt
             /\ report'.at \in {"dispose", "signal"} /\ ReportTypeOK' /\ FoundOwn'
             /\ UNCHANGED <<init_, participant_names_, open, unpaired, nodes_>>
             /\ \A e \in channel_writers_ \cup channel_readers_ :
                  e[2].process_id # report.peer => e \in channel_writers_' \cup channel_readers_'
  <2>1. /\ report.at = "dispose" /\ role \in report.found
        /\ report' = [report EXCEPT !.found = report.found \ {role},
                                    !.at = IF report.found = {role} THEN "signal" ELSE "dispose"]
        /\ UNCHANGED <<init_, participant_names_, open, nodes_>>
        /\ \/ /\ channel_writers_' = Manager!RemoveRole(channel_writers_, role.channel_id, role)
              /\ channel_readers_' = channel_readers_
           \/ /\ channel_readers_' = Manager!RemoveRole(channel_readers_, role.channel_id, role)
              /\ channel_writers_' = channel_writers_
    BY <1>3 DEF Manager!DisposeLeave, Manager!signals
  <2>2. unpaired' = unpaired
    BY <1>3 DEF Manager!DisposeLeave, Manager!signals
  <2>3. role.process_id = report.peer
    BY <2>1 DEF FoundOwn
  <2>4. \A e \in channel_writers_ \cup channel_readers_ :
          e[2].process_id # report.peer => e \in channel_writers_' \cup channel_readers_'
    BY <2>1, <2>3 DEF Manager!RemoveRole, Manager!Match
  <2> QED
    BY <2>1, <2>2, <2>4 DEF ReportTypeOK, FoundOwn
<1> QED
  BY <1>1, <1>2, <1>3 DEF Manager!ChannelsTopoModuleLeave, Manager!SearchReaders, Manager!views

(* Reports, one at a time, and the steps of Shutdown beside them. *)
LEMMA ReportStep ==
  ASSUME ReportTypeOK, LeavesPaired, FoundOwn, init_ \in BOOLEAN, unpaired = FALSE,
         [Manager!ManagerNext]_Manager!managerVars
  PROVE  ReportTypeOK' /\ LeavesPaired' /\ init_' \in BOOLEAN /\ unpaired' = FALSE
<1>1. ASSUME NEW p \in Peers, NEW status \in {"DISCOVERED", "CHANGED_QOS", "REMOVED", "DROPPED"},
             Manager!OnParticipantDiscovery(p, status)
      PROVE  ReportTypeOK' /\ LeavesPaired' /\ init_' \in BOOLEAN /\ unpaired' = FALSE
  <2>1. report.at = "none" /\ UNCHANGED <<init_, open>>
    BY <1>1 DEF Manager!OnParticipantDiscovery, Manager!signals
  <2>2. init_' \in BOOLEAN /\ unpaired' = FALSE
    BY <1>1, Zenon DEF Manager!OnParticipantDiscovery, Manager!signals
  <2>3. \/ UNCHANGED <<participant_names_, report>>
        \/ /\ participant_names_' = participant_names_ \cup {p}
           /\ report' = [at |-> "init", peer |-> p, opt |-> "join", attr |-> Manager!NoAttr,
                         found |-> {}]
        \/ /\ p \in participant_names_ /\ participant_names_' = participant_names_ \ {p}
           /\ report' = [at |-> "init", peer |-> p, opt |-> "leave", attr |-> Manager!NoAttr,
                         found |-> {}]
        \/ participant_names_' \subseteq participant_names_ /\ report' = Manager!NoReport
    BY <1>1 DEF Manager!OnParticipantDiscovery, Manager!NamesAfter, Manager!Report
  <2>4. ReportTypeOK'
    BY <2>3 DEF ReportTypeOK, Manager!NoReport, Manager!Report
  <2>5. LeavesPaired'
    BY <2>1, <2>3 DEF LeavesPaired, Removing, Manager!NoReport, Manager!Report
  <2> QED
    BY <2>2, <2>4, <2>5
<1>2. CASE Manager!OnParticipantChange
  <2>1. report.at = "init" /\ UNCHANGED <<init_, participant_names_, open>>
    BY <1>2 DEF Manager!OnParticipantChange, Manager!signals
  <2>2. init_' \in BOOLEAN /\ unpaired' = FALSE
    BY <1>2, Zenon DEF Manager!OnParticipantChange, Manager!signals
  <2>3. \/ init_ = FALSE /\ report' = Manager!NoReport
        \/ init_ = TRUE /\ report.opt = "leave" /\ report' = [report EXCEPT !.at = "nodes"]
        \/ init_ = TRUE /\ report.opt # "leave" /\ report' = [report EXCEPT !.at = "signal"]
    BY <1>2 DEF Manager!OnParticipantChange
  <2>4. ReportTypeOK'
    BY <2>3 DEF ReportTypeOK, Manager!NoReport, Manager!Report
  <2>5. LeavesPaired'
    BY <2>1, <2>3 DEF LeavesPaired, Removing, Manager!NoReport, Manager!Report, ReportTypeOK
  <2> QED
    BY <2>2, <2>4, <2>5
<1>3. CASE \/ Manager!NodesTopoModuleLeave \/ Manager!ChannelsTopoModuleLeave
           \/ Manager!SearchReaders
           \/ \E r \in PeerRoles : Manager!RemoveNode(r) \/ Manager!DisposeLeave(r)
  <2>1. /\ report.at \in Removing /\ report'.at \in Removing \cup {"signal"}
        /\ report'.at # "nodes" /\ ReportTypeOK'
        /\ report'.peer = report.peer /\ report'.opt = report.opt
        /\ UNCHANGED <<init_, participant_names_, open, unpaired>>
    BY <1>3, SearchStep, RemoveStep, ChannelsStep DEF Removing
  <2>2. LeavesPaired'
    BY <2>1 DEF LeavesPaired, Removing
  <2> QED
    BY <2>1, <2>2
<1>4. CASE Manager!ChangeSignal
  <2>1. /\ report.at = "signal" /\ report' = Manager!NoReport
        /\ open' = IF report.opt = "join" THEN open \cup {report.peer} ELSE open \ {report.peer}
        /\ UNCHANGED <<init_, participant_names_>>
    BY <1>4 DEF Manager!ChangeSignal
  <2>2. unpaired' = FALSE /\ init_' \in BOOLEAN
    <3>1. unpaired' = (unpaired \/ (report.opt = "leave" /\ report.peer \notin open))
      BY <1>4 DEF Manager!ChangeSignal
    <3>2. ~ (report.opt = "leave" /\ report.peer \notin open)
      BY <2>1 DEF LeavesPaired
    <3> QED
      BY <2>1, <3>1, <3>2, Zenon
  <2>3. ReportTypeOK' /\ report'.at = "none"
    BY <2>1 DEF ReportTypeOK, Manager!NoReport, Manager!Report
  <2>4. ASSUME init_ = TRUE, NEW p \in participant_names_
        PROVE  p \in open'
    BY <2>1, <2>4 DEF LeavesPaired, Removing, ReportTypeOK
  <2>5. LeavesPaired'
    BY <2>1, <2>3, <2>4 DEF LeavesPaired, Removing
  <2> QED
    BY <2>2, <2>3, <2>5
<1>5. CASE \/ \E r \in PeerRoles : Manager!Dispose(r)
           \/ Manager!ShutdownManagers \/ Manager!ShutdownListener
           \/ UNCHANGED Manager!managerVars
  <2>1. UNCHANGED <<init_, participant_names_, report, open, unpaired>>
    BY <1>5 DEF Manager!Dispose, Manager!ShutdownManagers, Manager!ShutdownListener,
                Manager!managerVars, Manager!signals
  <2> QED
    BY <2>1 DEF LeavesPaired, Removing, ReportTypeOK
<1>6. CASE Manager!ShutdownBegin
  <2>1. init_' = FALSE /\ UNCHANGED <<participant_names_, report, open, unpaired>>
    BY <1>6 DEF Manager!ShutdownBegin, Manager!signals
  <2> QED
    BY <2>1 DEF LeavesPaired, Removing, ReportTypeOK
<1> QED
  BY <1>1, <1>2, <1>3, <1>4, <1>5, <1>6 DEF Manager!ManagerNext

(* What a join or a leave does to the nodes. *)
LEMMA DisposeNodes ==
  ASSUME NEW r \in PeerRoles, Manager!Dispose(r)
  PROVE  /\ report' = report /\ joined' # joined
         /\ \/ nodes_' = nodes_ /\ swapped \subseteq swapped'
            \/ /\ nodes_' = [k \in DOMAIN nodes_ \ {r.node_id} |-> nodes_[k]]
               /\ swapped \subseteq swapped'
            \/ /\ nodes_' = [k \in DOMAIN nodes_ \cup {r.node_id} |->
                               IF k = r.node_id THEN r ELSE nodes_[k]]
               /\ swapped \subseteq swapped'
               /\ report.at = "remove" /\ nodes_' # nodes_ => r \in swapped'
<1>1. report' = report /\ joined' # joined /\ swapped \subseteq swapped'
  BY DEF Manager!Dispose
<1>2. CASE r \in joined
  <2>1. nodes_' = nodes_ \/ nodes_' = Manager!RemoveKey(nodes_, r.node_id)
    BY <1>2 DEF Manager!Dispose
  <2> QED
    BY <1>1, <2>1, RemoveKeyIs
<1>3. CASE r \notin joined
  <2>1. nodes_' = nodes_ \/ nodes_' = Manager!NodeJoins(r)
    BY <1>3 DEF Manager!Dispose
  <2>2. \/ nodes_' = nodes_
        \/ nodes_' = [k \in DOMAIN nodes_ \cup {r.node_id} |->
                        IF k = r.node_id THEN r ELSE nodes_[k]]
    BY <2>1 DEF Manager!NodeJoins, Manager!Add
  <2>3. report.at = "remove" /\ nodes_' # nodes_ => r \in swapped'
    BY <1>3 DEF Manager!Dispose
  <2> QED
    BY <1>1, <2>2, <2>3
<1> QED
  BY <1>2, <1>3

LEMMA KeysStep ==
  ASSUME NodesByKey, ReportTypeOK, FoundOwn, [Manager!ManagerNext]_Manager!managerVars
  PROVE  NodesByKey' /\ FoundOwn'
<1>1. ASSUME NEW r \in PeerRoles, Manager!Dispose(r)
      PROVE  NodesByKey' /\ FoundOwn'
  <2>0. /\ \A k \in DOMAIN nodes_' :
              \/ k \in DOMAIN nodes_ /\ nodes_'[k] = nodes_[k]
              \/ k = r.node_id /\ nodes_'[k] = r /\ (report.at = "remove" => r \in swapped')
        /\ swapped \subseteq swapped'
    <3>1. CASE nodes_' = nodes_
      BY <1>1, <3>1, DisposeNodes
    <3>2. CASE nodes_' = [k \in DOMAIN nodes_ \ {r.node_id} |-> nodes_[k]]
      BY <1>1, <3>2, DisposeNodes
    <3>3. CASE /\ nodes_' = [k \in DOMAIN nodes_ \cup {r.node_id} |->
                               IF k = r.node_id THEN r ELSE nodes_[k]]
               /\ swapped \subseteq swapped' /\ nodes_' # nodes_
               /\ report.at = "remove" => r \in swapped'
      BY <3>3
    <3> QED
      BY <1>1, <3>1, <3>2, <3>3, DisposeNodes
  <2>1. NodesByKey'
    BY <2>0 DEF NodesByKey
  <2>2. ASSUME report.at = "remove", NEW f \in report.found, f.node_id \in DOMAIN nodes_'
        PROVE  nodes_'[f.node_id].process_id = report.peer \/ nodes_'[f.node_id] \in swapped'
    BY <2>0, <2>2 DEF FoundOwn
  <2>3. report' = report
    BY <1>1, DisposeNodes
  <2>4. FoundOwn'
    BY <2>2, <2>3 DEF FoundOwn
  <2> QED
    BY <2>1, <2>4
<1>2. CASE Manager!NodesTopoModuleLeave
  <2>1. NodesByKey'
    BY <1>2, SearchStep DEF NodesByKey
  <2>2. ASSUME report'.at = "remove", NEW f \in report'.found
        PROVE  f.process_id = report'.peer /\ nodes_'[f.node_id].process_id = report'.peer
    <3>1. PICK k \in DOMAIN nodes_ : nodes_[k] = f
      BY <1>2, <2>2, SearchStep
    <3>2. k = f.node_id
      BY <3>1 DEF NodesByKey
    <3> QED
      BY <1>2, <2>2, <3>1, <3>2, SearchStep
  <2>3. report'.at \in {"remove", "channels"}
    BY <1>2, SearchStep
  <2> QED
    BY <2>1, <2>2, <2>3 DEF FoundOwn
<1>3. ASSUME NEW r \in PeerRoles, Manager!RemoveNode(r)
      PROVE  NodesByKey' /\ FoundOwn'
  <2>0. \A k \in DOMAIN nodes_' : k \in DOMAIN nodes_ /\ nodes_'[k] = nodes_[k]
    <3>1. nodes_' = [k \in DOMAIN nodes_ \ {r.node_id} |-> nodes_[k]]
      BY <1>3, RemoveStep
    <3> QED
      BY <3>1
  <2>1. NodesByKey'
    BY <2>0 DEF NodesByKey
  <2>2. report'.at \in {"remove", "channels"} /\ report'.peer = report.peer
    BY <1>3, RemoveStep
  <2>3. ASSUME report'.at = "remove", NEW f \in report'.found
        PROVE  /\ f.process_id = report'.peer
               /\ f.node_id \in DOMAIN nodes_' =>
                    nodes_'[f.node_id].process_id = report'.peer \/ nodes_'[f.node_id] \in swapped'
    <3>1. /\ report.at = "remove" /\ f \in report.found /\ report'.peer = report.peer
          /\ swapped' = swapped
      BY <1>3, <2>3, RemoveStep
    <3> QED
      BY <2>0, <3>1 DEF FoundOwn
  <2> QED
    BY <2>1, <2>2, <2>3 DEF FoundOwn
<1>4. CASE \/ Manager!ChannelsTopoModuleLeave \/ Manager!SearchReaders
           \/ \E r \in PeerRoles : Manager!DisposeLeave(r)
  BY <1>4, ChannelsStep DEF NodesByKey
<1>5. CASE \/ \E p \in Peers, s \in {"DISCOVERED", "CHANGED_QOS", "REMOVED", "DROPPED"} :
                Manager!OnParticipantDiscovery(p, s)
           \/ Manager!OnParticipantChange \/ Manager!ChangeSignal
  <2>1. nodes_' = nodes_ /\ swapped' = swapped
    BY <1>5 DEF Manager!OnParticipantDiscovery, Manager!OnParticipantChange, Manager!ChangeSignal,
                Manager!views, Manager!signals
  <2>2. report' = report \/ report'.at \in {"none", "init", "nodes", "signal"}
    <3>1. CASE Manager!OnParticipantChange \/ Manager!ChangeSignal
      BY <3>1 DEF Manager!OnParticipantChange, Manager!ChangeSignal, Manager!NoReport, Manager!Report, ReportTypeOK
    <3>2. ASSUME NEW p \in Peers, NEW s \in {"DISCOVERED", "CHANGED_QOS", "REMOVED", "DROPPED"},
                 Manager!OnParticipantDiscovery(p, s)
          PROVE  report' = report \/ report'.at \in {"none", "init"}
      BY <3>2 DEF Manager!OnParticipantDiscovery, Manager!NoReport, Manager!Report
    <3> QED
      BY <1>5, <3>1, <3>2
  <2> QED
    BY <2>1, <2>2 DEF NodesByKey, FoundOwn
<1>6. CASE \/ Manager!ShutdownBegin \/ Manager!ShutdownManagers \/ Manager!ShutdownListener
           \/ UNCHANGED Manager!managerVars
  <2>1. UNCHANGED <<nodes_, report, swapped>>
    BY <1>6 DEF Manager!ShutdownBegin, Manager!ShutdownManagers, Manager!ShutdownListener,
                Manager!managerVars, Manager!views, Manager!signals
  <2> QED
    BY <2>1 DEF NodesByKey, FoundOwn
<1> QED
  BY <1>1, <1>2, <1>3, <1>4, <1>5, <1>6 DEF Manager!ManagerNext

(* What the end of a participant removes. *)
OthersStay ==
  report.at # "none" /\ joined' = joined =>
    /\ \A r \in Manager!RolesOf(nodes_) :
         r.process_id # report.peer =>
           \/ r \in Manager!RolesOf(nodes_')
           \/ r \in swapped
    /\ \A e \in channel_writers_ \cup channel_readers_ :
         e[2].process_id # report.peer => e \in channel_writers_' \cup channel_readers_'

LEMMA OthersStep ==
  ASSUME NodesByKey, ReportTypeOK, FoundOwn, [Manager!ManagerNext]_Manager!managerVars
  PROVE  OthersStay
<1>1. CASE UNCHANGED <<nodes_, channel_writers_, channel_readers_>>
  BY <1>1 DEF OthersStay
<1>2. CASE Manager!NodesTopoModuleLeave
  BY <1>1, <1>2, SearchStep
<1>3. ASSUME NEW role \in PeerRoles, Manager!RemoveNode(role)
      PROVE  OthersStay
  <2>1. ASSUME NEW k \in DOMAIN nodes_, nodes_[k].process_id # report.peer, nodes_[k] \notin swapped
        PROVE  k \in DOMAIN nodes_' /\ nodes_'[k] = nodes_[k]
    <3>1. report.at = "remove" /\ role \in report.found
      BY <1>3, RemoveStep
    <3>2. k # role.node_id
      BY <2>1, <3>1 DEF FoundOwn
    <3>3. nodes_' = [j \in DOMAIN nodes_ \ {role.node_id} |-> nodes_[j]]
      BY <1>3, RemoveStep
    <3> QED
      BY <3>2, <3>3
  <2>2. UNCHANGED <<channel_writers_, channel_readers_>>
    BY <1>3, RemoveStep
  <2> QED
    BY <2>1, <2>2 DEF OthersStay, Manager!RolesOf
<1>4. CASE \/ Manager!ChannelsTopoModuleLeave \/ Manager!SearchReaders
           \/ \E r \in PeerRoles : Manager!DisposeLeave(r)
  BY <1>4, ChannelsStep DEF OthersStay
<1>5. ASSUME NEW r \in PeerRoles, Manager!Dispose(r)
      PROVE  OthersStay
  BY <1>5, DisposeNodes DEF OthersStay
<1> QED
  BY <1>1, <1>2, <1>3, <1>4, <1>5
     DEF Manager!ManagerNext, Manager!OnParticipantDiscovery, Manager!OnParticipantChange,
         Manager!ChangeSignal, Manager!ShutdownBegin, Manager!ShutdownManagers,
         Manager!ShutdownListener, Manager!managerVars, Manager!views

(* What a process keeps of the others follows the reports, for any number  *)
(* of processes, nodes of one name and roles, and any sequence of reports. *)
THEOREM PeersAreTracked == Naming!NameSpec /\ Manager!ManagerSpec => PeersTracked
<1>1. Manager!ManagerInit => ManagerInv
  <2> SUFFICES ASSUME Manager!ManagerInit
               PROVE  ManagerInv
    OBVIOUS
  <2>1. /\ init_ \in BOOLEAN /\ participant_names_ = {} /\ nodes_ = Manager!Empty
        /\ report = Manager!NoReport
    BY DEF Manager!ManagerInit
  <2>2. unpaired = FALSE
    BY DEF Manager!ManagerInit
  <2>3. NodesByKey
    BY <2>1 DEF NodesByKey, Manager!Empty
  <2>4. LeavesPaired /\ ReportTypeOK /\ FoundOwn
    BY <2>1 DEF LeavesPaired, Removing, ReportTypeOK, FoundOwn, Manager!NoReport, Manager!Report
  <2> QED
    BY <2>1, <2>2, <2>3, <2>4 DEF ManagerInv
<1>2. ManagerInv /\ [Manager!ManagerNext]_Manager!managerVars => ManagerInv'
  BY KeysStep, ReportStep DEF ManagerInv
<1>3. ManagerInv => Manager!LeaveFollowsJoin
  BY DEF ManagerInv, Manager!LeaveFollowsJoin
<1>4. ManagerInv /\ [Manager!ManagerNext]_Manager!managerVars => [OthersStay]_Manager!managerVars
  BY OthersStep DEF ManagerInv
<1>5. Manager!ManagerSpec => [][OthersStay]_Manager!managerVars
  BY <1>1, <1>2, <1>4, PTL DEF Manager!ManagerSpec
<1>6. Manager!ManagerSpec => Manager!OthersKept
  BY <1>5 DEF OthersStay, Manager!OthersKept
<1>7. Manager!ManagerSpec => []Manager!LeaveFollowsJoin
  BY <1>1, <1>2, <1>3, PTL DEF Manager!ManagerSpec
<1> QED
  BY <1>6, <1>7, NameInvariance, PTL DEF PeersTracked
-----------------------------------------------------------------------------
(***************************************************************************)
(* The scheduler's factory (Config): scheduler::Instance looks at the      *)
(* pointer without the lock, again with it, and constructs.                *)
(***************************************************************************)

InFactory == {"policy", "construct", "create", "store"}

(* Whoever constructs holds the mutex; it found no scheduler and has made  *)
(* none before the end of CreateProcessor, and one that is published is    *)
(* the only one.                                                           *)
FactoryInv ==
  /\ conf_at \in [Threads -> {"idle", "lock", "has"} \cup InFactory]
  /\ obj \in [Threads -> {0, 1}] /\ instance \in {0, 1} /\ made \in {0, 1}
  /\ \A t \in Threads : conf_at[t] \in InFactory => mutex = t /\ instance = 0
  /\ \A t \in Threads : conf_at[t] = "store" => made = 1
  /\ \A t \in Threads : conf_at[t] = "has" => obj[t] = 1 /\ instance = 1
  /\ instance = 1 => made = 1
  /\ outcome = "runs" /\ made = 1 /\ instance = 0 => \E t \in Threads : conf_at[t] = "store"

LEMMA FactoryInvariant == Start!ConfigSpec => []FactoryInv
<1>1. Start!ConfigInit => FactoryInv
  BY DEF Start!ConfigInit, FactoryInv, InFactory
<1>2. FactoryInv /\ [Start!ConfigNext]_Start!configVars => FactoryInv'
  <2> SUFFICES ASSUME FactoryInv, [Start!ConfigNext]_Start!configVars
               PROVE  FactoryInv'
    OBVIOUS
  <2>1. CASE /\ UNCHANGED <<instance, made, mutex, conf_at, obj>>
             /\ outcome' = "runs" => outcome = "runs"
    BY <2>1 DEF FactoryInv
  <2>2. CASE Start!RcmwInit
    BY <2>1, <2>2 DEF Start!RcmwInit, Start!factoryVars
  <2>3. ASSUME NEW g \in Groups, Start!SetProcessGroup(g)
        PROVE  FactoryInv'
    BY <2>1, <2>3 DEF Start!SetProcessGroup, Start!factoryVars
  <2>4. ASSUME NEW t \in Threads, NEW to \in {"lock", "has"},
               conf_at[t] \in {"idle", "lock"}, conf_at' = [conf_at EXCEPT ![t] = to],
               to = "lock" <=> instance = 0,
               obj' = [obj EXCEPT ![t] = instance],
               UNCHANGED <<instance, made, mutex, outcome>>
        PROVE  FactoryInv'
    <3>1. /\ conf_at' \in [Threads -> {"idle", "lock", "has"} \cup InFactory]
          /\ obj' \in [Threads -> {0, 1}]
          /\ conf_at'[t] = to /\ obj'[t] = instance
          /\ \A u \in Threads \ {t} : conf_at'[u] = conf_at[u] /\ obj'[u] = obj[u]
      BY <2>4 DEF FactoryInv
    <3> QED
      BY <2>4, <3>1 DEF FactoryInv, InFactory
  <2>5. ASSUME NEW t \in Threads, Start!InstanceLoad(t)
        PROVE  FactoryInv'
    <3>1. /\ conf_at[t] = "idle" /\ obj' = [obj EXCEPT ![t] = instance]
          /\ \/ instance = 0 /\ conf_at' = [conf_at EXCEPT ![t] = "lock"]
             \/ instance # 0 /\ conf_at' = [conf_at EXCEPT ![t] = "has"]
          /\ UNCHANGED <<instance, made, mutex, outcome>>
      BY <2>5 DEF Start!InstanceLoad, Start!Goto
    <3> QED
      BY <2>4, <3>1
  <2>6. ASSUME NEW t \in Threads, Start!InstanceLock(t)
        PROVE  FactoryInv'
    <3>1. /\ outcome = "runs" /\ conf_at[t] = "lock" /\ mutex = Nothing
          /\ obj' = [obj EXCEPT ![t] = instance]
          /\ \/ instance = 0 /\ mutex' = t /\ conf_at' = [conf_at EXCEPT ![t] = "policy"]
             \/ instance # 0 /\ mutex' = mutex /\ conf_at' = [conf_at EXCEPT ![t] = "has"]
          /\ UNCHANGED <<instance, made, outcome>>
      BY <2>6 DEF Start!InstanceLock, Start!Goto
    <3>2. CASE instance = 0 /\ mutex' = t /\ conf_at' = [conf_at EXCEPT ![t] = "policy"]
      <4>1. \A u \in Threads : conf_at[u] \notin InFactory
        BY <3>1, ConfigConstants DEF FactoryInv
      <4>2. made = 0
        BY <3>1, <3>2, <4>1 DEF FactoryInv, InFactory
      <4>3. /\ conf_at' \in [Threads -> {"idle", "lock", "has"} \cup InFactory]
            /\ obj' \in [Threads -> {0, 1}]
            /\ conf_at'[t] = "policy"
            /\ \A u \in Threads \ {t} : conf_at'[u] = conf_at[u] /\ obj'[u] = obj[u]
        BY <3>1, <3>2 DEF FactoryInv, InFactory
      <4> QED
        BY <3>1, <3>2, <4>1, <4>2, <4>3 DEF FactoryInv, InFactory
    <3> QED
      BY <2>4, <3>1, <3>2
  <2>7. ASSUME NEW t \in Threads, NEW to \in {"construct", "create"},
               conf_at[t] \in InFactory, conf_at[t] # "store", outcome = "runs",
               conf_at' = [conf_at EXCEPT ![t] = to],
               UNCHANGED <<instance, made, mutex, obj>>
        PROVE  FactoryInv'
    <3>1. /\ conf_at' \in [Threads -> {"idle", "lock", "has"} \cup InFactory]
          /\ conf_at'[t] = to
          /\ \A u \in Threads \ {t} : conf_at'[u] = conf_at[u]
      BY <2>7 DEF FactoryInv, InFactory
    <3> QED
      BY <2>7, <3>1 DEF FactoryInv, InFactory
  <2>8. ASSUME NEW t \in Threads, Start!InstancePolicy(t)
        PROVE  FactoryInv'
    <3>1. /\ outcome = "runs" /\ conf_at[t] = "policy"
          /\ conf_at' = conf_at \/ conf_at' = [conf_at EXCEPT ![t] = "construct"]
          /\ UNCHANGED <<instance, made, mutex, obj>>
      BY <2>8 DEF Start!InstancePolicy, Start!Goto
    <3> QED
      BY <2>1, <2>7, <3>1 DEF InFactory
  <2>9. ASSUME NEW t \in Threads, Start!ConstructFromFile(t) \/ Start!ConstructDefault(t)
        PROVE  FactoryInv'
    <3>1. /\ outcome = "runs" /\ conf_at[t] = "construct"
          /\ conf_at' = conf_at \/ conf_at' = [conf_at EXCEPT ![t] = "create"]
          /\ UNCHANGED <<instance, made, mutex, obj>>
      BY <2>9 DEF Start!ConstructFromFile, Start!ConstructDefault, Start!Goto
    <3> QED
      BY <2>1, <2>7, <3>1 DEF InFactory
  <2>10. ASSUME NEW t \in Threads, Start!CreateProcessor(t)
         PROVE  FactoryInv'
    <3>1. /\ outcome = "runs" /\ conf_at[t] = "create" /\ made' = made + 1
          /\ \/ outcome' = "exited" /\ conf_at' = conf_at
             \/ outcome' = outcome /\ conf_at' = [conf_at EXCEPT ![t] = "store"]
          /\ UNCHANGED <<instance, mutex, obj>>
      BY <2>10 DEF Start!CreateProcessor, Start!Goto
    <3>2. instance = 0 /\ made = 0 /\ \A u \in Threads \ {t} : conf_at[u] \notin InFactory
      BY <3>1 DEF FactoryInv, InFactory
    <3>3. CASE outcome' = "exited" /\ conf_at' = conf_at
      BY <3>1, <3>2, <3>3 DEF FactoryInv
    <3>4. CASE outcome' = outcome /\ conf_at' = [conf_at EXCEPT ![t] = "store"]
      <4>1. /\ conf_at' \in [Threads -> {"idle", "lock", "has"} \cup InFactory]
            /\ conf_at'[t] = "store"
            /\ \A u \in Threads \ {t} : conf_at'[u] = conf_at[u]
        BY <3>4 DEF FactoryInv, InFactory
      <4> QED
        BY <3>1, <3>2, <3>4, <4>1 DEF FactoryInv, InFactory
    <3> QED
      BY <3>1, <3>3, <3>4
  <2>11. ASSUME NEW t \in Threads, Start!InstanceStore(t)
         PROVE  FactoryInv'
    <3>1. /\ conf_at[t] = "store" /\ instance' = made /\ obj' = [obj EXCEPT ![t] = made]
          /\ conf_at' = [conf_at EXCEPT ![t] = "has"]
          /\ UNCHANGED <<made, outcome>>
      BY <2>11 DEF Start!InstanceStore, Start!Goto
    <3>2. made = 1 /\ instance = 0 /\ \A u \in Threads \ {t} : conf_at[u] \notin InFactory
      BY <3>1 DEF FactoryInv, InFactory
    <3>3. /\ conf_at' \in [Threads -> {"idle", "lock", "has"} \cup InFactory]
          /\ obj' \in [Threads -> {0, 1}] /\ conf_at'[t] = "has" /\ obj'[t] = 1
          /\ \A u \in Threads \ {t} : conf_at'[u] = conf_at[u] /\ obj'[u] = obj[u]
      BY <3>1, <3>2 DEF FactoryInv
    <3> QED
      BY <3>1, <3>2, <3>3 DEF FactoryInv, InFactory
  <2>12. ASSUME NEW t \in Threads, NEW c \in inner_thr_confs, Start!SetInnerThreadAttr(t, c)
         PROVE  FactoryInv'
    BY <2>1, <2>12 DEF Start!SetInnerThreadAttr, Start!factoryVars
  <2>13. CASE UNCHANGED Start!configVars
    BY <2>1, <2>13 DEF Start!configVars, Start!factoryVars
  <2> QED
    BY <2>2, <2>3, <2>5, <2>6, <2>8, <2>9, <2>10, <2>11, <2>12, <2>13 DEF Start!ConfigNext
<1> QED
  BY <1>1, <1>2, PTL DEF Start!ConfigSpec

-----------------------------------------------------------------------------
(***************************************************************************)
(* Sequences appended one after the other, as ParseCpuset and              *)
(* CreateProcessor do.                                                     *)
(***************************************************************************)
Appending(f, n, F) == f = [i \in 0 .. n |-> IF i = 0 THEN <<>> ELSE f[i - 1] \o F[i]]

(* A function that is defined so exists. *)
LEMMA AppendingExists ==
  ASSUME NEW n \in Nat, NEW F
  PROVE  \E f : Appending(f, n, F)
<1> DEFINE S == {m \in Nat : \E f : Appending(f, m, F)}
<1>1. 0 \in S
  <2>1. Appending([i \in 0 .. 0 |-> <<>>], 0, F)
    BY DEF Appending
  <2> QED
    BY <2>1
<1>2. ASSUME NEW m \in S  PROVE  m + 1 \in S
  <2>1. PICK f : Appending(f, m, F)
    OBVIOUS
  <2> DEFINE g == [i \in 0 .. m + 1 |-> IF i <= m THEN f[i] ELSE f[m] \o F[m + 1]]
  <2>2. f = [i \in 0 .. m |-> IF i = 0 THEN <<>> ELSE f[i - 1] \o F[i]]
    BY <2>1 DEF Appending
  <2>3. ASSUME NEW i \in 0 .. m + 1
        PROVE  g[i] = IF i = 0 THEN <<>> ELSE g[i - 1] \o F[i]
    <3>1. CASE i <= m /\ i # 0
      <4>1. i \in 0 .. m /\ i - 1 \in 0 .. m + 1 /\ i - 1 <= m
        BY <3>1
      <4> QED
        BY <2>2, <3>1, <4>1
    <3>2. CASE i = 0
      <4>1. f[0] = <<>>
        BY <2>2
      <4> QED
        BY <3>2, <4>1
    <3>3. CASE i = m + 1
      BY <3>3
    <3> QED
      BY <3>1, <3>2, <3>3
  <2>4. Appending(g, m + 1, F)
    BY <2>3 DEF Appending
  <2> QED
    BY <2>4
<1> HIDE DEF S
<1>3. S = Nat
  <2>1. S \in SUBSET Nat
    BY DEF S
  <2> QED
    BY <1>1, <1>2, <2>1, NatInduct
<1> QED
  BY <1>3 DEF S

(* Where each element of s comes from: the places of the sequences F[1] to *)
(* F[m], each once.                                                        *)
Places(s, m, F, from) ==
  /\ DOMAIN from = 1 .. Len(s)
  /\ \A k \in 1 .. Len(s) :
       /\ from[k] = <<from[k][1], from[k][2]>>
       /\ from[k][1] \in 1 .. m /\ from[k][2] \in 1 .. Len(F[from[k][1]])
       /\ s[k] = F[from[k][1]][from[k][2]]
  /\ \A k, l \in 1 .. Len(s) : from[k] = from[l] => k = l
  /\ \A i \in 1 .. m : \A j \in 1 .. Len(F[i]) : \E k \in 1 .. Len(s) : from[k] = <<i, j>>

LEMMA AppendingPlaces ==
  ASSUME NEW T, NEW n \in Nat, NEW F, \A i \in 1 .. n : F[i] \in Seq(T),
         NEW f, Appending(f, n, F)
  PROVE  f[n] \in Seq(T) /\ \E from : Places(f[n], n, F, from)
<1> DEFINE S == {m \in Nat : m <= n => f[m] \in Seq(T) /\ \E from : Places(f[m], m, F, from)}
<1>1. \A i \in 0 .. n : f[i] = IF i = 0 THEN <<>> ELSE f[i - 1] \o F[i]
  BY DEF Appending
<1>2. 0 \in S
  <2>1. f[0] = <<>>
    BY <1>1
  <2>2. Places(<<>>, 0, F, <<>>)
    BY DEF Places
  <2>3. <<>> \in Seq(T)
    OBVIOUS
  <2> QED
    BY <2>1, <2>2, <2>3
<1>3. ASSUME NEW m \in S, m + 1 <= n
      PROVE  f[m + 1] \in Seq(T) /\ \E from : Places(f[m + 1], m + 1, F, from)
  <2>1. m \in Nat /\ m <= n /\ m + 1 \in 0 .. n /\ m + 1 \in 1 .. n /\ m + 1 # 0 /\ m + 1 - 1 = m
    BY <1>3
  <2>2. f[m] \in Seq(T)
    BY <2>1
  <2>3. PICK from : Places(f[m], m, F, from)
    BY <2>1
  <2> HIDE DEF S
  <2>0. m \in Nat
    BY <2>1
  <2>4. f[m + 1] = f[m] \o F[m + 1] /\ F[m + 1] \in Seq(T)
    <3> DEFINE q == m + 1
    <3>1. q \in 0 .. n /\ q \in 1 .. n /\ q # 0 /\ q - 1 = m
      BY <2>1
    <3> HIDE DEF q
    <3>2. f[q] = f[m] \o F[q] /\ F[q] \in Seq(T)
      BY <1>1, <3>1
    <3> QED
      BY <3>2 DEF q
  <2> DEFINE a == f[m]
             b == F[m + 1]
             s == f[m + 1]
             new == [k \in 1 .. Len(s) |-> IF k <= Len(a) THEN from[k] ELSE <<m + 1, k - Len(a)>>]
  <2>5. a \in Seq(T) /\ b \in Seq(T) /\ Len(a) \in Nat /\ Len(b) \in Nat
    BY <2>2, <2>4
  <2>6. /\ s \in Seq(T) /\ Len(s) = Len(a) + Len(b)
        /\ \A k \in 1 .. Len(s) : s[k] = IF k <= Len(a) THEN a[k] ELSE b[k - Len(a)]
    <3>1. s = a \o b
      BY <2>4
    <3> HIDE DEF a, b, s
    <3>2. /\ a \o b \in Seq(T) /\ Len(a \o b) = Len(a) + Len(b)
          /\ \A k \in 1 .. Len(a) + Len(b) :
               (a \o b)[k] = IF k <= Len(a) THEN a[k] ELSE b[k - Len(a)]
      BY <2>5, ConcatProperties
    <3> QED
      BY <3>1, <3>2
  <2> HIDE DEF a, b, s
  <2>7. Places(a, m, F, from)
    BY <2>3 DEF a
  <2>8. ASSUME NEW k \in 1 .. Len(s)
        PROVE  /\ new[k] = <<new[k][1], new[k][2]>>
               /\ new[k][1] \in 1 .. m + 1 /\ new[k][2] \in 1 .. Len(F[new[k][1]])
               /\ s[k] = F[new[k][1]][new[k][2]]
    <3>1. CASE k <= Len(a)
      <4>1. k \in 1 .. Len(a) /\ new[k] = from[k]
        BY <2>5, <3>1
      <4> QED
        BY <2>1, <2>6, <2>7, <3>1, <4>1, SMTT(30) DEF Places
    <3>2. CASE k > Len(a)
      <4>1. k - Len(a) \in 1 .. Len(b) /\ new[k] = <<m + 1, k - Len(a)>>
        BY <2>5, <2>6, <3>2
      <4>2. s[k] = b[k - Len(a)]
        BY <2>5, <2>6, <3>2
      <4> QED
        BY <2>1, <4>1, <4>2 DEF b
    <3> QED
      BY <2>5, <3>1, <3>2
  <2>9. ASSUME NEW k \in 1 .. Len(s), NEW l \in 1 .. Len(s), new[k] = new[l]
        PROVE  k = l
    <3>1. /\ k <= Len(a) => k \in 1 .. Len(a) /\ new[k] = from[k] /\ from[k][1] \in 1 .. m
          /\ l <= Len(a) => l \in 1 .. Len(a) /\ new[l] = from[l] /\ from[l][1] \in 1 .. m
      BY <2>5, <2>7 DEF Places
    <3>2. /\ ~(k <= Len(a)) => new[k] = <<m + 1, k - Len(a)>>
          /\ ~(l <= Len(a)) => new[l] = <<m + 1, l - Len(a)>>
      OBVIOUS
    <3>3. CASE k <= Len(a) /\ l <= Len(a)
      BY <2>7, <2>9, <3>1, <3>3 DEF Places
    <3>4. CASE ~(k <= Len(a)) /\ ~(l <= Len(a))
      <4>1. k - Len(a) = l - Len(a)
        BY <2>9, <3>2, <3>4
      <4> QED
        BY <2>5, <4>1
    <3>5. CASE k <= Len(a) /\ ~(l <= Len(a))
      <4>1. from[k][1] = m + 1
        BY <2>9, <3>1, <3>2, <3>5
      <4> QED
        BY <2>1, <3>1, <3>5, <4>1
    <3>6. CASE ~(k <= Len(a)) /\ l <= Len(a)
      <4>1. from[l][1] = m + 1
        BY <2>9, <3>1, <3>2, <3>6
      <4> QED
        BY <2>1, <3>1, <3>6, <4>1
    <3> QED
      BY <3>3, <3>4, <3>5, <3>6
  <2>10. ASSUME NEW i \in 1 .. m + 1, NEW j \in 1 .. Len(F[i])
         PROVE  \E k \in 1 .. Len(s) : new[k] = <<i, j>>
    <3>1. CASE i <= m
      <4>1. i \in 1 .. m
        BY <2>0, <3>1
      <4>2. PICK k \in 1 .. Len(a) : from[k] = <<i, j>>
        BY <2>7, <4>1 DEF Places
      <4>3. k \in 1 .. Len(s) /\ k <= Len(a)
        BY <2>5, <2>6
      <4> QED
        BY <4>2, <4>3
    <3>2. CASE i = m + 1
      <4>1. /\ j + Len(a) \in 1 .. Len(s) /\ ~(j + Len(a) <= Len(a)) /\ j + Len(a) - Len(a) = j
        BY <2>5, <2>6, <3>2 DEF b
      <4>2. new[j + Len(a)] = <<i, j>>
        BY <3>2, <4>1
      <4> QED
        BY <4>1, <4>2
    <3>3. i <= m \/ i = m + 1
      BY <2>0
    <3> HIDE DEF new
    <3> QED
      BY <3>1, <3>2, <3>3
  <2>11. Places(s, m + 1, F, new)
    <3>1. DOMAIN new = 1 .. Len(s)
      OBVIOUS
    <3> HIDE DEF new
    <3> QED
      BY <2>8, <2>9, <2>10, <3>1 DEF Places
  <2> QED
    BY <2>6, <2>11 DEF s
<1>4. ASSUME NEW m \in S  PROVE  m + 1 \in S
  <2>1. m \in Nat /\ m + 1 \in Nat
    OBVIOUS
  <2>2. CASE m + 1 <= n
    BY <1>3, <2>1, <2>2
  <2>3. CASE ~(m + 1 <= n)
    BY <2>1, <2>3
  <2> QED
    BY <2>2, <2>3
<1> HIDE DEF S
<1>5. S = Nat
  <2>1. S \in SUBSET Nat
    BY DEF S
  <2> QED
    BY <1>2, <1>4, <2>1, NatInduct
<1> QED
  BY <1>5 DEF S

-----------------------------------------------------------------------------
(* The cpus of a well-formed text. *)
Parsed(text) == Start!ParseCpuset(text, <<>>)

(* A part of a cpuset is a sequence of cpus. *)
LEMMA PartIsSeq ==
  ASSUME NEW p \in Seq(Nat), Len(p) \in {1, 2}
  PROVE  Start!Part(p) \in Seq(Nat)
<1>1. CASE Len(p) = 1
  BY <1>1 DEF Start!Part
<1>2. CASE Len(p) = 2
  <2>1. p[1] \in Nat /\ p[2] \in Nat
    <3>1. 1 \in 1 .. Len(p) /\ 2 \in 1 .. Len(p)
      BY <1>2
    <3> QED
      BY <3>1, ElementOfSeq
  <2> DEFINE n == IF p[1] <= p[2] THEN p[2] - p[1] + 1 ELSE 0
  <2>2. n \in Nat
    BY <2>1
  <2>3. Start!Part(p) = [i \in 1 .. n |-> p[1] + i - 1]
    BY <1>2 DEF Start!Part
  <2> HIDE DEF n
  <2>4. \A i \in 1 .. n : p[1] + i - 1 \in Nat
    BY <2>1, <2>2
  <2> QED
    BY <2>2, <2>3, <2>4
<1> QED
  BY <1>1, <1>2

(* ParseCpuset yields the cpus the text lists; if they are as many as the  *)
(* cpus it yields, each is there once.                                     *)
LEMMA ParsesListed ==
  ASSUME NEW text \in Seq(Seq(Nat)), Start!WellFormedCpuset(text)
  PROVE  /\ Parsed(text) \in Seq(Nat)
         /\ Start!Listed(text) = {Parsed(text)[k] : k \in 1 .. Len(Parsed(text))}
<1> DEFINE n == Len(text)
           F == [i \in 1 .. n |-> Start!Part(text[i])]
           upto == CHOOSE f : f = [i \in 0 .. Len(text) |->
                     IF i = 0 THEN <<>> ELSE f[i - 1] \o Start!Part(text[i])]
<1>1. n \in Nat /\ \A i \in 1 .. n : F[i] \in Seq(Nat)
  <2>1. \A i \in 1 .. n : text[i] \in Seq(Nat) /\ Len(text[i]) \in {1, 2}
    BY DEF Start!WellFormedCpuset
  <2> QED
    BY <2>1, PartIsSeq
<1>2. Parsed(text) = upto[n]
  BY DEF Parsed, Start!ParseCpuset
<1>3. \E f : f = [i \in 0 .. Len(text) |->
                  IF i = 0 THEN <<>> ELSE f[i - 1] \o Start!Part(text[i])]
  <2>1. PICK f : Appending(f, n, F)
    BY <1>1, AppendingExists
  <2>2. \A i \in 0 .. n : i # 0 => F[i] = Start!Part(text[i])
    BY <1>1
  <2>3. f = [i \in 0 .. n |-> IF i = 0 THEN <<>> ELSE f[i - 1] \o Start!Part(text[i])]
    BY <2>1, <2>2 DEF Appending
  <2> QED
    BY <2>3
<1>4. upto = [i \in 0 .. n |-> IF i = 0 THEN <<>> ELSE upto[i - 1] \o Start!Part(text[i])]
  BY <1>3
<1> HIDE DEF upto
<1>5. Appending(upto, n, F)
  <2>1. \A i \in 0 .. n : i # 0 => F[i] = Start!Part(text[i])
    BY <1>1
  <2> QED
    BY <1>4, <2>1 DEF Appending
<1> HIDE DEF F, n
<1>6. PICK from : Places(upto[n], n, F, from)
  BY <1>1, <1>5, AppendingPlaces
<1>7. upto[n] \in Seq(Nat)
  BY <1>1, <1>5, AppendingPlaces
<1>8. \A x : x \in Start!Listed(text) <=> \E i \in 1 .. n : \E j \in 1 .. Len(F[i]) : x = F[i][j]
  <2>1. Start!Listed(text) = UNION {{F[i][j] : j \in 1 .. Len(F[i])} : i \in 1 .. n}
    BY DEF Start!Listed, Start!RangeOf, F, n
  <2> DEFINE G(i) == {F[i][j] : j \in 1 .. Len(F[i])}
  <2>2. \A i \in 1 .. n : \A x : x \in G(i) <=> \E j \in 1 .. Len(F[i]) : x = F[i][j]
    OBVIOUS
  <2>3. Start!Listed(text) = UNION {G(i) : i \in 1 .. n}
    BY <2>1
  <2> HIDE DEF G
  <2>4. \A x : x \in Start!Listed(text) <=> \E i \in 1 .. n : x \in G(i)
    BY <2>3
  <2> QED
    BY <2>2, <2>4
<1>9. Start!Listed(text) = {upto[n][k] : k \in 1 .. Len(upto[n])}
  <2>1. ASSUME NEW k \in 1 .. Len(upto[n])
        PROVE  \E i \in 1 .. n : \E j \in 1 .. Len(F[i]) : upto[n][k] = F[i][j]
    <3>1. /\ from[k][1] \in 1 .. n /\ from[k][2] \in 1 .. Len(F[from[k][1]])
          /\ upto[n][k] = F[from[k][1]][from[k][2]]
      BY <1>6 DEF Places
    <3> QED
      BY <3>1, Zenon
  <2>2. ASSUME NEW i \in 1 .. n, NEW j \in 1 .. Len(F[i])
        PROVE  \E k \in 1 .. Len(upto[n]) : upto[n][k] = F[i][j]
    <3>1. PICK k \in 1 .. Len(upto[n]) : from[k] = <<i, j>>
      BY <1>6 DEF Places
    <3>2. upto[n][k] = F[from[k][1]][from[k][2]]
      BY <1>6 DEF Places
    <3> QED
      BY <3>1, <3>2
  <2>3. Start!Listed(text) \subseteq {upto[n][k] : k \in 1 .. Len(upto[n])}
    <3> SUFFICES ASSUME NEW x \in Start!Listed(text)
                 PROVE  \E k \in 1 .. Len(upto[n]) : x = upto[n][k]
      OBVIOUS
    <3>1. PICK i \in 1 .. n : \E j \in 1 .. Len(F[i]) : x = F[i][j]
      BY <1>8
    <3> QED
      BY <2>2, <3>1
  <2>4. ASSUME NEW k \in 1 .. Len(upto[n])  PROVE  upto[n][k] \in Start!Listed(text)
    <3>1. PICK i \in 1 .. n : \E j \in 1 .. Len(F[i]) : upto[n][k] = F[i][j]
      BY <2>1
    <3> QED
      BY <1>8, <3>1
  <2> QED
    BY <2>3, <2>4
<1> QED
  BY <1>2, <1>7, <1>9

LEMMA ListedOnce ==
  ASSUME NEW text \in Seq(Seq(Nat)), Start!WellFormedCpuset(text),
         Cardinality(Start!Listed(text)) = Len(Parsed(text))
  PROVE  \A k, l \in 1 .. Len(Parsed(text)) : Parsed(text)[k] = Parsed(text)[l] => k = l
<1> DEFINE s == Parsed(text)
           D == 1 .. Len(s)
           L == Start!Listed(text)
<1>1. s \in Seq(Nat) /\ Len(s) \in Nat /\ L = {s[k] : k \in D}
  BY ParsesListed
<1>2. Cardinality(L) = Len(s)
  OBVIOUS
<1> HIDE DEF s, L
<1>3. s \in [D -> L] /\ \A y \in L : \E k \in D : s[k] = y
  BY <1>1
<1>4. s \in Surjection(D, L)
  BY <1>3 DEF Surjection
<1>5. IsFiniteSet(D) /\ Cardinality(D) = Len(s)
  <2> DEFINE m == Len(s)
  <2>1. m \in Nat /\ m \in Int /\ 1 \in Int
    BY <1>1
  <2> HIDE DEF m
  <2>2. IsFiniteSet(1 .. m) /\ Cardinality(1 .. m) = IF 1 > m THEN 0 ELSE m - 1 + 1
    BY <2>1, FS_Interval
  <2>3. Cardinality(1 .. m) = m
    BY <2>1, <2>2
  <2> QED
    BY <2>2, <2>3 DEF m
<1>6. s \in Injection(D, L)
  BY <1>2, <1>4, <1>5, FS_Surjection
<1> QED
  BY <1>6 DEF Injection, IsInjective, s

-----------------------------------------------------------------------------
(***************************************************************************)
(* The processors are laid out by group: each has a number within its      *)
(* group, its place in the loop of CreateProcessor, and is bound by it.    *)
(***************************************************************************)
Bound(p, k) ==
  /\ p.group \in 1 .. Len(classic_conf)
  /\ p.cpus = Start!SetSchedAffinity(Parsed(classic_conf[p.group].cpuset),
                                     classic_conf[p.group].affinity, k)
LaidOut(number) ==
  /\ \A g \in 1 .. Len(classic_conf) : Start!WellFormedCpuset(classic_conf[g].cpuset)
  /\ \A i \in 1 .. Len(processors) : number[i] \in Nat /\ Bound(processors[i], number[i])
  /\ \A i, k \in 1 .. Len(processors) :
       processors[i].group = processors[k].group /\ number[i] = number[k] => i = k

PinInv ==
  /\ files \in [global : Contents, relative : Contents, absolute : Contents]
  /\ global_conf.scheduler_conf.default_proc_num \in Nat
  /\ TypedGroups(classic_conf)
  /\ made = 0 => processors = <<>>
  /\ processors # <<>> => \E number : LaidOut(number)

(* What SetSchedAffinity binds a thread to. *)
LEMMA BoundInside ==
  ASSUME NEW text \in Seq(Seq(Nat)), Start!WellFormedCpuset(text),
         NEW affinity, NEW k \in Nat
  PROVE  /\ Start!SetSchedAffinity(Parsed(text), affinity, k) \subseteq Start!Listed(text) \cup {Unset}
         /\ affinity = "1to1" =>
              \/ Start!SetSchedAffinity(Parsed(text), affinity, k) = {Unset}
              \/ /\ k + 1 \in 1 .. Len(Parsed(text))
                 /\ Start!SetSchedAffinity(Parsed(text), affinity, k) = {Parsed(text)[k + 1]}
<1> DEFINE s == Parsed(text)
           A == Start!SetSchedAffinity(s, affinity, k)
           Goal == /\ A \subseteq Start!Listed(text) \cup {Unset}
                   /\ affinity = "1to1" =>
                        A = {Unset} \/ (k + 1 \in 1 .. Len(s) /\ A = {s[k + 1]})
<1>1. Parsed(text) \in Seq(Nat) /\ Start!Listed(text) = {s[i] : i \in 1 .. Len(s)}
  BY ParsesListed
<1>2. Len(s) \in Nat
  BY <1>1
<1> SUFFICES Goal
  OBVIOUS
<1> HIDE DEF s
<1>3. CASE s = <<>>
  <2>1. A = {Unset}
    BY <1>3 DEF Start!SetSchedAffinity
  <2> QED
    BY <2>1
<1>4. CASE s # <<>> /\ affinity = "range"
  <2>1. A = Start!Listed(text)
    BY <1>1, <1>4 DEF Start!SetSchedAffinity, Start!RangeOf
  <2> QED
    BY <1>4, <2>1
<1>5. CASE s # <<>> /\ affinity = "1to1" /\ k < Len(s)
  <2>1. A = {s[k + 1]}
    BY <1>5 DEF Start!SetSchedAffinity
  <2>2. k + 1 \in 1 .. Len(s)
    BY <1>2, <1>5
  <2>3. s[k + 1] \in Start!Listed(text)
    BY <1>1, <2>2
  <2> QED
    BY <2>1, <2>2, <2>3
<1>6. CASE s # <<>> /\ affinity # "range" /\ ~(affinity = "1to1" /\ k < Len(s))
  <2>1. A = {Unset}
    BY <1>6 DEF Start!SetSchedAffinity
  <2> QED
    BY <2>1
<1> QED
  BY <1>3, <1>4, <1>5, <1>6

LEMMA LaidOutPinned ==
  ASSUME TypedGroups(classic_conf), NEW number, LaidOut(number)
  PROVE  Start!PinnedInside
<1> SUFFICES ASSUME NEW i \in 1 .. Len(processors), NEW k \in 1 .. Len(processors)
             PROVE  /\ Start!Inside(processors[i], classic_conf[processors[i].group])
                    /\ i # k => Start!Apart(processors[i], processors[k],
                                            classic_conf[processors[i].group])
  BY Zenon DEF Start!PinnedInside
<1> DEFINE p == processors[i]
           q == processors[k]
           g == classic_conf[p.group]
           text == g.cpuset
<1>1. /\ p.group \in 1 .. Len(classic_conf) /\ number[i] \in Nat /\ number[k] \in Nat
      /\ p.cpus = Start!SetSchedAffinity(Parsed(text), g.affinity, number[i])
      /\ p.group = q.group =>
           q.cpus = Start!SetSchedAffinity(Parsed(text), g.affinity, number[k])
  BY DEF LaidOut, Bound
<1>2. text \in Seq(Seq(Nat)) /\ Start!WellFormedCpuset(text)
  BY <1>1 DEF TypedGroups, LaidOut
<1>3. p.group = q.group /\ i # k => number[i] # number[k]
  BY DEF LaidOut
<1> HIDE DEF p, q, g, text
<1>4. p.cpus \subseteq Start!Listed(text) \cup {Unset}
  BY <1>1, <1>2, BoundInside
<1>5. ASSUME i # k, p.group = q.group, g.affinity = "1to1",
             Cardinality(Start!Listed(text)) = Len(Parsed(text))
      PROVE  p.cpus \cap q.cpus \subseteq {Unset}
  <2> DEFINE s == Parsed(text)
  <2>1. \/ p.cpus = {Unset}
        \/ number[i] + 1 \in 1 .. Len(s) /\ p.cpus = {s[number[i] + 1]}
    BY <1>1, <1>2, <1>5, BoundInside
  <2>2. \/ q.cpus = {Unset}
        \/ number[k] + 1 \in 1 .. Len(s) /\ q.cpus = {s[number[k] + 1]}
    BY <1>1, <1>2, <1>5, BoundInside
  <2>3. number[i] + 1 # number[k] + 1
    BY <1>1, <1>3, <1>5
  <2>4. \A m, l \in 1 .. Len(s) : s[m] = s[l] => m = l
    BY <1>2, <1>5, ListedOnce
  <2> HIDE DEF s
  <2> QED
    BY <2>1, <2>2, <2>3, <2>4
<1>6. Start!Inside(p, g)
  BY <1>4 DEF Start!Inside, text
<1>7. i # k => Start!Apart(p, q, g)
  BY <1>5, Zenon DEF Start!Apart, text, Parsed, Start!Cardinality, Cardinality
<1> QED
  BY <1>6, <1>7 DEF p, q, g

-----------------------------------------------------------------------------
(* The processors of group g, and of all groups, as CreateProcessor makes them. *)
ProcsOf(g) ==
  [i \in 1 .. classic_conf[g].processor_num |->
     [group |-> g,
      cpus |-> Start!SetSchedAffinity(Start!GroupCpus(g), classic_conf[g].affinity, i - 1),
      sched |-> Start!SetSchedPolicy(classic_conf[g].processor_policy,
                                     classic_conf[g].processor_prio)]]
AllProcs ==
  LET upto[g \in 0 .. Len(classic_conf)] ==
        IF g = 0 THEN <<>> ELSE upto[g - 1] \o ProcsOf(g)
  IN  upto[Len(classic_conf)]

LEMMA CreatesAll ==
  ASSUME NEW t, Start!CreateProcessor(t)
  PROVE  /\ conf_at[t] = "create" /\ made' = made + 1
         /\ UNCHANGED <<files, global_conf, classic_conf>>
         /\ \/ processors' = processors
            \/ /\ \A g \in 1 .. Len(classic_conf) :
                    Start!WellFormedCpuset(classic_conf[g].cpuset)
               /\ processors' = AllProcs
<1>1. /\ conf_at[t] = "create" /\ made' = made + 1
      /\ UNCHANGED <<files, global_conf, classic_conf>>
  BY DEF Start!CreateProcessor, Start!globalVars
<1>2. CASE {g \in 1 .. Len(classic_conf) :
              ~Start!WellFormedCpuset(classic_conf[g].cpuset)} # {}
  BY <1>1, <1>2, Zenon DEF Start!CreateProcessor
<1>3. CASE {g \in 1 .. Len(classic_conf) :
              ~Start!WellFormedCpuset(classic_conf[g].cpuset)} = {}
  <2>1. \A g \in 1 .. Len(classic_conf) : Start!WellFormedCpuset(classic_conf[g].cpuset)
    BY <1>3
  <2>2. processors' = AllProcs
    BY <1>3, Zenon DEF Start!CreateProcessor, AllProcs, ProcsOf
  <2> QED
    BY <1>1, <2>1, <2>2
<1> QED
  BY <1>2, <1>3

(* What CreateProcessor makes is laid out by group. *)
LEMMA CreatedLaidOut ==
  ASSUME TypedGroups(classic_conf), NEW t, Start!CreateProcessor(t),
         processors' # processors
  PROVE  \E number : LaidOut(number)'
<1> DEFINE n == Len(classic_conf)
           F == [g \in 1 .. n |-> ProcsOf(g)]
           upto == CHOOSE f : f = [g \in 0 .. Len(classic_conf) |->
                     IF g = 0 THEN <<>> ELSE f[g - 1] \o ProcsOf(g)]
           T == {F[g][i] : g \in 1 .. n, i \in Nat}
<1>1. ASSUME NEW g \in 1 .. n
      PROVE  /\ classic_conf[g].processor_num \in Nat
             /\ F[g] \in Seq(T) /\ Len(F[g]) = classic_conf[g].processor_num
  <2>1. classic_conf[g].processor_num \in Nat
    BY DEF TypedGroups
  <2> DEFINE m == classic_conf[g].processor_num
             q == F[g]
  <2>2. q = ProcsOf(g) /\ \A i \in 1 .. m : q[i] \in T
    BY <2>1
  <2>3. q = [i \in 1 .. m |-> q[i]]
    BY <2>2 DEF ProcsOf
  <2> HIDE DEF F, m, T, q
  <2>4. q \in [1 .. m -> T] /\ m \in Nat
    BY <2>1, <2>2, <2>3 DEF m
  <2>5. q \in Seq(T) /\ Len(q) = m
    BY <2>4
  <2> QED
    BY <2>1, <2>5 DEF m, q
<1>2. /\ n \in Nat /\ classic_conf' = classic_conf
      /\ \A g \in 1 .. n : Start!WellFormedCpuset(classic_conf[g].cpuset)
      /\ processors' = AllProcs
  BY CreatesAll DEF TypedGroups
<1>3. AllProcs = upto[n]
  BY DEF AllProcs
<1>4. \E f : f = [g \in 0 .. Len(classic_conf) |->
                  IF g = 0 THEN <<>> ELSE f[g - 1] \o ProcsOf(g)]
  <2>1. PICK f : Appending(f, n, F)
    BY <1>2, AppendingExists
  <2>2. \A g \in 0 .. n : g # 0 => F[g] = ProcsOf(g)
    BY <1>2
  <2>3. f = [g \in 0 .. n |-> IF g = 0 THEN <<>> ELSE f[g - 1] \o ProcsOf(g)]
    BY <2>1, <2>2 DEF Appending
  <2> QED
    BY <2>3
<1>5. upto = [g \in 0 .. n |-> IF g = 0 THEN <<>> ELSE upto[g - 1] \o ProcsOf(g)]
  BY <1>4
<1> HIDE DEF upto
<1>6. Appending(upto, n, F)
  <2>1. \A g \in 0 .. n : g # 0 => F[g] = ProcsOf(g)
    BY <1>2
  <2> QED
    BY <1>5, <2>1 DEF Appending
<1>7. \A g \in 1 .. n : F[g] = ProcsOf(g)
  OBVIOUS
<1> HIDE DEF F, n, T
<1>8. PICK from : Places(upto[n], n, F, from)
  BY <1>1, <1>2, <1>6, AppendingPlaces
<1> DEFINE number == [i \in 1 .. Len(upto[n]) |-> from[i][2] - 1]
<1>9. ASSUME NEW i \in 1 .. Len(upto[n])
      PROVE  /\ number[i] \in Nat /\ from[i] = <<upto[n][i].group, number[i] + 1>>
             /\ upto[n][i].group \in 1 .. n
             /\ upto[n][i].cpus =
                  Start!SetSchedAffinity(Parsed(classic_conf[upto[n][i].group].cpuset),
                                         classic_conf[upto[n][i].group].affinity, number[i])
  <2> DEFINE g == from[i][1]
             j == from[i][2]
  <2>1. /\ from[i] = <<g, j>> /\ g \in 1 .. n /\ j \in 1 .. Len(F[g])
        /\ upto[n][i] = F[g][j]
    BY <1>8 DEF Places
  <2> HIDE DEF g, j
  <2>2. j \in 1 .. classic_conf[g].processor_num /\ j \in Nat \ {0}
    BY <1>1, <2>1
  <2>3. upto[n][i] = [group |-> g,
          cpus |-> Start!SetSchedAffinity(Start!GroupCpus(g), classic_conf[g].affinity, j - 1),
          sched |-> Start!SetSchedPolicy(classic_conf[g].processor_policy,
                                         classic_conf[g].processor_prio)]
    BY <1>7, <2>1, <2>2 DEF ProcsOf
  <2>4. number[i] = j - 1
    BY DEF j
  <2>5. Start!GroupCpus(g) = Parsed(classic_conf[g].cpuset)
    BY DEF Start!GroupCpus, Parsed
  <2>6. upto[n][i].group = g
    BY <2>3
  <2>7. upto[n][i].cpus = Start!SetSchedAffinity(Parsed(classic_conf[g].cpuset),
                                                 classic_conf[g].affinity, j - 1)
    BY <2>3, <2>5
  <2>8. j - 1 \in Nat /\ j - 1 + 1 = j
    BY <2>2
  <2> HIDE DEF number
  <2> QED
    BY <2>1, <2>4, <2>6, <2>7, <2>8
<1>10. \A i, k \in 1 .. Len(upto[n]) : from[i] = from[k] => i = k
  BY <1>8 DEF Places
<1> HIDE DEF number
<1>11. \A i, k \in 1 .. Len(upto[n]) :
         upto[n][i].group = upto[n][k].group /\ number[i] = number[k] => i = k
  <2> SUFFICES ASSUME NEW i \in 1 .. Len(upto[n]), NEW k \in 1 .. Len(upto[n]),
                      upto[n][i].group = upto[n][k].group, number[i] = number[k]
               PROVE  i = k
    OBVIOUS
  <2>1. /\ from[i] = <<upto[n][i].group, number[i] + 1>>
        /\ from[k] = <<upto[n][k].group, number[k] + 1>>
    BY <1>9
  <2> QED
    BY <1>10, <2>1
<1>12. processors' = upto[n] /\ n = Len(classic_conf')
  BY <1>2, <1>3 DEF n
<1>13. PICK num : num = number
  OBVIOUS
<1>14. LaidOut(num)'
  BY <1>2, <1>9, <1>11, <1>12, <1>13 DEF LaidOut, Bound, n
<1> QED
  BY <1>14

-----------------------------------------------------------------------------
LEMMA PinStart ==
  Start!ConfigInit => PinInv
<1> SUFFICES ASSUME Start!ConfigInit  PROVE  PinInv
  OBVIOUS
<1>1. Start!NoRcmwConfig.scheduler_conf.default_proc_num \in Nat
  BY DEF Start!NoRcmwConfig, Start!NoSchedulerConf
<1>2. TypedGroups(<<>>)
  BY DEF TypedGroups
<1> QED
  BY <1>1, <1>2 DEF Start!ConfigInit, PinInv

(* Nobody has made processors while a thread constructs. *)
LEMMA ConstructsFirst ==
  ASSUME FactoryInv, NEW t \in Threads, conf_at[t] \in {"construct", "create"},
         outcome = "runs"
  PROVE  made = 0
BY DEF FactoryInv, InFactory

(* What does not touch the configuration keeps the invariant. *)
LEMMA PinStutter ==
  ASSUME PinInv, UNCHANGED <<files, global_conf, classic_conf, made, processors>>
  PROVE  PinInv'
BY DEF PinInv, LaidOut, Bound

LEMMA PinRcmwInit ==
  ASSUME PinInv, Start!RcmwInit
  PROVE  PinInv'
<1>1. UNCHANGED <<files, classic_conf, made, processors>>
  BY DEF Start!RcmwInit, Start!factoryVars, Start!schedVars
<1>2. \/ global_conf' = Start!NoRcmwConfig \/ global_conf' = global_conf
      \/ files.global # Absent /\ global_conf' \in Start!GetRcmwConfFromFile(files.global)
  BY DEF Start!RcmwInit, Start!InitConfig
<1>3. Start!NoRcmwConfig.scheduler_conf.default_proc_num \in Nat
  BY DEF Start!NoRcmwConfig, Start!NoSchedulerConf
<1>4. files.global \in Contents
  BY DEF PinInv
<1>5. global_conf'.scheduler_conf.default_proc_num \in Nat
  BY <1>2, <1>3, <1>4, ConfigTypes DEF PinInv
<1> QED
  BY <1>1, <1>5 DEF PinInv, LaidOut, Bound

LEMMA PinConstruct ==
  ASSUME FactoryInv, PinInv, NEW t \in Threads,
         Start!ConstructFromFile(t) \/ Start!ConstructDefault(t)
  PROVE  PinInv'
<1>1. outcome = "runs" /\ conf_at[t] = "construct"
  BY DEF Start!ConstructFromFile, Start!ConstructDefault
<1>2. processors = <<>>
  BY <1>1, ConstructsFirst DEF PinInv
<1>3. UNCHANGED <<files, global_conf, made, processors>>
  BY DEF Start!ConstructFromFile, Start!ConstructDefault, Start!globalVars, Start!schedVars
<1>4. TypedGroups(classic_conf')
  <2>1. CASE Start!ConstructFromFile(t)
    <3> DEFINE file == Start!GroupFile("absolute")
    <3>1. /\ file # Absent
          /\ \/ classic_conf' = classic_conf
             \/ \E c \in Start!GetRcmwConfFromFile(file) :
                  classic_conf' = c.scheduler_conf.classic_conf.groups
      BY <2>1 DEF Start!ConstructFromFile, Start!schedVars
    <3>2. file \in Contents
      BY <3>1 DEF Start!GroupFile, PinInv
    <3> HIDE DEF file
    <3> QED
      BY <3>1, <3>2, ConfigTypes DEF PinInv
  <2>2. CASE Start!ConstructDefault(t)
    <3> DEFINE n == global_conf.scheduler_conf.default_proc_num
               num == IF n # 0 THEN n ELSE 2
    <3>1. num \in Nat
      BY DEF PinInv
    <3>2. classic_conf' = <<[name |-> "default_grp", processor_num |-> num,
                             affinity |-> "", cpuset |-> <<>>,
                             processor_policy |-> "", processor_prio |-> 0,
                             tasks |-> <<>>]>>
      BY <2>2 DEF Start!ConstructDefault
    <3> HIDE DEF num
    <3>3. /\ Len(classic_conf') = 1 /\ classic_conf'[1].processor_num = num
          /\ classic_conf'[1].cpuset = <<>>
      BY <3>2
    <3>4. PICK groups : groups = classic_conf'
      OBVIOUS
    <3>5. Len(groups) = 1 /\ groups[1].processor_num = num /\ groups[1].cpuset = <<>>
      BY <3>3, <3>4
    <3>6. \A g \in 1 .. Len(groups) : g = 1
      BY <3>5
    <3>7. <<>> \in Seq(Seq(Nat))
      OBVIOUS
    <3>8. TypedGroups(groups)
      <4>1. ASSUME NEW g \in 1 .. Len(groups)
            PROVE  groups[g].processor_num \in Nat /\ groups[g].cpuset \in Seq(Seq(Nat))
        <5>1. g = 1
          BY <3>6, Zenon
        <5> QED
          BY <3>1, <3>5, <3>7, <5>1, Zenon
      <4>2. Len(groups) \in Nat
        BY <3>5
      <4> QED
        BY <4>1, <4>2 DEF TypedGroups
    <3> QED
      BY <3>4, <3>8
  <2> QED
    BY <2>1, <2>2
<1> QED
  BY <1>2, <1>3, <1>4 DEF PinInv

LEMMA PinCreate ==
  ASSUME FactoryInv, PinInv, NEW t \in Threads, Start!CreateProcessor(t)
  PROVE  PinInv'
<1>1. outcome = "runs"
  BY DEF Start!CreateProcessor
<1>2. made = 0 /\ processors = <<>> /\ made' # 0
  BY <1>1, CreatesAll, ConstructsFirst DEF PinInv
<1>3. processors' # <<>> => \E number : LaidOut(number)'
  BY <1>2, CreatedLaidOut DEF PinInv
<1> QED
  BY <1>2, <1>3, CreatesAll DEF PinInv

LEMMA PinStep ==
  FactoryInv /\ PinInv /\ [Start!ConfigNext]_Start!configVars => PinInv'
<1> SUFFICES ASSUME FactoryInv, PinInv, [Start!ConfigNext]_Start!configVars
             PROVE  PinInv'
  OBVIOUS
<1>1. ASSUME NEW g \in Groups, Start!SetProcessGroup(g)  PROVE  PinInv'
  BY <1>1, PinStutter DEF Start!SetProcessGroup, Start!factoryVars, Start!schedVars
<1>2. ASSUME NEW t \in Threads,
             \/ Start!InstanceLoad(t) \/ Start!InstanceLock(t)
             \/ Start!InstancePolicy(t) \/ Start!InstanceStore(t)
      PROVE  PinInv'
  BY <1>2, PinStutter
     DEF Start!InstanceLoad, Start!InstanceLock, Start!InstancePolicy, Start!InstanceStore,
         Start!globalVars, Start!schedVars
<1>3. ASSUME NEW t \in Threads, NEW c \in inner_thr_confs, Start!SetInnerThreadAttr(t, c)
      PROVE  PinInv'
  BY <1>3, PinStutter DEF Start!SetInnerThreadAttr, Start!globalVars, Start!factoryVars
<1>4. CASE UNCHANGED Start!configVars
  BY <1>4, PinStutter DEF Start!configVars, Start!globalVars, Start!factoryVars, Start!schedVars
<1> QED
  BY <1>1, <1>2, <1>3, <1>4, PinRcmwInit, PinConstruct, PinCreate DEF Start!ConfigNext

(***************************************************************************)
(* Threads that ask for the scheduler first construct one and all get it,  *)
(* and its processor threads are bound inside the cpus of their own group, *)
(* those of a 1to1 group to different ones, for any number of threads and  *)
(* any configuration file: any groups, cpusets and numbers of processors,  *)
(* more than there are cpus included.                                      *)
(***************************************************************************)
THEOREM SchedulerIsConfigured == Start!ConfigSpec => []SchedulerConfigured
<1>1. FactoryInv /\ PinInv => SchedulerConfigured
  <2> SUFFICES ASSUME FactoryInv, PinInv
               PROVE  Start!OneScheduler /\ Start!PinnedInside
    BY DEF SchedulerConfigured
  <2>1. Start!OneScheduler
    BY DEF FactoryInv, Start!OneScheduler
  <2>2. CASE processors = <<>>
    BY <2>1, <2>2 DEF Start!PinnedInside
  <2>3. CASE processors # <<>>
    BY <2>1, <2>3, LaidOutPinned DEF PinInv
  <2> QED
    BY <2>2, <2>3
<1> QED
  BY <1>1, PinStart, PinStep, FactoryInvariant, PTL DEF Start!ConfigSpec

-----------------------------------------------------------------------------
(***************************************************************************)
(* The node graph (NodeGraph).                                             *)
(***************************************************************************)

(* The edges that leave n. *)
Out(n) == {e \in list : e[1] = n}

(* The edges of n, each once, in some order. *)
LEMMA EdgesListed ==
  ASSUME NEW n, IsFiniteSet(Out(n))
  PROVE  LET s == Flow!SetToSeq(Out(n))
         IN  /\ Cardinality(Out(n)) \in Nat
             /\ s \in [1 .. Cardinality(Out(n)) -> Out(n)]
             /\ \A e \in Out(n) : \E i \in 1 .. Cardinality(Out(n)) : s[i] = e
<1> DEFINE X == Out(n)
           m == Cardinality(X)
<1> HIDE DEF X
<1>0. IsFiniteSet(X)
  BY DEF X
<1>1. m \in Nat /\ ExistsBijection(1 .. m, X)
  BY <1>0, FS_CardinalityType
<1>2. PICK g : g \in Bijection(1 .. m, X)
  BY <1>1, Zenon DEF ExistsBijection
<1>3. g \in [1 .. m -> X] /\ Flow!IsInjective(g)
  BY <1>2, Zenon DEF Bijection, Injection, IsInjective, Flow!IsInjective
<1> DEFINE s == Flow!SetToSeq(X)
<1>4. s = CHOOSE f \in [1 .. m -> X] : Flow!IsInjective(f)
  BY Zenon DEF Flow!SetToSeq, Flow!Cardinality, Cardinality
<1>5. s \in [1 .. m -> X] /\ Flow!IsInjective(s)
  BY <1>3, <1>4, Zenon
<1>6. s \in Injection(1 .. m, X)
  BY <1>5, Zenon DEF Injection, IsInjective, Flow!IsInjective
<1>7. IsFiniteSet(1 .. m) /\ Cardinality(1 .. m) = m
  <2>1. IsFiniteSet(1 .. m) /\ Cardinality(1 .. m) = IF 1 > m THEN 0 ELSE m - 1 + 1
    BY <1>1, FS_Interval
  <2> HIDE DEF m
  <2> QED
    BY <1>1, <2>1
<1>8. s \in Surjection(1 .. m, X)
  BY <1>0, <1>6, <1>7, FS_Injection
<1>9. \A e \in X : \E i \in 1 .. m : s[i] = e
  BY <1>8, Zenon DEF Surjection
<1> QED
  BY <1>1, <1>5, <1>9 DEF X

(* What Destinations queues for n. *)
LEMMA DestinationsOf ==
  ASSUME NEW N, IsFiniteSet(list), \A e \in list : e[3] \in N, NEW n
  PROVE  LET d == Flow!Destinations(n)
         IN  /\ d \in Seq(N) /\ Len(d) = Cardinality(Out(n)) /\ Len(d) \in Nat
             /\ \A i \in 1 .. Len(d) : \E e \in Out(n) : d[i] = e[3]
             /\ \A e \in Out(n) : \E i \in 1 .. Len(d) : d[i] = e[3]
<1>1. IsFiniteSet(Out(n))
  <2>1. Out(n) \in SUBSET list
    BY DEF Out
  <2> QED
    BY <2>1, FS_Subset
<1> DEFINE out == Flow!SetToSeq(Out(n))
           m == Cardinality(Out(n))
           d == Flow!Destinations(n)
<1>2. /\ m \in Nat /\ out \in [1 .. m -> Out(n)]
      /\ \A e \in Out(n) : \E i \in 1 .. m : out[i] = e
  BY <1>1, EdgesListed
<1>3. d = [i \in 1 .. Len(out) |-> out[i][3]]
  BY DEF Flow!Destinations, Out
<1> HIDE DEF out, m, d
<1>4. Len(out) = m
  BY <1>2
<1>5. \A i \in 1 .. m : out[i] \in Out(n) /\ out[i][3] \in N
  BY <1>2 DEF Out
<1>6. d \in Seq(N) /\ Len(d) = m
  BY <1>2, <1>3, <1>4, <1>5
<1>7. \A i \in 1 .. m : d[i] = out[i][3]
  BY <1>3, <1>4
<1>8. \A i \in 1 .. m : \E e \in Out(n) : d[i] = e[3]
  BY <1>5, <1>7
<1>9. \A e \in Out(n) : \E i \in 1 .. m : d[i] = e[3]
  BY <1>2, <1>7
<1> QED
  BY <1>2, <1>6, <1>8, <1>9 DEF d, m

(* The turns of LevelTraverse. *)
Started(start) == [unvisited |-> <<start>>, visited |-> {}]
Turning(f, n, start, end) ==
  f = [k \in 0 .. n |-> IF k = 0 THEN Started(start) ELSE Flow!Turn(f[k - 1], end)]

LEMMA TurningExists ==
  ASSUME NEW n \in Nat, NEW start, NEW end
  PROVE  \E f : Turning(f, n, start, end)
<1> DEFINE S == {m \in Nat : \E f : Turning(f, m, start, end)}
<1>1. 0 \in S
  <2>1. Turning([k \in 0 .. 0 |-> Started(start)], 0, start, end)
    BY DEF Turning
  <2> QED
    BY <2>1
<1>2. ASSUME NEW m \in S  PROVE  m + 1 \in S
  <2>1. PICK f : Turning(f, m, start, end)
    OBVIOUS
  <2> DEFINE g == [k \in 0 .. m + 1 |-> IF k <= m THEN f[k] ELSE Flow!Turn(f[m], end)]
  <2>2. f = [k \in 0 .. m |-> IF k = 0 THEN Started(start) ELSE Flow!Turn(f[k - 1], end)]
    BY <2>1 DEF Turning
  <2>3. ASSUME NEW k \in 0 .. m + 1
        PROVE  g[k] = IF k = 0 THEN Started(start) ELSE Flow!Turn(g[k - 1], end)
    <3>1. CASE k <= m /\ k # 0
      <4>1. k \in 0 .. m /\ k - 1 \in 0 .. m + 1 /\ k - 1 <= m
        BY <3>1
      <4> QED
        BY <2>2, <3>1, <4>1
    <3>2. CASE k = 0
      <4>1. f[0] = Started(start)
        BY <2>2
      <4> QED
        BY <3>2, <4>1
    <3>3. CASE k = m + 1
      BY <3>3
    <3> QED
      BY <3>1, <3>2, <3>3
  <2>4. Turning(g, m + 1, start, end)
    BY <2>3 DEF Turning
  <2> QED
    BY <2>4
<1> HIDE DEF S
<1>3. S = Nat
  <2>1. S \in SUBSET Nat
    BY DEF S
  <2> QED
    BY <1>1, <1>2, <2>1, NatInduct
<1> QED
  BY <1>3 DEF S

LEMMA TraverseTurns ==
  ASSUME NEW start, NEW end, IsFiniteSet(list)
  PROVE  \E f : /\ Turning(f, Cardinality(list) + 1, start, end)
                /\ Flow!LevelTraverse(start, end) <=> end \in f[Cardinality(list) + 1].visited
<1> DEFINE turns == Cardinality(list) + 1
           F(f) == f = [k \in 0 .. turns |->
                          IF k = 0 THEN [unvisited |-> <<start>>, visited |-> {}]
                          ELSE Flow!Turn(f[k - 1], end)]
           loop == CHOOSE f : F(f)
<1>1. turns \in Nat
  BY FS_CardinalityType
<1>2. \E f : F(f)
  <2>1. PICK f : Turning(f, turns, start, end)
    BY <1>1, TurningExists
  <2>2. F(f)
    BY <2>1, Zenon DEF Turning, Started
  <2> QED
    BY <2>2, Zenon
<1>3. F(loop)
  BY <1>2, Zenon
<1>4. Flow!LevelTraverse(start, end) <=> end \in loop[turns].visited
  BY Zenon DEF Flow!LevelTraverse, Flow!Cardinality, Cardinality
<1> QED
  BY <1>3, <1>4, Zenon DEF Turning, Started

(***************************************************************************)
(* Breadth first search after k turns: u is queued and v visited.  No more *)
(* is queued than start and the ends of the edges of visited nodes; only   *)
(* nodes that can be reached are queued or visited; and unless end was     *)
(* found, what can be reached from a visited node in one step is as well.  *)
(***************************************************************************)
Queued(u) == {u[i] : i \in 1 .. Len(u)}
EdgesOf(v) == {e \in list : e[1] \in v}
Closed(S) == \A e \in list : e[1] \in S => e[3] \in S

TurnsLeft(k, u, v, end) ==
  end \in v \/ u = <<>> \/ k + Len(u) <= 1 + Cardinality(EdgesOf(v))
Reachable(u, v, start) == \A S : Closed(S) /\ start \in S => v \cup Queued(u) \subseteq S
Gathered(u, v, start, end) ==
  \/ end \in v
  \/ start \in v \cup Queued(u) /\ \A e \in EdgesOf(v) : e[3] \in v \cup Queued(u)

SearchInv(N, k, s, start, end) ==
  /\ s = [unvisited |-> s.unvisited, visited |-> s.visited]
  /\ s.unvisited \in Seq(N) /\ s.visited \in SUBSET N
  /\ TurnsLeft(k, s.unvisited, s.visited, end)
  /\ Reachable(s.unvisited, s.visited, start)
  /\ Gathered(s.unvisited, s.visited, start, end)

(* The queue without its head. *)
LEMMA QueuedTail ==
  ASSUME NEW N, NEW u \in Seq(N), u # <<>>
  PROVE  /\ Tail(u) \in Seq(N) /\ Head(u) \in N
         /\ Len(Tail(u)) = Len(u) - 1 /\ Len(u) \in Nat \ {0}
         /\ Queued(u) = {Head(u)} \cup Queued(Tail(u))
<1>1. /\ Head(u) \in N /\ Tail(u) \in Seq(N) /\ Len(Tail(u)) = Len(u) - 1
      /\ \A i \in 1 .. Len(Tail(u)) : Tail(u)[i] = u[i + 1]
      /\ Len(u) \in Nat \ {0} /\ Head(u) = u[1]
  BY HeadTailProperties, EmptySeq
<1> DEFINE t == Tail(u)
           n == Len(u)
<1>2. n \in Nat \ {0} /\ Len(t) = n - 1 /\ \A i \in 1 .. n - 1 : t[i] = u[i + 1]
  BY <1>1
<1> HIDE DEF t, n
<1>3. {u[i] : i \in 1 .. n} = {u[1]} \cup {t[i] : i \in 1 .. n - 1}
  <2>1. ASSUME NEW i \in 1 .. n, i # 1
        PROVE  \E j \in 1 .. n - 1 : u[i] = t[j]
    <3>1. i - 1 \in 1 .. n - 1 /\ i - 1 + 1 = i
      BY <1>2, <2>1
    <3> QED
      BY <1>2, <3>1
  <2>2. ASSUME NEW j \in 1 .. n - 1
        PROVE  \E i \in 1 .. n : u[i] = t[j]
    <3>1. j + 1 \in 1 .. n
      BY <1>2
    <3> QED
      BY <1>2, <3>1
  <2>3. 1 \in 1 .. n
    BY <1>2
  <2> QED
    BY <2>1, <2>2, <2>3
<1> QED
  BY <1>1, <1>2, <1>3 DEF Queued, t, n

(* The queue with another behind it. *)
LEMMA QueuedConcat ==
  ASSUME NEW N, NEW u \in Seq(N), NEW d \in Seq(N)
  PROVE  /\ u \o d \in Seq(N) /\ Len(u \o d) = Len(u) + Len(d)
         /\ Queued(u \o d) = Queued(u) \cup Queued(d)
<1> DEFINE w == u \o d
           m == Len(u)
           n == Len(d)
<1>1. /\ w \in Seq(N) /\ Len(w) = m + n /\ m \in Nat /\ n \in Nat
      /\ \A i \in 1 .. m + n : w[i] = IF i <= m THEN u[i] ELSE d[i - m]
  BY ConcatProperties
<1> HIDE DEF w, m, n
<1>2. {w[i] : i \in 1 .. m + n} = {u[i] : i \in 1 .. m} \cup {d[i] : i \in 1 .. n}
  <2>1. ASSUME NEW i \in 1 .. m + n
        PROVE  (\E j \in 1 .. m : w[i] = u[j]) \/ (\E j \in 1 .. n : w[i] = d[j])
    <3>1. CASE i <= m
      BY <1>1, <3>1
    <3>2. CASE ~ (i <= m)
      <4>1. i - m \in 1 .. n /\ w[i] = d[i - m]
        BY <1>1, <3>2
      <4> QED
        BY <4>1
    <3> QED
      BY <3>1, <3>2
  <2>2. ASSUME NEW j \in 1 .. m
        PROVE  \E i \in 1 .. m + n : w[i] = u[j]
    <3>1. j \in 1 .. m + n /\ w[j] = u[j]
      BY <1>1
    <3> QED
      BY <3>1
  <2>3. ASSUME NEW j \in 1 .. n
        PROVE  \E i \in 1 .. m + n : w[i] = d[j]
    <3> DEFINE i == m + j
    <3>1. i \in 1 .. m + n /\ ~ (i <= m) /\ i - m = j
      BY <1>1
    <3> HIDE DEF i
    <3> QED
      BY <1>1, <3>1
  <2>4. \A x : x \in {w[i] : i \in 1 .. m + n}
                => x \in {u[i] : i \in 1 .. m} \cup {d[i] : i \in 1 .. n}
    BY <2>1
  <2>5. \A x \in {u[i] : i \in 1 .. m} : x \in {w[i] : i \in 1 .. m + n}
    BY <2>2
  <2>6. \A x \in {d[i] : i \in 1 .. n} : x \in {w[i] : i \in 1 .. m + n}
    BY <2>3
  <2> QED
    BY <2>4, <2>5, <2>6, Zenon
<1> QED
  BY <1>1, <1>2 DEF Queued, w, m, n

(* A new node adds its own edges. *)
LEMMA EdgesAdded ==
  ASSUME NEW v, NEW n, n \notin v, IsFiniteSet(list)
  PROVE  /\ Cardinality(EdgesOf(v)) \in Nat /\ Cardinality(Out(n)) \in Nat
         /\ EdgesOf(v \cup {n}) = EdgesOf(v) \cup Out(n)
         /\ Cardinality(EdgesOf(v \cup {n})) = Cardinality(EdgesOf(v)) + Cardinality(Out(n))
<1>1. EdgesOf(v) \in SUBSET list /\ Out(n) \in SUBSET list
  BY DEF EdgesOf, Out
<1>2. IsFiniteSet(EdgesOf(v)) /\ IsFiniteSet(Out(n))
  BY <1>1, FS_Subset
<1>3. EdgesOf(v) \cap Out(n) = {} /\ EdgesOf(v \cup {n}) = EdgesOf(v) \cup Out(n)
  BY DEF EdgesOf, Out
<1>4. Cardinality({}) = 0
  BY FS_EmptySet
<1>5. Cardinality(EdgesOf(v)) \in Nat /\ Cardinality(Out(n)) \in Nat
  BY <1>2, FS_CardinalityType
<1>6. Cardinality(EdgesOf(v) \cup Out(n))
        = Cardinality(EdgesOf(v)) + Cardinality(Out(n)) - Cardinality(EdgesOf(v) \cap Out(n))
  BY <1>2, FS_Union
<1>7. /\ Cardinality(EdgesOf(v) \cap Out(n)) = 0
      /\ Cardinality(EdgesOf(v \cup {n})) = Cardinality(EdgesOf(v) \cup Out(n))
  BY <1>3, <1>4, Zenon
<1>8. Cardinality(EdgesOf(v \cup {n})) = Cardinality(EdgesOf(v)) + Cardinality(Out(n))
  BY <1>5, <1>6, <1>7
<1> QED
  BY <1>3, <1>5, <1>8, Zenon

(* A turn of the loop keeps the invariant. *)
LEMMA SearchTurn ==
  ASSUME NEW N, NEW start \in N, NEW end \in N, IsFiniteSet(list),
         \A e \in list : e[1] \in N /\ e[3] \in N,
         NEW k \in Nat, NEW s, SearchInv(N, k, s, start, end)
  PROVE  SearchInv(N, k + 1, Flow!Turn(s, end), start, end)
<1> DEFINE u == s.unvisited
           v == s.visited
           curr == Head(u)
           t == Flow!Turn(s, end)
<1>1. /\ s = [unvisited |-> u, visited |-> v] /\ u \in Seq(N) /\ v \in SUBSET N
      /\ TurnsLeft(k, u, v, end) /\ Reachable(u, v, start) /\ Gathered(u, v, start, end)
  BY Zenon DEF SearchInv
<1>2. CASE u = <<>> \/ end \in v
  <2>1. t = s
    BY <1>2, Zenon DEF Flow!Turn
  <2>2. TurnsLeft(k + 1, u, v, end)
    BY <1>2, Zenon DEF TurnsLeft
  <2> QED
    BY <1>1, <2>1, <2>2, Zenon DEF SearchInv
<1>3. CASE ~ (u = <<>> \/ end \in v) /\ curr \in v
  <2>1. t = [s EXCEPT !.unvisited = Tail(u)]
    BY <1>3, Zenon DEF Flow!Turn
  <2> HIDE DEF t
  <2>2. t = [unvisited |-> Tail(u), visited |-> v]
    <3> HIDE DEF u, v
    <3> QED
      BY <1>1, <2>1
  <2> HIDE DEF u, v
  <2>3. /\ Tail(u) \in Seq(N) /\ Len(Tail(u)) = Len(u) - 1 /\ Len(u) \in Nat \ {0}
        /\ Queued(u) = {curr} \cup Queued(Tail(u))
    BY <1>1, <1>3, QueuedTail
  <2>4. Cardinality(EdgesOf(v)) \in Nat
    <3>1. EdgesOf(v) \in SUBSET list
      BY DEF EdgesOf
    <3> QED
      BY <3>1, FS_Subset, FS_CardinalityType
  <2>5. TurnsLeft(k + 1, Tail(u), v, end)
    BY <1>1, <1>3, <2>3, <2>4 DEF TurnsLeft
  <2>6. v \cup Queued(Tail(u)) = v \cup Queued(u)
    BY <1>3, <2>3
  <2>7. Reachable(Tail(u), v, start) /\ Gathered(Tail(u), v, start, end)
    BY <1>1, <2>6, Zenon DEF Reachable, Gathered
  <2>8. t.unvisited = Tail(u) /\ t.visited = v
    BY <2>2
  <2> QED
    BY <1>1, <2>2, <2>3, <2>5, <2>7, <2>8, Zenon DEF SearchInv, t
<1>4. CASE ~ (u = <<>> \/ end \in v) /\ curr \notin v
  <2> DEFINE d == Flow!Destinations(curr)
             x == IF curr = end THEN Tail(u) ELSE Tail(u) \o d
             y == v \cup {curr}
  <2>1. t = [unvisited |-> x, visited |-> y]
    BY <1>4, Zenon DEF Flow!Turn
  <2> HIDE DEF t, u, v
  <2>2. /\ Tail(u) \in Seq(N) /\ curr \in N
        /\ Len(Tail(u)) = Len(u) - 1 /\ Len(u) \in Nat \ {0}
        /\ Queued(u) = {curr} \cup Queued(Tail(u))
    BY <1>1, <1>4, QueuedTail
  <2>3. /\ d \in Seq(N) /\ Len(d) = Cardinality(Out(curr)) /\ Len(d) \in Nat
        /\ \A i \in 1 .. Len(d) : \E e \in Out(curr) : d[i] = e[3]
        /\ \A e \in Out(curr) : \E i \in 1 .. Len(d) : d[i] = e[3]
    BY DestinationsOf
  <2> HIDE DEF d
  <2>4. Queued(d) = {e[3] : e \in Out(curr)}
    BY <2>3 DEF Queued
  <2>5. /\ Tail(u) \o d \in Seq(N) /\ Len(Tail(u) \o d) = Len(u) - 1 + Len(d)
        /\ Queued(Tail(u) \o d) = Queued(Tail(u)) \cup Queued(d)
    <3> DEFINE q == Tail(u)
    <3>1. q \in Seq(N) /\ d \in Seq(N) /\ Len(q) = Len(u) - 1
      BY <2>2, <2>3
    <3> HIDE DEF q
    <3>2. /\ q \o d \in Seq(N) /\ Len(q \o d) = Len(q) + Len(d)
          /\ Queued(q \o d) = Queued(q) \cup Queued(d)
      BY <3>1, QueuedConcat
    <3> QED
      BY <3>1, <3>2 DEF q
  <2>6. /\ Cardinality(EdgesOf(v)) \in Nat
        /\ EdgesOf(y) = EdgesOf(v) \cup Out(curr)
        /\ Cardinality(EdgesOf(y)) = Cardinality(EdgesOf(v)) + Cardinality(Out(curr))
    BY <1>4, EdgesAdded
  <2> HIDE DEF curr
  <2>7. x \in Seq(N) /\ y \in SUBSET N
    BY <1>1, <2>2, <2>5
  <2>8. Reachable(x, y, start)
    <3> SUFFICES ASSUME NEW S, Closed(S), start \in S
                 PROVE  y \cup Queued(x) \subseteq S
      BY DEF Reachable
    <3>1. v \cup Queued(u) \subseteq S
      BY <1>1 DEF Reachable
    <3>2. curr \in S /\ Queued(Tail(u)) \subseteq S
      BY <2>2, <3>1
    <3>3. Queued(d) \subseteq S
      BY <2>4, <3>2 DEF Out, Closed
    <3>4. Queued(x) \subseteq S
      BY <2>5, <3>2, <3>3
    <3> QED
      BY <3>1, <3>2, <3>4
  <2>9. TurnsLeft(k + 1, x, y, end) /\ Gathered(x, y, start, end)
    <3>1. CASE curr = end
      BY <3>1 DEF TurnsLeft, Gathered
    <3>2. CASE curr # end
      <4>1. x = Tail(u) \o d
        BY <3>2
      <4> HIDE DEF x, y
      <4>2. k + Len(u) <= 1 + Cardinality(EdgesOf(v))
        BY <1>1, <1>4 DEF TurnsLeft
      <4>3. Len(x) = Len(u) - 1 + Len(d)
        BY <2>5, <4>1
      <4>4. k + 1 + Len(x) <= 1 + Cardinality(EdgesOf(y))
        BY <2>2, <2>3, <2>6, <4>2, <4>3
      <4>5. Queued(x) = Queued(Tail(u)) \cup Queued(d)
        BY <2>5, <4>1
      <4>6. v \cup Queued(u) \subseteq y \cup Queued(x)
        BY <2>2, <4>5 DEF y
      <4>7. \A e \in EdgesOf(y) : e[3] \in y \cup Queued(x)
        BY <1>1, <1>4, <2>4, <2>6, <4>5, <4>6 DEF Gathered
      <4>8. start \in y \cup Queued(x)
        BY <1>1, <1>4, <4>6 DEF Gathered
      <4> QED
        BY <4>4, <4>7, <4>8 DEF TurnsLeft, Gathered
    <3> QED
      BY <3>1, <3>2
  <2> HIDE DEF x, y
  <2>10. t.unvisited = x /\ t.visited = y
    BY <2>1
  <2> QED
    BY <2>1, <2>7, <2>8, <2>9, <2>10, Zenon DEF SearchInv, t
<1> QED
  BY <1>2, <1>3, <1>4

(* LevelTraverse finds end exactly if edges lead to it from start. *)
LEMMA TraverseExact ==
  ASSUME NEW N, NEW start \in N, NEW end \in N, IsFiniteSet(list),
         \A e \in list : e[1] \in N /\ e[3] \in N
  PROVE  Flow!LevelTraverse(start, end)
           <=> \A S \in SUBSET N : start \in S /\ Closed(S) => end \in S
<1> DEFINE n == Cardinality(list) + 1
<1>1. PICK f : /\ Turning(f, n, start, end)
               /\ Flow!LevelTraverse(start, end) <=> end \in f[n].visited
  BY TraverseTurns
<1>2. Cardinality(list) \in Nat /\ n \in Nat
  BY FS_CardinalityType
<1>3. \A k \in 0 .. n : f[k] = IF k = 0 THEN Started(start) ELSE Flow!Turn(f[k - 1], end)
  BY <1>1 DEF Turning
<1> DEFINE T == {k \in Nat : k <= n => SearchInv(N, k, f[k], start, end)}
<1>4. 0 \in T
  <2>1. f[0] = Started(start)
    BY <1>2, <1>3
  <2>2. <<start>> \in Seq(N) /\ Queued(<<start>>) = {start} /\ Len(<<start>>) = 1
    BY DEF Queued
  <2>3. TurnsLeft(0, <<start>>, {}, end)
    <3>1. EdgesOf({}) = {}
      BY DEF EdgesOf
    <3>2. Cardinality(EdgesOf({})) = 0
      BY <3>1, FS_EmptySet
    <3> QED
      BY <2>2, <3>2 DEF TurnsLeft
  <2>4. Reachable(<<start>>, {}, start) /\ Gathered(<<start>>, {}, start, end)
    BY <2>2 DEF Reachable, Gathered, EdgesOf
  <2>5. SearchInv(N, 0, Started(start), start, end)
    <3> DEFINE s == Started(start)
    <3>1. /\ s = [unvisited |-> <<start>>, visited |-> {}]
          /\ s.unvisited = <<start>> /\ s.visited = {}
      BY DEF Started
    <3> HIDE DEF s
    <3>2. SearchInv(N, 0, s, start, end)
      BY <2>2, <2>3, <2>4, <3>1, Zenon DEF SearchInv
    <3> QED
      BY <3>2 DEF s
  <2> QED
    BY <2>1, <2>5
<1>5. ASSUME NEW k \in T  PROVE  k + 1 \in T
  <2> SUFFICES ASSUME k + 1 <= n
               PROVE  SearchInv(N, k + 1, f[k + 1], start, end)
    OBVIOUS
  <2>1. k \in Nat /\ SearchInv(N, k, f[k], start, end)
    BY <1>2
  <2> DEFINE q == k + 1
  <2>2. q \in 0 .. n /\ q # 0 /\ q - 1 = k
    BY <1>2, <2>1
  <2>3. SearchInv(N, q, Flow!Turn(f[k], end), start, end)
    BY <2>1, SearchTurn
  <2> HIDE DEF q
  <2>4. f[q] = Flow!Turn(f[k], end)
    BY <1>3, <2>2
  <2> QED
    BY <2>3, <2>4 DEF q
<1>6. SearchInv(N, n, f[n], start, end)
  <2>1. T \in SUBSET Nat
    OBVIOUS
  <2> HIDE DEF T
  <2>2. T = Nat
    BY <1>4, <1>5, <2>1, NatInduct
  <2> QED
    BY <1>2, <2>2 DEF T
<1> DEFINE u == f[n].unvisited
           v == f[n].visited
<1>7. /\ u \in Seq(N) /\ v \in SUBSET N
      /\ TurnsLeft(n, u, v, end) /\ Reachable(u, v, start) /\ Gathered(u, v, start, end)
  BY <1>6, Zenon DEF SearchInv
<1> HIDE DEF u, v
<1>8. ASSUME end \notin v
      PROVE  start \in v /\ Closed(v)
  <2>1. u = <<>>
    <3>1. EdgesOf(v) \in SUBSET list
      BY DEF EdgesOf
    <3>2. Cardinality(EdgesOf(v)) \in Nat /\ Cardinality(EdgesOf(v)) <= Cardinality(list)
      BY <3>1, FS_Subset, FS_CardinalityType
    <3>3. u # <<>> => Len(u) \in Nat \ {0}
      BY <1>7, EmptySeq
    <3> QED
      BY <1>2, <1>7, <1>8, <3>2, <3>3 DEF TurnsLeft
  <2>2. Queued(u) = {}
    BY <2>1 DEF Queued
  <2> QED
    BY <1>7, <1>8, <2>2 DEF Gathered, Closed, EdgesOf
<1>9. end \in v => \A S \in SUBSET N : start \in S /\ Closed(S) => end \in S
  BY <1>7 DEF Reachable
<1> QED
  BY <1>1, <1>7, <1>8, <1>9 DEF v

-----------------------------------------------------------------------------
(***************************************************************************)
(* What the graph and the warehouses hold, by how far each role is         *)
(* disposed of.                                                            *)
(***************************************************************************)
Pair(r) == <<r.channel, r.node>>
InNodes == {"join channel", "join graph", "joined"}
InChannels == {"join graph", "joined", "leave channel"}
InGraph == {"joined", "leave channel", "leave graph"}
Stages == {"new", "gone"} \cup InNodes \cup InChannels \cup InGraph

(* A pair of edges_ is a role's, and a role's pair is there unless the     *)
(* role was robbed of it.                                                  *)
HeldBy(pairs, kind, where, lost) ==
  /\ \A p \in pairs :
       \E r \in FlowRoles : p = Pair(r) /\ r.kind = kind /\ where[r] \in InGraph
  /\ \A r \in FlowRoles \ lost : r.kind = kind /\ where[r] \in InGraph => Pair(r) \in pairs

(* list_ joins sources and destinations of a channel, ... *)
EdgesKnown ==
  \A e \in list : /\ e = <<e[1], e[2], e[3]>>
                  /\ <<e[2], e[1]>> \in src /\ <<e[2], e[3]>> \in dst

(* ... and all of them, but where the key of an edge is another one's. *)
EdgesComplete ==
  \A s \in src, d \in dst :
    s[1] = d[1] /\ ~ Flow!Clashes(<<s[2], s[1], d[2]>>) => <<s[2], s[1], d[2]>> \in list

EndsKnown == \A e \in list : e[1] \in vertices /\ e[3] \in vertices

WarehousesHold ==
  /\ node_readers = {r \in FlowRoles : r.kind = "reader" /\ disposed[r] \in InNodes}
  /\ channel_writers = {r \in FlowRoles : r.kind = "writer" /\ disposed[r] \in InChannels}

GraphInv ==
  /\ disposed \in [FlowRoles -> Stages]
  /\ HeldBy(src, "writer", disposed, robbed) /\ HeldBy(dst, "reader", disposed, robbed)
  /\ EdgesKnown /\ EdgesComplete /\ EndsKnown /\ WarehousesHold

LEMMA GraphInvInit == Flow!GraphInit => GraphInv
  BY DEF Flow!GraphInit, GraphInv, HeldBy, EdgesKnown, EdgesComplete, EndsKnown,
         WarehousesHold, Stages, InNodes, InChannels, InGraph

(* A step advances one role. *)
LEMMA Advanced ==
  ASSUME GraphInv, NEW r \in FlowRoles, NEW from, NEW to \in Stages, Flow!Advance(r, from, to)
  PROVE  /\ disposed' \in [FlowRoles -> Stages]
         /\ disposed[r] = from /\ disposed'[r] = to
         /\ \A t \in FlowRoles : t # r => disposed'[t] = disposed[t]
  BY DEF GraphInv, Flow!Advance

(* A clash stays: no role is new again. *)
LEMMA ClashesStay ==
  ASSUME NEW r \in FlowRoles, disposed'[r] # "new",
         \A t \in FlowRoles : t # r => disposed'[t] = disposed[t],
         NEW e, Flow!Clashes(e)
  PROVE  Flow!Clashes(e)'
<1> DEFINE EdgeOf(w, x) == <<w.node, w.channel, x.node>>
<1>1. PICK w \in FlowRoles, x \in FlowRoles :
        /\ disposed[w] # "new" /\ disposed[x] # "new" /\ w.kind = "writer" /\ x.kind = "reader"
        /\ w.channel = x.channel /\ w.node = e[1]
        /\ EdgeOf(w, x) # e /\ Flow!Key(EdgeOf(w, x)) = Flow!Key(e)
  BY Zenon DEF Flow!Clashes
<1>2. disposed'[w] # "new" /\ disposed'[x] # "new"
  BY <1>1
<1> QED
  BY <1>1, <1>2, Zenon DEF Flow!Clashes

(* Two edges under one key. *)
LEMMA KeysClash ==
  ASSUME NEW w \in FlowRoles, NEW x \in FlowRoles, w.kind = "writer", x.kind = "reader",
         disposed[w] # "new", disposed[x] # "new", w.channel = x.channel,
         NEW f, f = <<w.node, w.channel, x.node>>, NEW e,
         f[1] = e[1], Flow!Key(f) = Flow!Key(e), f # e
  PROVE  Flow!Clashes(e)
<1>1. w.node = e[1]
  OBVIOUS
<1> QED
  BY <1>1, Zenon DEF Flow!Clashes

(* A source and a destination of one channel that the graph has. *)
LEMMA PairsClash ==
  ASSUME GraphInv, NEW s \in src, NEW d \in dst, s[1] = d[1],
         NEW e, s[2] = e[1], Flow!Key(<<s[2], s[1], d[2]>>) = Flow!Key(e),
         <<s[2], s[1], d[2]>> # e
  PROVE  Flow!Clashes(e)
<1>1. PICK w \in FlowRoles : s = Pair(w) /\ w.kind = "writer" /\ disposed[w] \in InGraph
  BY DEF GraphInv, HeldBy
<1>2. PICK x \in FlowRoles : d = Pair(x) /\ x.kind = "reader" /\ disposed[x] \in InGraph
  BY DEF GraphInv, HeldBy
<1>3. s[1] = w.channel /\ s[2] = w.node /\ d[1] = x.channel /\ d[2] = x.node
  BY <1>1, <1>2 DEF Pair
<1>4. disposed[w] # "new" /\ disposed[x] # "new"
  BY <1>1, <1>2 DEF InGraph
<1> QED
  BY <1>1, <1>2, <1>3, <1>4, KeysClash

(* The pairs stay if no role of the kind enters or leaves the graph, ... *)
LEMMA HeldStill ==
  ASSUME NEW pairs, NEW kind, NEW where, NEW where1, NEW lost, NEW lost1,
         HeldBy(pairs, kind, where, lost), NEW r \in FlowRoles,
         r.kind # kind \/ (where1[r] \in InGraph <=> where[r] \in InGraph),
         \A t \in FlowRoles : t # r => where1[t] = where[t], lost \subseteq lost1
  PROVE  HeldBy(pairs, kind, where1, lost1)
<1>1. ASSUME NEW t \in FlowRoles, t.kind = kind
      PROVE  where1[t] \in InGraph <=> where[t] \in InGraph
  BY <1>1
<1> QED
  BY <1>1 DEF HeldBy

(* ... one more is held when a role enters, ... *)
LEMMA HeldMore ==
  ASSUME NEW pairs, NEW kind, NEW where, NEW where1, NEW lost,
         HeldBy(pairs, kind, where, lost), NEW r \in FlowRoles,
         r.kind = kind, where1[r] \in InGraph,
         \A t \in FlowRoles : t # r => where1[t] = where[t]
  PROVE  HeldBy(pairs \cup {Pair(r)}, kind, where1, lost)
<1>1. ASSUME NEW t \in FlowRoles, where[t] \in InGraph
      PROVE  where1[t] \in InGraph
  BY <1>1
<1> QED
  BY <1>1 DEF HeldBy

(* ... and one less when it leaves, of which its twins are robbed. *)
LEMMA HeldLess ==
  ASSUME NEW pairs, NEW kind, NEW where, NEW where1, NEW lost, NEW lost1,
         HeldBy(pairs, kind, where, lost), NEW r \in FlowRoles,
         r.kind = kind, where1[r] \notin InGraph, lost \subseteq lost1,
         \A t \in FlowRoles : t # r => where1[t] = where[t],
         \A t \in FlowRoles :
           t # r /\ t.kind = kind /\ Pair(t) = Pair(r) /\ where[t] \in InGraph => t \in lost1
  PROVE  HeldBy(pairs \ {Pair(r)}, kind, where1, lost1)
<1>1. ASSUME NEW p \in pairs \ {Pair(r)}
      PROVE  \E t \in FlowRoles : p = Pair(t) /\ t.kind = kind /\ where1[t] \in InGraph
  <2>1. PICK t \in FlowRoles : p = Pair(t) /\ t.kind = kind /\ where[t] \in InGraph
    BY DEF HeldBy
  <2>2. t # r
    BY <2>1
  <2> QED
    BY <2>1, <2>2
<1>2. ASSUME NEW t \in FlowRoles \ lost1, t.kind = kind, where1[t] \in InGraph
      PROVE  Pair(t) \in pairs \ {Pair(r)}
  <2>1. t # r /\ where[t] \in InGraph
    BY <1>2
  <2>2. Pair(t) \in pairs
    BY <1>2, <2>1 DEF HeldBy
  <2> QED
    BY <1>2, <2>1, <2>2
<1> QED
  BY <1>1, <1>2 DEF HeldBy

LEMMA HeldPairs ==
  ASSUME NEW pairs, NEW kind, NEW where, NEW lost, HeldBy(pairs, kind, where, lost),
         NEW p \in pairs
  PROVE  p = <<p[1], p[2]>>
  BY DEF HeldBy, Pair

(* Roles on their way to the graph, in it, or past it. *)
LEMMA GraphInvWarehouse ==
  ASSUME GraphInv, NEW r \in FlowRoles, NEW from, NEW to \in Stages \ {"new"},
         Flow!Advance(r, from, to), to \in InGraph <=> from \in InGraph,
         UNCHANGED <<src, dst, list, vertices, robbed>>, WarehousesHold'
  PROVE  GraphInv'
<1>1. /\ disposed' \in [FlowRoles -> Stages]
      /\ disposed[r] = from /\ disposed'[r] = to
      /\ \A t \in FlowRoles : t # r => disposed'[t] = disposed[t]
  BY Advanced
<1>2. /\ HeldBy(src, "writer", disposed, robbed)
      /\ HeldBy(dst, "reader", disposed, robbed)
  BY DEF GraphInv
<1>3. HeldBy(src', "writer", disposed', robbed')
  BY <1>1, <1>2, HeldStill
<1>4. HeldBy(dst', "reader", disposed', robbed')
  BY <1>1, <1>2, HeldStill
<1>5. EdgesKnown' /\ EndsKnown'
  BY DEF GraphInv, EdgesKnown, EndsKnown
<1>6. EdgesComplete'
  <2>1. \A e : Flow!Clashes(e) => Flow!Clashes(e)'
    BY <1>1, ClashesStay
  <2>2. EdgesComplete
    BY DEF GraphInv
  <2> QED
    BY <2>1, <2>2 DEF EdgesComplete
<1> QED
  BY <1>1, <1>3, <1>4, <1>5, <1>6, Zenon DEF GraphInv

LEMMA GraphInvDisposeJoin ==
  ASSUME GraphInv, NEW r \in FlowRoles, Flow!DisposeJoin(r)
  PROVE  GraphInv'
<1> USE DEF Stages, InNodes, InChannels, InGraph
<1>1. /\ Flow!Advance(r, "new", "join channel")
      /\ UNCHANGED <<src, dst, list, vertices, robbed>>
  BY DEF Flow!DisposeJoin
<1>2. /\ disposed[r] = "new" /\ disposed'[r] = "join channel"
      /\ \A t \in FlowRoles : t # r => disposed'[t] = disposed[t]
  BY <1>1, Advanced
<1>3. WarehousesHold'
  BY <1>2, FlowConstants DEF Flow!DisposeJoin, GraphInv, WarehousesHold
<1> QED
  BY <1>1, <1>3, GraphInvWarehouse

LEMMA GraphInvDisposeJoinChannel ==
  ASSUME GraphInv, NEW r \in FlowRoles, Flow!DisposeJoinChannel(r)
  PROVE  GraphInv'
<1> USE DEF Stages, InNodes, InChannels, InGraph
<1>1. /\ Flow!Advance(r, "join channel", "join graph")
      /\ UNCHANGED <<src, dst, list, vertices, robbed>>
  BY DEF Flow!DisposeJoinChannel
<1>2. /\ disposed[r] = "join channel" /\ disposed'[r] = "join graph"
      /\ \A t \in FlowRoles : t # r => disposed'[t] = disposed[t]
  BY <1>1, Advanced
<1>3. WarehousesHold'
  BY <1>2, FlowConstants DEF Flow!DisposeJoinChannel, GraphInv, WarehousesHold
<1> QED
  BY <1>1, <1>3, GraphInvWarehouse

LEMMA GraphInvDisposeLeave ==
  ASSUME GraphInv, NEW r \in FlowRoles, Flow!DisposeLeave(r)
  PROVE  GraphInv'
<1> USE DEF Stages, InNodes, InChannels, InGraph
<1>1. /\ Flow!Advance(r, "joined", "leave channel")
      /\ UNCHANGED <<src, dst, list, vertices, robbed>>
  BY DEF Flow!DisposeLeave
<1>2. /\ disposed[r] = "joined" /\ disposed'[r] = "leave channel"
      /\ \A t \in FlowRoles : t # r => disposed'[t] = disposed[t]
  BY <1>1, Advanced
<1>3. WarehousesHold'
  BY <1>2 DEF Flow!DisposeLeave, GraphInv, WarehousesHold
<1> QED
  BY <1>1, <1>3, GraphInvWarehouse

LEMMA GraphInvDisposeLeaveChannel ==
  ASSUME GraphInv, NEW r \in FlowRoles, Flow!DisposeLeaveChannel(r)
  PROVE  GraphInv'
<1> USE DEF Stages, InNodes, InChannels, InGraph
<1>1. /\ Flow!Advance(r, "leave channel", "leave graph")
      /\ UNCHANGED <<src, dst, list, vertices, robbed>>
  BY DEF Flow!DisposeLeaveChannel
<1>2. /\ disposed[r] = "leave channel" /\ disposed'[r] = "leave graph"
      /\ \A t \in FlowRoles : t # r => disposed'[t] = disposed[t]
  BY <1>1, Advanced
<1>3. WarehousesHold'
  BY <1>2, FlowConstants DEF Flow!DisposeLeaveChannel, GraphInv, WarehousesHold
<1> QED
  BY <1>1, <1>3, GraphInvWarehouse

(* Graph::Insert joins the new source or destination with what is there. *)
LEMMA GraphInvInsert ==
  ASSUME GraphInv, NEW r \in FlowRoles, Flow!Insert(r)
  PROVE  GraphInv'
<1>1. /\ Flow!Advance(r, "join graph", "joined")
      /\ UNCHANGED <<node_readers, channel_writers, robbed>>
      /\ IF r.kind = "writer" THEN Flow!InsertOutgoingEdge(r) ELSE Flow!InsertIncomingEdge(r)
  BY DEF Flow!Insert, Flow!warehouses
<1>2. /\ disposed' \in [FlowRoles -> Stages]
      /\ disposed[r] = "join graph" /\ disposed'[r] = "joined"
      /\ \A t \in FlowRoles : t # r => disposed'[t] = disposed[t]
  BY <1>1, Advanced DEF Stages, InChannels
<1>3. /\ HeldBy(src, "writer", disposed, robbed)
      /\ HeldBy(dst, "reader", disposed, robbed)
  BY DEF GraphInv
<1>4. WarehousesHold'
  BY <1>1, <1>2 DEF GraphInv, WarehousesHold, InNodes, InChannels
<1>5. \A e : Flow!Clashes(e) => Flow!Clashes(e)'
  BY <1>2, ClashesStay
<1>6. disposed'[r] \in InGraph
  BY <1>2 DEF InGraph
<1>7. \A p \in src : p = <<p[1], p[2]>>
  BY <1>3, HeldPairs
<1>8. \A p \in dst : p = <<p[1], p[2]>>
  BY <1>3, HeldPairs
<1>9. CASE r.kind = "writer"
  <2> DEFINE new == {<<r.node, r.channel, d[2]>> : d \in {d1 \in dst : d1[1] = r.channel}}
  <2>1. /\ src' = src \cup {Pair(r)} /\ dst' = dst
        /\ \/ Pair(r) \in src /\ list' = list /\ vertices' = vertices
           \/ /\ list' = (list \ Flow!Keyed(new)) \cup new
              /\ vertices' = vertices \cup {e[1] : e \in new} \cup {e[3] : e \in new}
    BY <1>1, <1>9 DEF Flow!InsertOutgoingEdge, Flow!InsertCompleteEdge, Pair
  <2>2. HeldBy(src', "writer", disposed', robbed')
    BY <1>1, <1>2, <1>3, <1>6, <1>9, <2>1, HeldMore
  <2>3. HeldBy(dst', "reader", disposed', robbed')
    BY <1>1, <1>2, <1>3, <1>9, <2>1, HeldStill
  <2>4. EdgesKnown' /\ EdgesComplete' /\ EndsKnown'
    <3>1. CASE Pair(r) \in src /\ list' = list /\ vertices' = vertices
      <4>1. src' = src
        BY <2>1, <3>1
      <4>2. EdgesKnown' /\ EndsKnown'
        BY <2>1, <3>1, <4>1 DEF GraphInv, EdgesKnown, EndsKnown
      <4>3. EdgesComplete
        BY DEF GraphInv
      <4> QED
        BY <1>5, <2>1, <3>1, <4>1, <4>2, <4>3 DEF EdgesComplete
    <3>2. CASE /\ list' = (list \ Flow!Keyed(new)) \cup new
               /\ vertices' = vertices \cup {e[1] : e \in new} \cup {e[3] : e \in new}
      <4>1. EndsKnown'
        BY <3>2 DEF GraphInv, EndsKnown
      <4>2. ASSUME NEW e \in list'
            PROVE  /\ e = <<e[1], e[2], e[3]>>
                   /\ <<e[2], e[1]>> \in src' /\ <<e[2], e[3]>> \in dst'
        <5>1. CASE e \in list
          BY <2>1, <5>1 DEF GraphInv, EdgesKnown
        <5>2. CASE e \in new
          <6>1. PICK d \in dst : d[1] = r.channel /\ e = <<r.node, r.channel, d[2]>>
            BY <5>2
          <6>2. d = <<r.channel, d[2]>>
            BY <1>7, <1>8, <6>1
          <6> QED
            BY <2>1, <6>1, <6>2 DEF Pair
        <5> QED
          BY <3>2, <5>1, <5>2
      <4>3. ASSUME NEW s \in src', NEW d \in dst', s[1] = d[1],
                   ~ Flow!Clashes(<<s[2], s[1], d[2]>>)'
            PROVE  <<s[2], s[1], d[2]>> \in list'
        <5> DEFINE e == <<s[2], s[1], d[2]>>
        <5>1. CASE s = Pair(r)
          <6>1. s[1] = r.channel /\ s[2] = r.node /\ d \in dst /\ d[1] = r.channel
            BY <2>1, <4>3, <5>1 DEF Pair
          <6>2. <<r.node, r.channel, d[2]>> \in new
            BY <6>1
          <6> QED
            BY <3>2, <4>3, <6>1, <6>2
        <5>2. CASE s # Pair(r)
          <6>1. s \in src /\ d \in dst
            BY <2>1, <5>2
          <6>2. ~ Flow!Clashes(e)
            BY <1>5, <4>3
          <6>3. e \in list
            BY <4>3, <6>1, <6>2 DEF GraphInv, EdgesComplete
          <6>4. ASSUME e \in Flow!Keyed(new), e \notin new
                PROVE  FALSE
            <7>1. PICK f \in new : f[1] = e[1] /\ Flow!Key(f) = Flow!Key(e)
              BY <6>4 DEF Flow!Keyed
            <7>2. PICK q \in dst : q[1] = r.channel /\ f = <<r.node, r.channel, q[2]>>
              OBVIOUS
            <7>3. PICK x \in FlowRoles : q = Pair(x) /\ x.kind = "reader" /\ disposed[x] \in InGraph
              BY DEF GraphInv, HeldBy
            <7>4. q[2] = x.node /\ x.channel = r.channel
              BY <7>2, <7>3 DEF Pair
            <7>5. disposed[x] # "new" /\ disposed[r] # "new" /\ f # e
              BY <1>2, <6>4, <7>3 DEF InGraph
            <7>6. f = <<r.node, r.channel, x.node>>
              BY <7>2, <7>4
            <7> HIDE DEF e, new
            <7>7. Flow!Clashes(e)
              BY <1>9, <7>1, <7>3, <7>4, <7>5, <7>6, KeysClash
            <7> QED
              BY <6>2, <7>7
          <6> QED
            BY <3>2, <6>3, <6>4
        <5> QED
          BY <5>1, <5>2
      <4>4. EdgesKnown' /\ EdgesComplete'
        BY <4>2, <4>3, Zenon DEF EdgesKnown, EdgesComplete
      <4> QED
        BY <4>1, <4>4
    <3> QED
      BY <2>1, <3>1, <3>2
  <2> QED
    BY <1>2, <1>4, <2>2, <2>3, <2>4, Zenon DEF GraphInv
<1>10. CASE r.kind = "reader"
  <2> DEFINE new == {<<s[2], r.channel, r.node>> : s \in {s1 \in src : s1[1] = r.channel}}
  <2>1. /\ dst' = dst \cup {Pair(r)} /\ src' = src
        /\ \/ Pair(r) \in dst /\ list' = list /\ vertices' = vertices
           \/ /\ list' = (list \ Flow!Keyed(new)) \cup new
              /\ vertices' = vertices \cup {e[1] : e \in new} \cup {e[3] : e \in new}
    BY <1>1, <1>10 DEF Flow!InsertIncomingEdge, Flow!InsertCompleteEdge, Pair
  <2>2. HeldBy(dst', "reader", disposed', robbed')
    BY <1>1, <1>2, <1>3, <1>6, <1>10, <2>1, HeldMore
  <2>3. HeldBy(src', "writer", disposed', robbed')
    BY <1>1, <1>2, <1>3, <1>10, <2>1, HeldStill
  <2>4. EdgesKnown' /\ EdgesComplete' /\ EndsKnown'
    <3>1. CASE Pair(r) \in dst /\ list' = list /\ vertices' = vertices
      <4>1. dst' = dst
        BY <2>1, <3>1
      <4>2. EdgesKnown' /\ EndsKnown'
        BY <2>1, <3>1, <4>1 DEF GraphInv, EdgesKnown, EndsKnown
      <4>3. EdgesComplete
        BY DEF GraphInv
      <4> QED
        BY <1>5, <2>1, <3>1, <4>1, <4>2, <4>3 DEF EdgesComplete
    <3>2. CASE /\ list' = (list \ Flow!Keyed(new)) \cup new
               /\ vertices' = vertices \cup {e[1] : e \in new} \cup {e[3] : e \in new}
      <4>1. EndsKnown'
        BY <3>2 DEF GraphInv, EndsKnown
      <4>2. ASSUME NEW e \in list'
            PROVE  /\ e = <<e[1], e[2], e[3]>>
                   /\ <<e[2], e[1]>> \in src' /\ <<e[2], e[3]>> \in dst'
        <5>1. CASE e \in list
          BY <2>1, <5>1 DEF GraphInv, EdgesKnown
        <5>2. CASE e \in new
          <6>1. PICK s \in src : s[1] = r.channel /\ e = <<s[2], r.channel, r.node>>
            BY <5>2
          <6>2. s = <<r.channel, s[2]>>
            BY <1>7, <1>8, <6>1
          <6> QED
            BY <2>1, <6>1, <6>2 DEF Pair
        <5> QED
          BY <3>2, <5>1, <5>2
      <4>3. ASSUME NEW s \in src', NEW d \in dst', s[1] = d[1],
                   ~ Flow!Clashes(<<s[2], s[1], d[2]>>)'
            PROVE  <<s[2], s[1], d[2]>> \in list'
        <5> DEFINE e == <<s[2], s[1], d[2]>>
        <5>1. CASE d = Pair(r)
          <6>1. d[1] = r.channel /\ d[2] = r.node /\ s \in src /\ s[1] = r.channel
            BY <2>1, <4>3, <5>1 DEF Pair
          <6>2. <<s[2], r.channel, r.node>> \in new
            BY <6>1
          <6> QED
            BY <3>2, <4>3, <6>1, <6>2
        <5>2. CASE d # Pair(r)
          <6>1. s \in src /\ d \in dst
            BY <2>1, <5>2
          <6>2. ~ Flow!Clashes(e)
            BY <1>5, <4>3
          <6>3. e \in list
            BY <4>3, <6>1, <6>2 DEF GraphInv, EdgesComplete
          <6>4. ASSUME e \in Flow!Keyed(new), e \notin new
                PROVE  FALSE
            <7>1. PICK f \in new : f[1] = e[1] /\ Flow!Key(f) = Flow!Key(e)
              BY <6>4 DEF Flow!Keyed
            <7>2. PICK q \in src : q[1] = r.channel /\ f = <<q[2], r.channel, r.node>>
              OBVIOUS
            <7>3. PICK x \in FlowRoles : q = Pair(x) /\ x.kind = "writer" /\ disposed[x] \in InGraph
              BY DEF GraphInv, HeldBy
            <7>4. q[2] = x.node /\ x.channel = r.channel
              BY <7>2, <7>3 DEF Pair
            <7>5. disposed[x] # "new" /\ disposed[r] # "new" /\ f # e
              BY <1>2, <6>4, <7>3 DEF InGraph
            <7>6. f = <<x.node, x.channel, r.node>>
              BY <7>2, <7>4
            <7> HIDE DEF e, new
            <7>7. Flow!Clashes(e)
              BY <1>10, <7>1, <7>3, <7>4, <7>5, <7>6, KeysClash
            <7> QED
              BY <6>2, <7>7
          <6> QED
            BY <3>2, <6>3, <6>4
        <5> QED
          BY <5>1, <5>2
      <4>4. EdgesKnown' /\ EdgesComplete'
        BY <4>2, <4>3, Zenon DEF EdgesKnown, EdgesComplete
      <4> QED
        BY <4>1, <4>4
    <3> QED
      BY <2>1, <3>1, <3>2
  <2> QED
    BY <1>2, <1>4, <2>2, <2>3, <2>4, Zenon DEF GraphInv
<1> QED
  BY <1>9, <1>10, FlowConstants

(* Graph::Delete takes out the edges of the source or destination. *)
LEMMA GraphInvDelete ==
  ASSUME GraphInv, NEW r \in FlowRoles, Flow!Delete(r)
  PROVE  GraphInv'
<1>1. /\ Flow!Advance(r, "leave graph", "gone")
      /\ UNCHANGED <<node_readers, channel_writers, vertices>>
      /\ robbed' = robbed \cup Flow!Twins(r)
      /\ IF r.kind = "writer" THEN Flow!DeleteOutgoingEdge(r) ELSE Flow!DeleteIncomingEdge(r)
  BY DEF Flow!Delete, Flow!warehouses
<1>2. /\ disposed' \in [FlowRoles -> Stages]
      /\ disposed[r] = "leave graph" /\ disposed'[r] = "gone"
      /\ \A t \in FlowRoles : t # r => disposed'[t] = disposed[t]
  BY <1>1, Advanced DEF Stages
<1>3. /\ HeldBy(src, "writer", disposed, robbed)
      /\ HeldBy(dst, "reader", disposed, robbed)
  BY DEF GraphInv
<1>4. WarehousesHold'
  BY <1>1, <1>2 DEF GraphInv, WarehousesHold, InNodes, InChannels
<1>5. \A e : Flow!Clashes(e) => Flow!Clashes(e)'
  BY <1>2, ClashesStay
<1>6. /\ disposed'[r] \notin InGraph /\ robbed \subseteq robbed'
      /\ \A t \in FlowRoles :
           t # r /\ t.kind = r.kind /\ Pair(t) = Pair(r) /\ disposed[t] \in InGraph => t \in robbed'
  BY <1>1, <1>2 DEF InGraph, Flow!Twins, Pair
<1>7. \A p \in src : p = <<p[1], p[2]>>
  BY <1>3, HeldPairs
<1>8. \A p \in dst : p = <<p[1], p[2]>>
  BY <1>3, HeldPairs
<1>9. CASE r.kind = "writer"
  <2> DEFINE old == {<<r.node, r.channel, d[2]>> : d \in {d1 \in dst : d1[1] = r.channel}}
  <2>1. /\ src' = src \ {Pair(r)} /\ dst' = dst
        /\ list' = IF Pair(r) \in src THEN list \ Flow!Keyed(old) ELSE list
    BY <1>1, <1>9 DEF Flow!DeleteOutgoingEdge, Pair
  <2>2. HeldBy(src', "writer", disposed', robbed')
    BY <1>1, <1>2, <1>3, <1>6, <1>9, <2>1, HeldLess
  <2>3. HeldBy(dst', "reader", disposed', robbed')
    BY <1>1, <1>2, <1>3, <1>6, <1>9, <2>1, HeldStill
  <2>4. EndsKnown'
    BY <1>1, <2>1 DEF GraphInv, EndsKnown
  <2>5. ASSUME NEW e \in list'
        PROVE  /\ e = <<e[1], e[2], e[3]>>
               /\ <<e[2], e[1]>> \in src' /\ <<e[2], e[3]>> \in dst'
    <3>1. e = <<e[1], e[2], e[3]>> /\ <<e[2], e[1]>> \in src /\ <<e[2], e[3]>> \in dst
      BY <2>1 DEF GraphInv, EdgesKnown
    <3>2. ASSUME <<e[2], e[1]>> = Pair(r)  PROVE FALSE
      <4>1. e[2] = r.channel /\ e[1] = r.node
        BY <3>2 DEF Pair
      <4>2. e \in old /\ e \in list /\ Pair(r) \in src
        BY <2>1, <3>1, <3>2, <4>1
      <4>3. e \in Flow!Keyed(old)
        BY <4>2 DEF Flow!Keyed
      <4> QED
        BY <2>1, <4>2, <4>3
    <3> QED
      BY <2>1, <3>1, <3>2
  <2>6. ASSUME NEW s \in src', NEW d \in dst', s[1] = d[1],
               ~ Flow!Clashes(<<s[2], s[1], d[2]>>)'
        PROVE  <<s[2], s[1], d[2]>> \in list'
    <3> DEFINE e == <<s[2], s[1], d[2]>>
    <3>1. s \in src /\ d \in dst /\ s # Pair(r)
      BY <2>1
    <3>2. ~ Flow!Clashes(e)
      BY <1>5, <2>6
    <3>3. e \in list
      BY <2>6, <3>1, <3>2 DEF GraphInv, EdgesComplete
    <3>4. ASSUME Pair(r) \in src, e \in Flow!Keyed(old)
          PROVE  FALSE
      <4>1. PICK f \in old : f[1] = e[1] /\ Flow!Key(f) = Flow!Key(e)
        BY <3>4 DEF Flow!Keyed
      <4>2. PICK q \in dst : q[1] = r.channel /\ f = <<r.node, r.channel, q[2]>>
        OBVIOUS
      <4>3. f # e
        <5>1. s = <<s[1], s[2]>> 
          BY <1>7, <1>8, <3>1
        <5> QED
          BY <2>6, <3>1, <4>2, <5>1 DEF Pair
      <4> DEFINE p == Pair(r)
      <4>4. p \in src /\ p[1] = r.channel /\ p[2] = r.node
        BY <3>4 DEF Pair
      <4> HIDE DEF e, old, p
      <4>5. f = <<p[2], p[1], q[2]>> /\ p[1] = q[1]
        BY <4>2, <4>4
      <4>6. p[2] = e[1]
        BY <4>1, <4>5
      <4>7. Flow!Clashes(e)
        BY <4>1, <4>2, <4>3, <4>4, <4>5, <4>6, PairsClash
      <4> QED
        BY <3>2, <4>7
    <3> QED
      BY <2>1, <3>3, <3>4
  <2>7. EdgesKnown' /\ EdgesComplete'
    BY <2>5, <2>6, Zenon DEF EdgesKnown, EdgesComplete
  <2> QED
    BY <1>2, <1>4, <2>2, <2>3, <2>4, <2>7, Zenon DEF GraphInv
<1>10. CASE r.kind = "reader"
  <2> DEFINE old == {<<s[2], r.channel, r.node>> : s \in {s1 \in src : s1[1] = r.channel}}
  <2>1. /\ dst' = dst \ {Pair(r)} /\ src' = src
        /\ list' = IF Pair(r) \in dst THEN list \ Flow!Keyed(old) ELSE list
    BY <1>1, <1>10 DEF Flow!DeleteIncomingEdge, Pair
  <2>2. HeldBy(dst', "reader", disposed', robbed')
    BY <1>1, <1>2, <1>3, <1>6, <1>10, <2>1, HeldLess
  <2>3. HeldBy(src', "writer", disposed', robbed')
    BY <1>1, <1>2, <1>3, <1>6, <1>10, <2>1, HeldStill
  <2>4. EndsKnown'
    BY <1>1, <2>1 DEF GraphInv, EndsKnown
  <2>5. ASSUME NEW e \in list'
        PROVE  /\ e = <<e[1], e[2], e[3]>>
               /\ <<e[2], e[1]>> \in src' /\ <<e[2], e[3]>> \in dst'
    <3>1. e = <<e[1], e[2], e[3]>> /\ <<e[2], e[1]>> \in src /\ <<e[2], e[3]>> \in dst
      BY <2>1 DEF GraphInv, EdgesKnown
    <3>2. ASSUME <<e[2], e[3]>> = Pair(r)  PROVE FALSE
      <4>1. e[2] = r.channel /\ e[3] = r.node
        BY <3>2 DEF Pair
      <4>2. e \in old /\ e \in list /\ Pair(r) \in dst
        BY <2>1, <3>1, <3>2, <4>1
      <4>3. e \in Flow!Keyed(old)
        BY <4>2 DEF Flow!Keyed
      <4> QED
        BY <2>1, <4>2, <4>3
    <3> QED
      BY <2>1, <3>1, <3>2
  <2>6. ASSUME NEW s \in src', NEW d \in dst', s[1] = d[1],
               ~ Flow!Clashes(<<s[2], s[1], d[2]>>)'
        PROVE  <<s[2], s[1], d[2]>> \in list'
    <3> DEFINE e == <<s[2], s[1], d[2]>>
    <3>1. s \in src /\ d \in dst /\ d # Pair(r)
      BY <2>1
    <3>2. ~ Flow!Clashes(e)
      BY <1>5, <2>6
    <3>3. e \in list
      BY <2>6, <3>1, <3>2 DEF GraphInv, EdgesComplete
    <3>4. ASSUME Pair(r) \in dst, e \in Flow!Keyed(old)
          PROVE  FALSE
      <4>1. PICK f \in old : f[1] = e[1] /\ Flow!Key(f) = Flow!Key(e)
        BY <3>4 DEF Flow!Keyed
      <4>2. PICK q \in src : q[1] = r.channel /\ f = <<q[2], r.channel, r.node>>
        OBVIOUS
      <4>3. f # e
        <5>1. d = <<d[1], d[2]>> 
          BY <1>7, <1>8, <3>1
        <5> QED
          BY <2>6, <3>1, <4>2, <5>1 DEF Pair
      <4> DEFINE p == Pair(r)
      <4>4. p \in dst /\ p[1] = r.channel /\ p[2] = r.node
        BY <3>4 DEF Pair
      <4> HIDE DEF e, old, p
      <4>5. f = <<q[2], q[1], p[2]>> /\ p[1] = q[1]
        BY <4>2, <4>4
      <4>6. q[2] = e[1]
        BY <4>1, <4>5
      <4>7. Flow!Clashes(e)
        BY <4>1, <4>2, <4>3, <4>4, <4>5, <4>6, PairsClash
      <4> QED
        BY <3>2, <4>7
    <3> QED
      BY <2>1, <3>3, <3>4
  <2>7. EdgesKnown' /\ EdgesComplete'
    BY <2>5, <2>6, Zenon DEF EdgesKnown, EdgesComplete
  <2> QED
    BY <1>2, <1>4, <2>2, <2>3, <2>4, <2>7, Zenon DEF GraphInv
<1> QED
  BY <1>9, <1>10, FlowConstants

LEMMA GraphInvNext == GraphInv /\ [Flow!GraphNext]_(Flow!graphVars) => GraphInv'
<1> SUFFICES ASSUME GraphInv, [Flow!GraphNext]_(Flow!graphVars)
             PROVE  GraphInv'
  OBVIOUS
<1>1. CASE UNCHANGED Flow!graphVars
  <2> USE <1>1 DEF Flow!graphVars
  <2>1. /\ disposed' \in [FlowRoles -> Stages]
        /\ HeldBy(src, "writer", disposed, robbed)' /\ HeldBy(dst, "reader", disposed, robbed)'
    BY DEF GraphInv, HeldBy
  <2>2. EdgesKnown' /\ EndsKnown' /\ WarehousesHold'
    BY DEF GraphInv, EdgesKnown, EndsKnown, WarehousesHold
  <2>3. ASSUME NEW e  PROVE Flow!Clashes(e)' <=> Flow!Clashes(e)
    BY DEF Flow!Clashes
  <2>4. EdgesComplete'
    BY <2>3 DEF GraphInv, EdgesComplete
  <2> QED
    BY <2>1, <2>2, <2>4 DEF GraphInv
<1>2. CASE Flow!GraphNext
  BY <1>2, GraphInvDisposeJoin, GraphInvDisposeJoinChannel, GraphInvInsert,
     GraphInvDisposeLeave, GraphInvDisposeLeaveChannel, GraphInvDelete DEF Flow!GraphNext
<1> QED
  BY <1>1, <1>2

(* Only pairs of roles make edges. *)
LEMMA GraphIsFinite ==
  ASSUME GraphInv
  PROVE  /\ IsFiniteSet(list)
         /\ \A e \in list : e[1] \in Flow!Nodes /\ e[3] \in Flow!Nodes
<1> DEFINE P == FlowRoles \X FlowRoles
           EdgeOf(p) == <<p[1].node, p[1].channel, p[2].node>>
<1>1. IsFiniteSet(P)
  BY FlowConstants, FS_Product
<1>2. IsFiniteSet({EdgeOf(p) : p \in P})
  <2> DEFINE f == [p \in P |-> EdgeOf(p)]
  <2>1. f \in Surjection(P, {EdgeOf(p) : p \in P})
    BY DEF Surjection
  <2> QED
    BY <1>1, <2>1, FS_Surjection
<1>3. ASSUME NEW e \in list
      PROVE  e \in {EdgeOf(p) : p \in P} /\ e[1] \in Flow!Nodes /\ e[3] \in Flow!Nodes
  <2>1. e = <<e[1], e[2], e[3]>> /\ <<e[2], e[1]>> \in src /\ <<e[2], e[3]>> \in dst
    BY DEF GraphInv, EdgesKnown
  <2>2. PICK w \in FlowRoles : <<e[2], e[1]>> = Pair(w)
    BY <2>1 DEF GraphInv, HeldBy
  <2>3. PICK r \in FlowRoles : <<e[2], e[3]>> = Pair(r)
    BY <2>1 DEF GraphInv, HeldBy
  <2>4. e[1] = w.node /\ e[2] = w.channel /\ e[3] = r.node
    BY <2>2, <2>3 DEF Pair
  <2>5. <<w, r>> \in P /\ e = EdgeOf(<<w, r>>)
    BY <2>1, <2>4
  <2> QED
    BY <2>4, <2>5 DEF Flow!Nodes
<1>4. list \in SUBSET {EdgeOf(p) : p \in P}
  BY <1>3
<1>5. IsFiniteSet(list)
  BY <1>2, <1>4, FS_Subset
<1> QED
  BY <1>3, <1>5

(* In a settled process the edges are writers and readers present, ... *)
LEMMA EdgeIsUpstream ==
  ASSUME GraphInv, Flow!Quiet, NEW e \in list
  PROVE  e[1] \in Flow!GetUpstreamOfNode(e[3])
<1>1. \A r \in FlowRoles : /\ disposed[r] \in InNodes <=> disposed[r] = "joined"
                           /\ disposed[r] \in InChannels <=> disposed[r] = "joined"
                           /\ disposed[r] \in InGraph <=> disposed[r] = "joined"
  BY DEF Flow!Quiet, InNodes, InChannels, InGraph
<1>2. <<e[2], e[1]>> \in src /\ <<e[2], e[3]>> \in dst
  BY DEF GraphInv, EdgesKnown
<1>3. PICK w \in FlowRoles :
        <<e[2], e[1]>> = Pair(w) /\ w.kind = "writer" /\ disposed[w] \in InGraph
  BY <1>2 DEF GraphInv, HeldBy
<1>4. PICK r \in FlowRoles :
        <<e[2], e[3]>> = Pair(r) /\ r.kind = "reader" /\ disposed[r] \in InGraph
  BY <1>2 DEF GraphInv, HeldBy
<1>5. w \in channel_writers /\ r \in node_readers
  BY <1>1, <1>3, <1>4 DEF GraphInv, WarehousesHold
<1>6. w.channel = r.channel /\ w.node = e[1] /\ r.node = e[3]
  BY <1>3, <1>4 DEF Pair
<1> QED
  BY <1>5, <1>6 DEF Flow!GetUpstreamOfNode

(* ... and an edge that must be kept is there. *)
LEMMA KeptIsEdge ==
  ASSUME GraphInv, Flow!Quiet, NEW e \in Flow!Kept
  PROVE  e \in list
<1>1. \A r \in FlowRoles : /\ disposed[r] \in InNodes => disposed[r] \in InGraph
                           /\ disposed[r] \in InChannels => disposed[r] \in InGraph
  BY DEF Flow!Quiet, InNodes, InChannels, InGraph
<1>2. e = <<e[1], e[2], e[3]>> /\ ~ Flow!Clashes(e)
  <2>1. e \in Flow!Nodes \X {x.channel : x \in FlowRoles} \X Flow!Nodes
    BY Zenon DEF Flow!Kept
  <2>2. ~ Flow!Clashes(e)
    BY Zenon DEF Flow!Kept
  <2> QED
    BY <2>1, <2>2
<1>3. PICK w \in channel_writers \ robbed : w.node = e[1] /\ w.channel = e[2]
  BY DEF Flow!Kept
<1>4. PICK r \in node_readers \ robbed : r.node = e[3] /\ r.channel = e[2]
  BY DEF Flow!Kept
<1>5. /\ w \in FlowRoles /\ w.kind = "writer" /\ disposed[w] \in InGraph
      /\ r \in FlowRoles /\ r.kind = "reader" /\ disposed[r] \in InGraph
  BY <1>1 DEF GraphInv, WarehousesHold
<1>6. <<e[2], e[1]>> \in src /\ <<e[2], e[3]>> \in dst
  BY <1>3, <1>4, <1>5 DEF GraphInv, HeldBy, Pair
<1> DEFINE s == <<e[2], e[1]>>
           d == <<e[2], e[3]>>
<1>7. s[1] = d[1] /\ e = <<s[2], s[1], d[2]>>
  BY <1>2
<1> HIDE DEF s, d
<1>8. s \in src /\ d \in dst
  BY <1>6 DEF s, d
<1> QED
  BY <1>2, <1>7, <1>8 DEF GraphInv, EdgesComplete

LEMMA GraphInvFlow == GraphInv => FlowExact
<1> SUFFICES ASSUME GraphInv, Flow!Quiet,
                    NEW l \in Flow!Nodes, NEW r \in Flow!Nodes, l # r
             PROVE  /\ Flow!GetDirectionOf(l, r) = "UPSTREAM" => Flow!Flows(l, r)
                    /\ Flow!FlowsOnKept(l, r) => Flow!GetDirectionOf(l, r) = "UPSTREAM"
  BY DEF FlowExact, Flow!FlowExact
<1> DEFINE N == Flow!Nodes
<1>1. IsFiniteSet(list) /\ \A e \in list : e[1] \in N /\ e[3] \in N
  BY GraphIsFinite
<1>2. Flow!LevelTraverse(l, r) <=> \A S \in SUBSET N : l \in S /\ Closed(S) => r \in S
  <2> HIDE DEF N
  <2>1. l \in N /\ r \in N
    BY DEF N
  <2> QED
    BY <1>1, <2>1, TraverseExact
<1>3. Flow!LevelTraverse(l, r) => Flow!Flows(l, r)
  <2>1. ASSUME NEW S \in SUBSET N,
               \A n \in N : Flow!GetUpstreamOfNode(n) \cap S # {} => n \in S
        PROVE  Closed(S)
    <3>1. ASSUME NEW e \in list, e[1] \in S
          PROVE  e[3] \in S
      <4>1. e[1] \in Flow!GetUpstreamOfNode(e[3])
        BY EdgeIsUpstream
      <4>2. e[3] \in N
        BY <1>1
      <4> QED
        BY <2>1, <3>1, <4>1, <4>2
    <3> QED
      BY <3>1 DEF Closed
  <2> QED
    BY <1>2, <2>1, Zenon DEF Flow!Flows
<1>4. Flow!FlowsOnKept(l, r) => Flow!LevelTraverse(l, r)
  <2>1. ASSUME NEW S \in SUBSET N, Closed(S)
        PROVE  \A e \in Flow!Kept : e[1] \in S => e[3] \in S
    BY <2>1, KeptIsEdge DEF Closed
  <2> QED
    BY <1>2, <2>1, Zenon DEF Flow!FlowsOnKept
<1>5. Flow!LevelTraverse(l, r) => l \in vertices /\ r \in vertices
  <2>1. ASSUME \A S \in SUBSET N : l \in S /\ Closed(S) => r \in S
        PROVE  \E e \in list : e[1] = l
    <3>1. SUFFICES ASSUME \A e \in list : e[1] # l  PROVE FALSE
      OBVIOUS
    <3>2. {l} \in SUBSET N /\ Closed({l})
      BY <3>1 DEF Closed
    <3> QED
      BY <2>1, <3>2
  <2>2. ASSUME \A S \in SUBSET N : l \in S /\ Closed(S) => r \in S
        PROVE  \E e \in list : e[3] = r
    <3>1. SUFFICES ASSUME \A e \in list : e[3] # r  PROVE FALSE
      OBVIOUS
    <3>2. N \ {r} \in SUBSET N /\ Closed(N \ {r}) /\ l \in N \ {r}
      BY <1>1, <3>1 DEF Closed
    <3> QED
      BY <2>2, <3>2
  <2> QED
    BY <1>2, <2>1, <2>2 DEF GraphInv, EndsKnown
<1>6. Flow!GetDirectionOf(l, r) = "UPSTREAM"
        <=> l \in vertices /\ r \in vertices /\ Flow!LevelTraverse(l, r)
  BY DEF Flow!GetDirectionOf
<1> QED
  BY <1>3, <1>4, <1>5, <1>6

(***************************************************************************)
(* GetDirectionOf says that a node is upstream of another only if messages *)
(* flow from it through the writers and readers that are present, and does *)
(* say so where they flow along edges that Graph did not lose with another *)
(* one's, for any roles, once their changes are disposed of, in whatever   *)
(* order threads did so.                                                   *)
(***************************************************************************)
THEOREM FlowIsExact == Flow!GraphSpec => []FlowExact
<1>1. Flow!GraphInit => GraphInv
  BY GraphInvInit
<1>2. GraphInv /\ [Flow!GraphNext]_(Flow!graphVars) => GraphInv'
  BY GraphInvNext
<1>3. GraphInv => FlowExact
  BY GraphInvFlow
<1> QED
  BY <1>1, <1>2, <1>3, PTL DEF Flow!GraphSpec
=============================================================================
