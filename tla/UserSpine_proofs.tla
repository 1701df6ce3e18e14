-------------------------- MODULE UserSpine_proofs --------------------------
(***************************************************************************)
(* Theorems about the sessions: for which reporting offsets the parts of a *)
(* session add up to it, and for which they are lost; that the retention   *)
(* reports stay within the spine and settle to it, for any sessions,       *)
(* users, sweeps, failures, erasures and losses of Redis; that the days    *)
(* hold what the sessions have added to them, no more and no less; and     *)
(* that the pages show it.                                                 *)
(***************************************************************************)
EXTENDS SpineRead, FiniteSetTheorems, WellFoundedInduction, TLAPS

-----------------------------------------------------------------------------
(* The arithmetic of a session on its days *)

USE TimeAssumption

LEMMA DayOf ==
    ASSUME NEW d \in Int, NEW r \in 0 .. (Day - 1)
    PROVE  (d * Day + r) \div Day = d
  OBVIOUS

LEMMA DayHolds ==
    ASSUME NEW t \in Int
    PROVE  /\ LogicalDay(t) \in Int
           /\ DayStart(t) = InstantOf(LogicalDay(t)) /\ DayEnd(t) = DayStart(t) + Day
           /\ InstantOf(LogicalDay(t)) \in Int
           /\ DayStart(t) <= t /\ t < DayEnd(t)
  BY DEF LogicalDay, DayStart, DayEnd, InstantOf

LEMMA NextDay == \A d \in Int : InstantOf(d + 1) = InstantOf(d) + Day
<1> TAKE d \in Int
<1>1. (d + 1) * Day = d * Day + Day
  OBVIOUS
<1> QED
  BY <1>1 DEF InstantOf

(* Where the probe of day d lands: d plus the offset twice and the minute. *)
LEMMA ProbeLands ==
    ASSUME NEW d \in Int, NEW k \in Int,
           2 * Offset + Probe - k * Day \in 0 .. (Day - 1)
    PROVE  LogicalDay(d * Day + Offset + Probe) = d + k
<1> DEFINE r == 2 * Offset + Probe - k * Day
<1>1. (d + k) * Day = d * Day + k * Day
  OBVIOUS
<1>2. d * Day + Offset + Probe + Offset = (d + k) * Day + r
  BY <1>1
<1>3. ((d + k) * Day + r) \div Day = d + k
  BY DayOf
<1> QED
  BY <1>2, <1>3 DEF LogicalDay

LEMMA ShareOf ==
    ASSUME NEW i \in [start : Int, end : Int], NEW d \in Int, NEW k \in Int,
           2 * Offset + Probe - k * Day \in 0 .. (Day - 1)
    PROVE  /\ InstantOf(d + k) \in Int
           /\ DurOnDay(i, d) = Larger(0, Smaller(i.end, InstantOf(d + k) + Day)
                                         - Larger(i.start, InstantOf(d + k)))
<1> DEFINE probe == d * Day + Offset + Probe
<1>1. d * Day \in Int
  OBVIOUS
<1>2. probe \in Int
  BY <1>1
<1>3. LogicalDay(probe) = d + k
  BY ProbeLands, Zenon
<1>4. DayStart(probe) = InstantOf(d + k) /\ DayEnd(probe) = InstantOf(d + k) + Day
  BY <1>2, <1>3, DayHolds
<1>5. InstantOf(d + k) \in Int
  BY <1>2, <1>3, DayHolds
<1> QED
  BY <1>4, <1>5 DEF DurOnDay

LEMMA OwnShare ==
    ASSUME NEW i \in [start : Int, end : Int], NEW d \in Int,
           2 * Offset + Probe \in 0 .. (Day - 1)
    PROVE  DurOnDay(i, d) = Larger(0, Smaller(i.end, InstantOf(d) + Day)
                                      - Larger(i.start, InstantOf(d)))
<1>1. 2 * Offset + Probe - 0 * Day \in 0 .. (Day - 1) /\ d + 0 = d /\ 0 \in Int
  OBVIOUS
<1>2. DurOnDay(i, d) = Larger(0, Smaller(i.end, InstantOf(d + 0) + Day)
                                 - Larger(i.start, InstantOf(d + 0)))
  BY <1>1, ShareOf, Zenon
<1> QED
  BY <1>1, <1>2

LEMMA DaysApart == \A d, k \in Int : InstantOf(d + k) = InstantOf(d) + k * Day /\ InstantOf(d) \in Int
<1> TAKE d, k \in Int
<1>1. (d + k) * Day = d * Day + k * Day /\ d * Day \in Int /\ k * Day \in Int
  OBVIOUS
<1> QED
  BY <1>1 DEF InstantOf

\* The days between the day of the start and the day of the end.
DaysBetween(i) == Larger(0, LogicalDay(i.end) - StartDay(i) - 1)

\* When twice the offset and a minute stay within a day, the day a session starts on
\* and the day it ends on hold all of its time but the whole days between them
\* (session-time.ts, durOnDay and endDay).
THEOREM PartsAddUp ==
    ASSUME NEW i \in [start : Int, end : Int], i.start <= i.end,
           2 * Offset + Probe \in 0 .. (Day - 1)
    PROVE  DurOnDay(i, StartDay(i))
             + (IF LogicalDay(i.end) = StartDay(i) THEN 0 ELSE DurOnDay(i, LogicalDay(i.end)))
           = i.end - i.start - DaysBetween(i) * Day
<1> DEFINE d == StartDay(i)
           e == LogicalDay(i.end)
           S == InstantOf(d)
           E == InstantOf(e)
<1>1. /\ d \in Int /\ S \in Int /\ i.start \in Int /\ i.end \in Int
      /\ S <= i.start /\ i.start < S + Day
      /\ e \in Int /\ E \in Int /\ E <= i.end /\ i.end < E + Day
  BY DayHolds DEF StartDay
<1>2. /\ DurOnDay(i, d) = Larger(0, Smaller(i.end, S + Day) - Larger(i.start, S))
      /\ DurOnDay(i, e) = Larger(0, Smaller(i.end, E + Day) - Larger(i.start, E))
  BY <1>1, OwnShare
<1>3. PICK k \in Int : k = e - d
  BY <1>1
<1>4. PICK w \in Int : w = k * Day
  OBVIOUS
<1>5. E = S + w
  <2>1. d + k = e
    BY <1>1, <1>3
  <2>2. InstantOf(d + k) = InstantOf(d) + k * Day
    BY <1>1, DaysApart
  <2> QED
    BY <1>4, <2>1, <2>2
<1>6. k >= 0
  <2>1. k <= -1 => w <= -Day
    <3>1. k <= -1 => (k + 1) * Day <= 0 /\ k * Day = (k + 1) * Day - Day
      OBVIOUS
    <3>2. (k + 1) * Day \in Int
      OBVIOUS
    <3> QED
      BY <1>4, <3>1, <3>2
  <2> QED
    BY <1>1, <1>3, <1>5, <2>1
<1>7. DaysBetween(i) = IF k = 0 THEN 0 ELSE k - 1
  BY <1>1, <1>3, <1>6 DEF DaysBetween, Larger
<1>8. CASE k = 0
  <2>0. e = d
    BY <1>1, <1>3, <1>8
  <2>1. e = d /\ E = S
    BY <2>0
  <2>2. DaysBetween(i) * Day = 0
    <3>1. DaysBetween(i) = 0
      BY <1>7, <1>8
    <3> QED
      BY <3>1
  <2> HIDE DEF d, e, S, E
  <2>3. DurOnDay(i, d) = i.end - i.start
    BY <1>1, <1>2, <2>1 DEF Larger, Smaller
  <2> QED
    BY <1>1, <2>1, <2>2, <2>3 DEF d, e
<1>9. CASE k > 0
  <2>1. e # d
    BY <1>1, <1>3, <1>9
  <2>2. w >= Day /\ DaysBetween(i) * Day = w - Day
    <3>1. (k - 1) * Day >= 0 /\ k * Day = (k - 1) * Day + Day /\ (k - 1) * Day \in Int
      BY <1>9
    <3> QED
      BY <1>4, <1>7, <1>9, <3>1
  <2> HIDE DEF d, e, S, E
  <2>3. DurOnDay(i, d) = S + Day - i.start /\ DurOnDay(i, e) = i.end - E
    BY <1>1, <1>2, <1>5, <2>2 DEF Larger, Smaller
  <2>4. DurOnDay(i, d) + DurOnDay(i, e) = i.end - i.start - DaysBetween(i) * Day
    BY <1>1, <1>5, <2>2, <2>3
  <2> QED
    BY <2>1, <2>4 DEF d, e
<1> QED
  BY <1>6, <1>8, <1>9

\* West of Greenwich the probe of a day lands on the day before: a session within
\* one day has no time on it (session-time.ts, durOnDay).
THEOREM WestLosesAll ==
    ASSUME NEW i \in [start : Int, end : Int], i.start <= i.end,
           LogicalDay(i.end) = StartDay(i),
           2 * Offset + Probe + Day \in 0 .. (Day - 1)
    PROVE  DurOnDay(i, StartDay(i)) = 0
<1> DEFINE d == StartDay(i)
           S == InstantOf(d)
<1>1. /\ d \in Int /\ S \in Int /\ i.start \in Int /\ i.end \in Int
      /\ S <= i.start /\ i.end < S + Day
  BY DayHolds DEF StartDay
<1>2. InstantOf(d + (-1)) + Day = S
  BY <1>1, NextDay
<1>3. /\ InstantOf(d + (-1)) \in Int
      /\ DurOnDay(i, d) = Larger(0, Smaller(i.end, S) - Larger(i.start, InstantOf(d + (-1))))
  BY <1>1, <1>2, ShareOf
<1> QED
  BY <1>1, <1>2, <1>3 DEF Larger, Smaller

HIDE TimeAssumption

-----------------------------------------------------------------------------
(* Type correctness *)

Tokens == [created : BOOLEAN, bit : BOOLEAN, cohort : Int \cup {None}]
Steps == {"queued", "late", "seed", "reread", "bit", "fold", "done", "failed"}
Messages == [start : Int, end : Int, sent : Int, received : Int]
Requests == {"none", "pending", "awaiting_seal", "reading", "clear", "purged", "executed"}

LEMMA TrustedType ==
    ASSUME NEW m \in Messages
    PROVE  Trusted(m) \in [start : Int, end : Int]
<1>1. Shift(m) \in Int
  BY TimeAssumption DEF Shift, Messages
<1>2. Corrected(m).start \in Int /\ Corrected(m).end \in Int
  <2> DEFINE over == m.end + Shift(m) - m.received
             back == IF over > 0 /\ m.end <= m.sent THEN over ELSE 0
  <2>1. over \in Int /\ back \in Int
    BY <1>1 DEF Messages
  <2> HIDE DEF back
  <2>2. Smaller(m.start + Shift(m) - back, m.received) \in Int
    BY <1>1, <2>1 DEF Smaller, Messages
  <2> QED
    BY <1>1, <2>1, <2>2 DEF Corrected, back, Messages
<1>3. TrustedDuration(m) \in Int
  BY <1>2, TimeAssumption DEF TrustedDuration, Larger, Smaller
<1> QED
  BY <1>2, <1>3 DEF Trusted

LEMMA DaysType ==
    /\ Days \subseteq Int
    /\ \A s \in Sessions :
         /\ IntervalOf(s) \in [start : Int, end : Int]
         /\ StartOf(s) \in Days /\ EndsOf(s) \subseteq Days
         /\ StartOf(s) = LogicalDay(IntervalOf(s).start)
<1>1. ASSUME NEW s \in Sessions
      PROVE  /\ IntervalOf(s) \in [start : Int, end : Int]
             /\ StartOf(s) = LogicalDay(IntervalOf(s).start)
             /\ StartOf(s) \in Int /\ EndsOf(s) \subseteq Int
  <2>1. IntervalOf(s) \in [start : Int, end : Int]
    BY SpineAssumption, TrustedType DEF IntervalOf, Messages
  <2>2. StartOf(s) = LogicalDay(IntervalOf(s).start)
    BY DEF StartOf, StartDay
  <2>3. LogicalDay(IntervalOf(s).start) \in Int /\ LogicalDay(IntervalOf(s).end) \in Int
    BY <2>1, DayHolds
  <2>4. EndsOf(s) \subseteq {LogicalDay(IntervalOf(s).end)}
    BY DEF EndsOf, EndDays
  <2> QED
    BY <2>1, <2>2, <2>3, <2>4
<1>2. Days \subseteq Int
  BY <1>1 DEF Days
<1>3. \A s \in Sessions : StartOf(s) \in Days /\ EndsOf(s) \subseteq Days
  BY DEF Days
<1> QED
  BY <1>1, <1>2, <1>3

LEMMA DurationType ==
    ASSUME NEW i \in [start : Int, end : Int], NEW d \in Int
    PROVE  DurOnDay(i, d) \in Nat
<1> DEFINE probe == d * Day + Offset + Probe
<1>1. probe \in Int
  BY TimeAssumption
<1>2. DayStart(probe) \in Int /\ DayEnd(probe) \in Int
  BY <1>1, DayHolds, TimeAssumption
<1> HIDE DEF probe
<1>3. Larger(0, Smaller(i.end, DayEnd(probe)) - Larger(i.start, DayStart(probe))) \in Nat
  BY <1>2 DEF Larger, Smaller
<1> QED
  BY <1>3 DEF DurOnDay, probe

LEMMA TypeInit == Init => TypeOK
<1> SUFFICES ASSUME Init PROVE TypeOK
  OBVIOUS
<1>1. now \in Int
  BY SpineAssumption DEF Init
<1>2. /\ pc \in [Sessions -> Steps] /\ todo \in [Sessions -> SUBSET DOMAIN Rank]
      /\ token \in [Sessions -> Tokens]
      /\ spine \in [Users -> Row \cup {None}] /\ scan = None
      /\ sess \in [Days -> TimeCell \cup {None}] /\ act \in [Days -> (SUBSET Users) \cup {None}]
      /\ ret \in [Days -> ReturnCell \cup {None}]
      /\ dirty = {} /\ returned = {} /\ hidden = {} /\ reopened = {} /\ upset = {}
      /\ erasure \in [Users -> {"none"}]
  <2>1. NoToken \in Tokens
    BY DEF NoToken, Tokens
  <2>2. pc \in [Sessions -> Steps] /\ todo \in [Sessions -> SUBSET DOMAIN Rank]
    BY DEF Init, Steps
  <2>3. token \in [Sessions -> Tokens]
    BY <2>1 DEF Init
  <2>4. sess \in [Days -> TimeCell \cup {None}] /\ act \in [Days -> (SUBSET Users) \cup {None}]
    BY DEF Init
  <2>5. ret \in [Days -> ReturnCell \cup {None}] /\ spine \in [Users -> Row \cup {None}]
    BY DEF Init
  <2>6. /\ scan = None /\ dirty = {} /\ returned = {} /\ hidden = {} /\ reopened = {} /\ upset = {}
        /\ erasure \in [Users -> {"none"}]
    BY DEF Init
  <2> QED
    BY <2>2, <2>3, <2>4, <2>5, <2>6
<1>3. NoTime \in TimeCell /\ NoReturns \in ReturnCell
  BY DEF NoTime, NoReturns, TimeCell, ReturnCell
<1>4. stored \in [sess : [Days -> TimeCell], act : [Days -> SUBSET Users], ret : [Days -> ReturnCell]]
  BY <1>3 DEF Init
<1> QED
  BY <1>1, <1>2, <1>4 DEF TypeOK, Tokens, Steps

\* A handler at step 7 has a user, and a bit or a cohort it works on is one of the
\* bitmap and of the days.
Owned ==
    \A s \in Sessions :
        /\ pc[s] \in {"seed", "reread", "bit"} \/ "act" \in todo[s] => UserOf[s] \in Users
        /\ pc[s] = "bit" => StartOf(s) - token[s].cohort \in 0 .. (Span - 1) /\ token[s].cohort \in Days
        /\ "size" \in todo[s] \/ "cell" \in todo[s] => token[s].cohort \in Days

\* What a handler changes in its own step.
LEMMA FoldType ==
    ASSUME TypeOK, NEW s \in Sessions, NEW found \in Tokens, Fold(s, found)
    PROVE  /\ pc' \in [Sessions -> Steps] /\ todo' \in [Sessions -> SUBSET DOMAIN Rank]
           /\ token' \in [Sessions -> Tokens]
  BY DEF Fold, TypeOK, Tokens, Steps, Plan, Rank

LEMMA PlaceType ==
    ASSUME TypeOK, NEW s \in Sessions, NEW created \in BOOLEAN, NEW first \in Int,
           Place(s, created, first)
    PROVE  /\ pc' \in [Sessions -> Steps] /\ todo' \in [Sessions -> SUBSET DOMAIN Rank]
           /\ token' \in [Sessions -> Tokens]
<1> DEFINE found == [created |-> created, bit |-> FALSE, cohort |-> LogicalDay(first)]
<1>1. LogicalDay(first) \in Int
  BY DayHolds
<1>2. found \in Tokens
  BY <1>1 DEF Tokens
<1>3. \/ /\ pc' = [pc EXCEPT ![s] = "bit"] /\ token' = [token EXCEPT ![s] = found]
         /\ UNCHANGED todo
      \/ Fold(s, found)
  BY DEF Place
<1> HIDE DEF found
<1>4. CASE Fold(s, found)
  BY <1>2, <1>4, FoldType
<1>5. CASE pc' = [pc EXCEPT ![s] = "bit"] /\ token' = [token EXCEPT ![s] = found] /\ UNCHANGED todo
  BY <1>2, <1>5 DEF TypeOK, Tokens, Steps
<1> QED
  BY <1>3, <1>4, <1>5

LEMMA FoldStepType ==
    ASSUME TypeOK, NEW s \in Sessions, NEW step, FoldStep(s, step)
    PROVE  /\ pc' \in [Sessions -> Steps] /\ todo' \in [Sessions -> SUBSET DOMAIN Rank]
           /\ token' \in [Sessions -> Tokens]
           /\ UNCHANGED <<now, spine, stored, scan, erasure, returned, hidden, upset>>
<1>1. NoToken \in Tokens
  BY DEF NoToken, Tokens
<1>2. /\ todo' = [todo EXCEPT ![s] = @ \ {step}]
      /\ \/ pc' = pc /\ token' = token
         \/ pc' = [pc EXCEPT ![s] = "done"] /\ token' = [token EXCEPT ![s] = NoToken]
      /\ UNCHANGED <<now, spine, stored, scan, erasure, returned, hidden, upset>>
  BY DEF FoldStep, privacy, bounds
<1>3. todo' \in [Sessions -> SUBSET DOMAIN Rank]
  BY <1>2 DEF TypeOK
<1>4. pc' \in [Sessions -> Steps]
  BY <1>2 DEF TypeOK, Steps
<1>5. token' \in [Sessions -> Tokens]
  BY <1>1, <1>2 DEF TypeOK, Tokens
<1> QED
  BY <1>2, <1>3, <1>4, <1>5

LEMMA TypeHandle ==
    ASSUME TypeOK, Owned, NEW s \in Sessions, Handle(s)
    PROVE  TypeOK'
<1> USE DEF Tokens, Steps, handlers, buckets, privacy, bounds
<1>0. NoToken \in Tokens
  BY DEF NoToken
<1>1. CASE Receive(s)
  <2>1. returned' \subseteq Users
    <3>1. UserOf[s] # None => UserOf[s] \in Users
      BY SpineAssumption
    <3> QED
      BY <1>1, <3>1 DEF Receive, TypeOK
  <2>2. /\ pc' \in [Sessions -> Steps] /\ todo' \in [Sessions -> SUBSET DOMAIN Rank]
        /\ token' \in [Sessions -> Tokens]
    <3>1. CASE Fold(s, NoToken)
      BY <1>0, <3>1, FoldType
    <3>2. CASE (\E p \in {"late", "seed"} : pc' = [pc EXCEPT ![s] = p]) /\ UNCHANGED <<todo, token>>
      BY <3>2 DEF TypeOK
    <3> QED
      BY <1>1, <3>1, <3>2 DEF Receive
  <2> QED
    BY <1>1, <2>1, <2>2 DEF Receive, TypeOK
<1>2. CASE Seed(s)
  <2> DEFINE first == IntervalOf(s).start
  <2>1. first \in Int
    BY DaysType
  <2>2. /\ pc' \in [Sessions -> Steps] /\ todo' \in [Sessions -> SUBSET DOMAIN Rank]
        /\ token' \in [Sessions -> Tokens]
    <3>1. CASE Place(s, TRUE, first)
      BY <2>1, <3>1, PlaceType
    <3>2. CASE pc' = [pc EXCEPT ![s] = "reread"] /\ UNCHANGED <<todo, token>>
      BY <3>2 DEF TypeOK
    <3> QED
      BY <1>2, <3>1, <3>2 DEF Seed
  <2>3. spine' \in [Users -> Row \cup {None}]
    <3>1. [first |-> first, bits |-> {}] \in Row
      BY <2>1 DEF Row
    <3>2. spine' = spine \/ spine' = [spine EXCEPT ![UserOf[s]] = [first |-> first, bits |-> {}]]
      BY <1>2 DEF Seed
    <3> QED
      BY <3>1, <3>2 DEF TypeOK
  <2> QED
    BY <1>2, <2>2, <2>3 DEF Seed, TypeOK
<1>3. CASE Reread(s)
  <2>1. /\ pc' \in [Sessions -> Steps] /\ todo' \in [Sessions -> SUBSET DOMAIN Rank]
        /\ token' \in [Sessions -> Tokens]
    <3>1. CASE spine[UserOf[s]] = None
      BY <1>3, <3>1 DEF Reread, TypeOK
    <3>2. CASE spine[UserOf[s]] # None
      <4>1. spine[UserOf[s]].first \in Int
        BY <1>3, <3>2 DEF TypeOK, Row, Owned, Reread
      <4>2. Place(s, FALSE, spine[UserOf[s]].first)
        BY <1>3, <3>2 DEF Reread
      <4> QED
        BY <4>1, <4>2, PlaceType
    <3> QED
      BY <3>1, <3>2
  <2> QED
    BY <1>3, <2>1 DEF Reread, TypeOK
<1>4. CASE SetBit(s)
  <2> DEFINE found(b) == [token[s] EXCEPT !.bit = b]
  <2>1. \A b \in BOOLEAN : found(b) \in Tokens
    BY DEF TypeOK
  <2> HIDE DEF found
  <2>2. \E b \in BOOLEAN : Fold(s, found(b))
    BY <1>4 DEF SetBit, found
  <2>3. /\ pc' \in [Sessions -> Steps] /\ todo' \in [Sessions -> SUBSET DOMAIN Rank]
        /\ token' \in [Sessions -> Tokens]
    BY <2>1, <2>2, FoldType
  <2>4. spine' \in [Users -> Row \cup {None}]
    <3> DEFINE u == UserOf[s]
               off == StartOf(s) - token[s].cohort
    <3>1. u \in Users
      BY <1>4 DEF SetBit, Owned
    <3>2. CASE spine' = spine
      BY <3>2 DEF TypeOK
    <3>3. CASE spine[u] # None /\ spine' = [spine EXCEPT ![u].bits = @ \cup {off}]
      <4>1. spine[u] \in Row
        BY <3>1, <3>3 DEF TypeOK
      <4>2. off \in 0 .. (Span - 1)
        BY <1>4 DEF SetBit, Owned
      <4> QED
        BY <3>1, <3>3, <4>1, <4>2 DEF TypeOK, Row
    <3> QED
      BY <1>4, <3>2, <3>3 DEF SetBit
  <2> QED
    BY <1>4, <2>3, <2>4 DEF SetBit, TypeOK
<1>5. ASSUME FoldStart(s) \/ FoldEnd(s)
      PROVE  TypeOK'
  <2>1. PICK d \in Days, n \in Nat : AddTime(d, n, DurOnDay(IntervalOf(s), d))
    <3>1. StartOf(s) \in Days /\ EndsOf(s) \subseteq Days
      BY DaysType
    <3> QED
      BY <1>5, <3>1 DEF FoldStart, FoldEnd
  <2>2. DurOnDay(IntervalOf(s), d) \in Nat
    BY DaysType, DurationType
  <2> DEFINE b == Filled(sess[d], stored.sess[d])
  <2>3. b \in TimeCell
    BY DEF Filled, TypeOK
  <2>4. /\ sess' = [sess EXCEPT ![d] = [count |-> b.count + n, touching |-> b.touching + 1,
                                        dur |-> b.dur + DurOnDay(IntervalOf(s), d)]]
        /\ dirty' = dirty \cup {<<"sess", d>>} /\ UNCHANGED <<act, ret, reopened>>
    BY <2>1 DEF AddTime
  <2> HIDE DEF b
  <2>5. sess' \in [Days -> TimeCell \cup {None}]
    BY <2>2, <2>3, <2>4 DEF TypeOK, TimeCell
  <2>6. \E step : FoldStep(s, step)
    BY <1>5 DEF FoldStart, FoldEnd
  <2>7. dirty' \subseteq {"sess", "act", "ret"} \X Days
    BY <2>4 DEF TypeOK
  <2>8. /\ erasure' \in [Users -> Requests]
        /\ {returned', hidden'} \subseteq SUBSET Users /\ reopened' \subseteq Days
    BY <2>4, <2>6, FoldStepType DEF TypeOK, Requests
  <2> QED
    BY <2>4, <2>5, <2>6, <2>7, <2>8, FoldStepType, ZenonT(60) DEF TypeOK, Requests
<1>6. CASE FoldActive(s)
  <2>1. UserOf[s] \in Users
    BY <1>6 DEF FoldActive, FoldStep, Owned
  <2>2. act' \in [Days -> (SUBSET Users) \cup {None}]
    BY <1>6, <2>1, ZenonT(60) DEF FoldActive, TypeOK, Filled
  <2>3. dirty' \subseteq {"sess", "act", "ret"} \X Days
    BY <1>6, DaysType DEF FoldActive, TypeOK
  <2>4. reopened' \subseteq Days
    BY <1>6, DaysType DEF FoldActive, TypeOK
  <2>5. /\ erasure' \in [Users -> Requests] /\ {returned', hidden'} \subseteq SUBSET Users
    BY <1>6, FoldStepType DEF FoldActive, TypeOK, Requests
  <2> QED
    BY <1>6, <2>2, <2>3, <2>4, <2>5, FoldStepType, ZenonT(60) DEF FoldActive, TypeOK, Requests
<1>7. CASE FoldNewUser(s)
  <2> DEFINE c == token[s].cohort
             b == Filled(ret[c], stored.ret[c])
  <2>0. c \in Days
    BY <1>7 DEF FoldNewUser, FoldStep, Owned
  <2>1. b \in ReturnCell
    BY <2>0 DEF Filled, TypeOK
  <2>2. /\ ret' = [ret EXCEPT ![c] = [b EXCEPT !.size = @ + 1]]
        /\ UNCHANGED <<sess, act, reopened>> /\ dirty' = dirty \cup {<<"ret", c>>}
    BY <1>7 DEF FoldNewUser
  <2> HIDE DEF b
  <2>3. [b EXCEPT !.size = @ + 1] \in ReturnCell
    BY <2>1 DEF ReturnCell
  <2>5. ret' \in [Days -> ReturnCell \cup {None}]
    BY <2>2, <2>3 DEF TypeOK
  <2>4. FoldStep(s, "size")
    BY <1>7 DEF FoldNewUser
  <2> QED
    BY <2>0, <2>2, <2>4, <2>5, FoldStepType DEF TypeOK
<1>8. CASE FoldReturn(s)
  <2> DEFINE d == StartOf(s)
             b == Filled(ret[d], stored.ret[d])
  <2>1. b \in ReturnCell /\ d \in Days
    BY DaysType DEF Filled, TypeOK
  <2>2. /\ ret' = [ret EXCEPT ![d] = [b EXCEPT !.cell[token[s].cohort] = @ + 1]]
        /\ UNCHANGED <<sess, act, reopened>> /\ dirty' = dirty \cup {<<"ret", d>>}
    BY <1>8 DEF FoldReturn
  <2> HIDE DEF b, d
  <2>3. [b EXCEPT !.cell[token[s].cohort] = @ + 1] \in ReturnCell
    BY <2>1 DEF ReturnCell
  <2>4. ret' \in [Days -> ReturnCell \cup {None}]
    BY <2>2, <2>3 DEF TypeOK
  <2>5. FoldStep(s, "cell")
    BY <1>8 DEF FoldReturn
  <2> QED
    BY <2>1, <2>2, <2>4, <2>5, FoldStepType DEF TypeOK
<1>9. CASE Fail(s)
  BY <1>0, <1>9 DEF Fail, TypeOK
<1> QED
  BY <1>1, <1>2, <1>3, <1>4, <1>5, <1>6, <1>7, <1>8, <1>9 DEF Handle

\* A merge of two cells is a cell, and the greater of each figure.
LEMMA MergeType ==
    /\ \A a, b \in TimeCell : MergeTime(a, b) \in TimeCell
    /\ \A a, b \in ReturnCell :
         /\ MergeReturns(a, b) \in ReturnCell
         /\ MergeReturns(a, b).size = Larger(a.size, b.size)
         /\ \A c \in Days : MergeReturns(a, b).cell[c] = Larger(a.cell[c], b.cell[c])
<1>1. \A n, m \in Nat : Larger(n, m) \in Nat
  BY DEF Larger
<1>2. ASSUME NEW a \in TimeCell, NEW b \in TimeCell PROVE MergeTime(a, b) \in TimeCell
  <2>1. MergeTime(a, b) = [count |-> Larger(a.count, b.count),
                           touching |-> Larger(a.touching, b.touching),
                           dur |-> Larger(a.dur, b.dur)]
    BY DEF MergeTime, NoTime
  <2> QED
    BY <1>1, <2>1 DEF TimeCell
<1>3. ASSUME NEW a \in ReturnCell, NEW b \in ReturnCell
      PROVE  /\ MergeReturns(a, b) \in ReturnCell
             /\ MergeReturns(a, b).size = Larger(a.size, b.size)
             /\ \A c \in Days : MergeReturns(a, b).cell[c] = Larger(a.cell[c], b.cell[c])
  <2>1. \A c \in Days : Larger(a.cell[c], b.cell[c]) \in Nat
    BY <1>1 DEF ReturnCell
  <2>2. Larger(a.size, b.size) \in Nat
    BY <1>1 DEF ReturnCell
  <2> QED
    BY <2>1, <2>2 DEF MergeReturns, ReturnCell
<1> QED
  BY <1>2, <1>3

\* A sweep merges every dirty bucket that is there, and no other.
LEMMA SweptRows ==
    ASSUME TypeOK, Sweep
    PROVE  /\ stored' \in [sess : [Days -> TimeCell], act : [Days -> SUBSET Users], ret : [Days -> ReturnCell]]
           /\ \A d \in Days : stored'.ret[d] = IF <<"ret", d>> \in dirty /\ ret[d] # None
                                               THEN MergeReturns(stored.ret[d], ret[d])
                                               ELSE stored.ret[d]
<1> DEFINE inSess == [d \in Days |-> IF <<"sess", d>> \in dirty /\ sess[d] # None
                                     THEN MergeTime(stored.sess[d], sess[d]) ELSE stored.sess[d]]
           inAct == [d \in Days |-> IF <<"act", d>> \in dirty /\ act[d] # None
                                    THEN stored.act[d] \cup act[d] ELSE stored.act[d]]
           inRet == [d \in Days |-> IF <<"ret", d>> \in dirty /\ ret[d] # None
                                    THEN MergeReturns(stored.ret[d], ret[d]) ELSE stored.ret[d]]
<1>1. stored' = [sess |-> inSess, act |-> inAct, ret |-> inRet]
  BY DEF Sweep, Merged
<1>2. inSess \in [Days -> TimeCell]
  BY MergeType DEF TypeOK
<1>3. inAct \in [Days -> SUBSET Users]
  BY DEF TypeOK
<1>4. inRet \in [Days -> ReturnCell]
  BY MergeType DEF TypeOK
<1> QED
  BY <1>1, <1>2, <1>3, <1>4

\* What the re-scan finds in a table of rows.
LEMMA ProjectionType ==
    ASSUME NEW table \in [Users -> Row \cup {None}]
    PROVE  /\ \A d \in Days : Projection(table).act[d] \subseteq Users
           /\ \A d \in Days : Projection(table).ret[d] \in ReturnCell
           /\ \A d \in Days : Projection(table).ret[d].size =
                  Cardinality({u \in Users : table[u] # None /\ Cohort(table[u]) = d})
           /\ \A d, c \in Days : Projection(table).ret[d].cell[c] =
                  Cardinality({u \in Users : /\ table[u] # None /\ Cohort(table[u]) = c
                                             /\ d - c \in table[u].bits})
<1> DEFINE known == {u \in Users : table[u] # None}
           Sized(d) == {u \in known : Cohort(table[u]) = d}
           Back(d, c) == {u \in known : Cohort(table[u]) = c /\ d - c \in table[u].bits}
<1>1. \A d, c : Cardinality(Sized(d)) \in Nat /\ Cardinality(Back(d, c)) \in Nat
  <2> TAKE d, c
  <2>1. Sized(d) \in SUBSET Users /\ Back(d, c) \in SUBSET Users
    OBVIOUS
  <2> HIDE DEF Sized, Back
  <2>2. IsFiniteSet(Sized(d)) /\ IsFiniteSet(Back(d, c))
    BY <2>1, SpineAssumption, FS_Subset
  <2> QED
    BY <2>2, FS_CardinalityType
<1>2. Projection(table).ret = [d \in Days |-> [size |-> Cardinality(Sized(d)),
                                         cell |-> [c \in Days |-> Cardinality(Back(d, c))]]]
  BY DEF Projection
<1>3. Projection(table).act = [d \in Days |-> {u \in known : d - Cohort(table[u]) \in table[u].bits}]
  BY DEF Projection
<1>4. \A d, c : /\ Sized(d) = {u \in Users : table[u] # None /\ Cohort(table[u]) = d}
                /\ Back(d, c) = {u \in Users : /\ table[u] # None /\ Cohort(table[u]) = c
                                               /\ d - c \in table[u].bits}
  OBVIOUS
<1> HIDE DEF Sized, Back
<1>5. ASSUME NEW d \in Days
      PROVE  /\ Projection(table).ret[d] \in ReturnCell
             /\ Projection(table).ret[d].size = Cardinality(Sized(d))
             /\ \A c \in Days : Projection(table).ret[d].cell[c] = Cardinality(Back(d, c))
  <2> DEFINE row == [c \in Days |-> Cardinality(Back(d, c))]
             cell == Projection(table).ret[d]
  <2>1. cell = [size |-> Cardinality(Sized(d)), cell |-> row]
    BY <1>2
  <2>2. row \in [Days -> Nat] /\ \A c \in Days : row[c] = Cardinality(Back(d, c))
    BY <1>1
  <2> HIDE DEF row, cell
  <2>3. cell \in ReturnCell /\ cell.size = Cardinality(Sized(d)) /\ cell.cell = row
    BY <1>1, <2>1, <2>2 DEF ReturnCell
  <2>4. /\ cell \in ReturnCell /\ cell.size = Cardinality(Sized(d))
        /\ \A c \in Days : cell.cell[c] = Cardinality(Back(d, c))
    BY <2>2, <2>3
  <2> QED
    BY <2>4 DEF cell
<1>6. \A d \in Days : Projection(table).act[d] \subseteq Users
  BY <1>3
<1> QED
  BY <1>4, <1>5, <1>6

LEMMA TypeErase ==
    ASSUME TypeOK, NEW u \in Users, Erase(u)
    PROVE  TypeOK'
<1> USE DEF handlers, buckets, privacy, bounds, Requests
<1>0. CASE EnumerateSpine(u)
  <2>1. returned' \subseteq Users
    BY <1>0 DEF EnumerateSpine, EnumerateFrom, TypeOK
  <2>2. erasure' \in [Users -> Requests]
    BY <1>0 DEF EnumerateSpine, EnumerateFrom, TypeOK
  <2> QED
    BY <1>0, <2>1, <2>2 DEF EnumerateSpine, EnumerateFrom, TypeOK
<1>1. CASE EnumerateActive(u)
  <2>1. hidden' \subseteq Users
    BY <1>1 DEF EnumerateActive, TypeOK
  <2>2. erasure' \in [Users -> Requests]
    BY <1>1 DEF EnumerateActive, TypeOK
  <2> QED
    BY <1>1, <2>1, <2>2 DEF EnumerateActive, TypeOK
<1>2. CASE Purge(u)
  <2>1. spine' \in [Users -> Row \cup {None}]
    BY <1>2 DEF Purge, TypeOK
  <2>2. stored' \in [sess : [Days -> TimeCell], act : [Days -> SUBSET Users], ret : [Days -> ReturnCell]]
    <3>1. [d \in Days |-> stored.act[d] \ {u}] \in [Days -> SUBSET Users]
      BY DEF TypeOK
    <3>2. stored' = [stored EXCEPT !.act = [d \in Days |-> stored.act[d] \ {u}]]
      BY <1>2 DEF Purge
    <3> QED
      BY <3>1, <3>2 DEF TypeOK
  <2>3. upset' \subseteq {"failed", "lost", "erased"}
    BY <1>2 DEF Purge, TypeOK
  <2>4. erasure' \in [Users -> Requests]
    BY <1>2 DEF Purge, TypeOK
  <2> QED
    BY <1>2, <2>1, <2>2, <2>3, <2>4 DEF Purge, TypeOK
<1>3. CASE CloseEntry(u) \/ EraseFails(u)
  <2>1. erasure' \in [Users -> Requests]
    BY <1>3 DEF CloseEntry, EraseFails, TypeOK
  <2> QED
    BY <1>3, <2>1, ZenonT(60) DEF CloseEntry, EraseFails, TypeOK
<1> QED
  BY <1>0, <1>1, <1>2, <1>3 DEF Erase

LEMMA TypeRest ==
    ASSUME TypeOK, Sweep \/ LoseRedis \/ RescanRead \/ RescanWrite \/ Tick
    PROVE  TypeOK'
<1> USE DEF handlers, buckets, privacy, bounds
<1>1. CASE Sweep
  <2>1. stored' \in [sess : [Days -> TimeCell], act : [Days -> SUBSET Users], ret : [Days -> ReturnCell]]
    BY <1>1, SweptRows
  <2> QED
    BY <1>1, <2>1 DEF Sweep, TypeOK
<1>2. CASE LoseRedis
  <2>1. /\ sess' \in [Days -> TimeCell \cup {None}] /\ act' \in [Days -> (SUBSET Users) \cup {None}]
        /\ ret' \in [Days -> ReturnCell \cup {None}]
    BY <1>2 DEF LoseRedis
  <2> QED
    BY <1>2, <2>1 DEF LoseRedis, TypeOK
<1>3. CASE RescanRead
  BY <1>3 DEF RescanRead, TypeOK
<1>4. CASE RescanWrite
  <2> DEFINE found == Projection(scan)
             inRet == [d \in Days |-> MergeReturns(stored.ret[d], found.ret[d])]
             inAct == [d \in Days |-> stored.act[d] \cup found.act[d]]
  <2>1. /\ \A d \in Days : found.act[d] \subseteq Users
        /\ \A d \in Days : found.ret[d] \in ReturnCell
    BY <1>4, ProjectionType DEF RescanWrite, TypeOK
  <2>2. stored' = [stored EXCEPT !.ret = inRet, !.act = inAct] /\ scan' = None
    BY <1>4 DEF RescanWrite
  <2>3. inRet \in [Days -> ReturnCell]
    BY <2>1, MergeType DEF TypeOK
  <2>4. inAct \in [Days -> SUBSET Users]
    BY <2>1 DEF TypeOK
  <2> HIDE DEF inRet, inAct
  <2>5. stored' \in [sess : [Days -> TimeCell], act : [Days -> SUBSET Users], ret : [Days -> ReturnCell]]
    BY <2>2, <2>3, <2>4 DEF TypeOK
  <2> QED
    BY <1>4, <2>2, <2>5 DEF RescanWrite, TypeOK
<1>5. CASE Tick
  BY <1>5, SpineAssumption DEF Tick, TypeOK
<1> QED
  BY <1>1, <1>2, <1>3, <1>4, <1>5

-----------------------------------------------------------------------------
(* The handlers and the history of the spine *)

\* What is left to fold belongs to a handler at step 8.
TodoAtFold == \A s \in Sessions : pc[s] # "fold" => todo[s] = {}

\* The cohort of a row is a day some session starts on.
CohortsAreDays == \A u \in Users : spine[u] # None => Cohort(spine[u]) \in Days

\* A session has seeded a row, or set a bit, at most one, and only once it is past
\* that step.
History ==
    /\ rows \subseteq Sessions \X Days /\ IsFiniteSet(rows)
    /\ \A s \in Sessions, c \in Days : <<s, c>> \in rows =>
          /\ pc[s] \in {"bit", "fold", "done", "failed"}
          /\ \A d \in Days : <<s, d>> \in rows => d = c
    /\ marks \subseteq Sessions \X Days \X (0 .. (Span - 1)) /\ IsFiniteSet(marks)
    /\ \A s \in Sessions, c \in Days, b \in 0 .. (Span - 1) :
          <<s, c, b>> \in marks =>
             /\ pc[s] \in {"fold", "done", "failed"}
             /\ \A d \in Days, e \in 0 .. (Span - 1) : <<s, d, e>> \in marks => d = c /\ e = b

\* A handler that will add a user to a cohort has seeded the row, and one that
\* will add a return has set the bit.
Growing(s) == "size" \in todo[s] \/ (pc[s] = "bit" /\ token[s].created)
Promised ==
    \A s \in Sessions :
        /\ Growing(s) => <<s, token[s].cohort>> \in rows
        /\ "cell" \in todo[s] => <<s, token[s].cohort, StartOf(s) - token[s].cohort>> \in marks

\* A re-scan that waits for quiet keeps it.
ScanIsQuiet == QuietRescan /\ scan # None => Quiet

Base == TypeOK /\ Owned /\ TodoAtFold /\ CohortsAreDays /\ History /\ Promised /\ ScanIsQuiet

LEMMA BaseInit == Init => Base
<1> SUFFICES ASSUME Init PROVE Base
  OBVIOUS
<1>1. /\ \A s \in Sessions : pc[s] = "queued" /\ todo[s] = {}
      /\ \A u \in Users : spine[u] = None
      /\ rows = {} /\ marks = {} /\ scan = None
  BY DEF Init
<1>2. IsFiniteSet({})
  BY FS_EmptySet
<1> QED
  BY <1>1, <1>2, TypeInit DEF Base, Owned, TodoAtFold, CohortsAreDays, History, Promised, Growing, ScanIsQuiet

LEMMA PlanHas ==
    ASSUME NEW s, NEW found
    PROVE  /\ "size" \in Plan(s, found) <=> found.created
           /\ "cell" \in Plan(s, found) <=> found.bit
           /\ "act" \in Plan(s, found) <=> UserOf[s] # None
  BY DEF Plan

\* What the steps of a handler do to the handler, to the spine and to its history.
\* The session of a new row starts its cohort.
LEMMA SeedDoes ==
    ASSUME Base, NEW s \in Sessions, Seed(s)
    PROVE  /\ pc[s] = "seed" /\ UserOf[s] \in Users
           /\ UNCHANGED <<ret, stored, dirty, scan, marks, upset, todo>>
           /\ \/ /\ spine[UserOf[s]] = None
                 /\ spine' = [spine EXCEPT ![UserOf[s]] = [first |-> IntervalOf(s).start, bits |-> {}]]
                 /\ rows' = rows \cup {<<s, StartOf(s)>>}
                 /\ pc' = [pc EXCEPT ![s] = "bit"]
                 /\ token' = [token EXCEPT ![s] = [created |-> TRUE, bit |-> FALSE, cohort |-> StartOf(s)]]
              \/ /\ spine[UserOf[s]] # None
                 /\ pc' = [pc EXCEPT ![s] = "reread"] /\ UNCHANGED <<spine, rows, token>>
<1> DEFINE first == IntervalOf(s).start
           found == [created |-> TRUE, bit |-> FALSE, cohort |-> LogicalDay(first)]
<1>1. LogicalDay(first) = StartOf(s) /\ StartOf(s) \in Int
  BY DaysType
<1>2. StartOf(s) - found.cohort \in 0 .. (Span - 1)
  BY <1>1, SpineAssumption
<1>3. Place(s, TRUE, first) =>
         /\ pc' = [pc EXCEPT ![s] = "bit"] /\ UNCHANGED todo
         /\ token' = [token EXCEPT ![s] = [created |-> TRUE, bit |-> FALSE, cohort |-> StartOf(s)]]
  BY <1>1, <1>2 DEF Place
<1>4. pc[s] = "seed" /\ UserOf[s] \in Users
  BY DEF Seed, Base, Owned
<1>5. UNCHANGED <<ret, stored, dirty, scan, marks, upset>>
  BY DEF Seed, buckets, bounds
<1>6. CASE spine[UserOf[s]] = None
  BY <1>1, <1>3, <1>4, <1>5, <1>6 DEF Seed
<1>7. CASE spine[UserOf[s]] # None
  BY <1>4, <1>5, <1>7 DEF Seed
<1> QED
  BY <1>6, <1>7

LEMMA RereadDoes ==
    ASSUME Base, NEW s \in Sessions, Reread(s)
    PROVE  /\ pc[s] = "reread" /\ UserOf[s] \in Users
           /\ UNCHANGED <<ret, stored, dirty, scan, spine, rows, marks, upset>>
           /\ \/ pc' = [pc EXCEPT ![s] = "failed"] /\ UNCHANGED <<todo, token>>
              \/ /\ spine[UserOf[s]] # None
                 /\ token' = [token EXCEPT ![s] = [created |-> FALSE, bit |-> FALSE,
                                                   cohort |-> Cohort(spine[UserOf[s]])]]
                 /\ \/ /\ pc' = [pc EXCEPT ![s] = "bit"] /\ UNCHANGED todo
                       /\ StartOf(s) - Cohort(spine[UserOf[s]]) \in 0 .. (Span - 1)
                    \/ /\ pc' = [pc EXCEPT ![s] = "fold"]
                       /\ \E T : /\ todo' = [todo EXCEPT ![s] = T]
                                 /\ "size" \notin T /\ "cell" \notin T
<1> DEFINE first == spine[UserOf[s]].first
           found == [created |-> FALSE, bit |-> FALSE, cohort |-> LogicalDay(first)]
<1>1. pc[s] = "reread" /\ UserOf[s] \in Users
  BY DEF Reread, Base, Owned
<1>2. UNCHANGED <<ret, stored, dirty, scan, spine, rows, marks, upset>>
  BY DEF Reread, buckets, bounds
<1>3. CASE spine[UserOf[s]] = None
  BY <1>1, <1>2, <1>3 DEF Reread
<1>4. CASE spine[UserOf[s]] # None
  <2>1. Place(s, FALSE, first)
    BY <1>4 DEF Reread
  <2>2. LogicalDay(first) = Cohort(spine[UserOf[s]])
    BY DEF Cohort
  <2>3. CASE StartOf(s) - found.cohort \in 0 .. (Span - 1)
    BY <1>1, <1>2, <1>4, <2>1, <2>2, <2>3 DEF Place
  <2>4. CASE ~(StartOf(s) - found.cohort \in 0 .. (Span - 1))
    <3>1. Fold(s, found)
      BY <2>1, <2>4 DEF Place
    <3>2. "size" \notin Plan(s, found) /\ "cell" \notin Plan(s, found)
      BY PlanHas
    <3>3. /\ pc' = [pc EXCEPT ![s] = "fold"] /\ todo' = [todo EXCEPT ![s] = Plan(s, found)]
          /\ token' = [token EXCEPT ![s] = found]
      BY <3>1 DEF Fold
    <3> QED
      BY <1>1, <1>2, <1>4, <2>2, <3>2, <3>3
  <2> QED
    BY <2>3, <2>4
<1> QED
  BY <1>3, <1>4

LEMMA SetBitDoes ==
    ASSUME Base, NEW s \in Sessions, SetBit(s),
           NEW u, u = UserOf[s], NEW off, off = StartOf(s) - token[s].cohort
    PROVE  /\ pc[s] = "bit" /\ u \in Users /\ off \in 0 .. (Span - 1) /\ token[s].cohort \in Days
           /\ UNCHANGED <<ret, stored, dirty, scan, rows, upset>>
           /\ pc' = [pc EXCEPT ![s] = "fold"]
           /\ \E T, k :
                 /\ todo' = [todo EXCEPT ![s] = T] /\ token' = [token EXCEPT ![s] = k]
                 /\ k.created = token[s].created /\ k.cohort = token[s].cohort
                 /\ "size" \in T <=> token[s].created
                 /\ \/ /\ spine[u] # None /\ off \notin spine[u].bits
                       /\ "cell" \in T
                       /\ spine' = [spine EXCEPT ![u].bits = @ \cup {off}]
                       /\ marks' = marks \cup {<<s, token[s].cohort, off>>}
                    \/ /\ spine[u] = None \/ off \in spine[u].bits
                       /\ "cell" \notin T
                       /\ UNCHANGED <<spine, marks>>
<1> DEFINE turned == spine[u] # None /\ off \notin spine[u].bits
           found == [token[s] EXCEPT !.bit = turned]
<1>1. /\ pc[s] = "bit" /\ u \in Users /\ off \in 0 .. (Span - 1) /\ token[s].cohort \in Days
      /\ UNCHANGED <<ret, stored, dirty, scan, rows, upset>>
  BY DEF SetBit, Base, Owned, buckets, bounds
<1>2. /\ spine' = IF turned THEN [spine EXCEPT ![u].bits = @ \cup {off}] ELSE spine
      /\ marks' = IF turned THEN marks \cup {<<s, token[s].cohort, off>>} ELSE marks
      /\ Fold(s, found)
  BY DEF SetBit
<1>3. turned \in BOOLEAN
  OBVIOUS
<1>7. turned <=> spine[u] # None /\ off \notin spine[u].bits
  OBVIOUS
<1> HIDE DEF turned
<1>4. found.created = token[s].created /\ found.bit = turned /\ found.cohort = token[s].cohort
  BY DEF Base, TypeOK
<1> HIDE DEF found
<1>5. /\ "size" \in Plan(s, found) <=> token[s].created
      /\ "cell" \in Plan(s, found) <=> turned
  <2>1. "size" \in Plan(s, found) <=> found.created
    BY PlanHas
  <2>2. "cell" \in Plan(s, found) <=> found.bit
    BY PlanHas
  <2> QED
    BY <1>3, <1>4, <2>1, <2>2
<1>6. /\ pc' = [pc EXCEPT ![s] = "fold"] /\ todo' = [todo EXCEPT ![s] = Plan(s, found)]
      /\ token' = [token EXCEPT ![s] = found]
  BY <1>2 DEF Fold
<1>8. CASE turned
  BY <1>1, <1>2, <1>4, <1>5, <1>6, <1>7, <1>8
<1>9. CASE ~turned
  BY <1>1, <1>2, <1>4, <1>5, <1>6, <1>7, <1>9
<1> QED
  BY <1>8, <1>9

LEMMA ReceiveDoes ==
    ASSUME Base, NEW s \in Sessions, Receive(s)
    PROVE  /\ pc[s] = "queued" /\ (QuietRescan => scan = None)
           /\ UNCHANGED <<ret, stored, dirty, scan, spine, rows, marks, upset>>
           /\ \/ pc' = [pc EXCEPT ![s] = "late"] /\ UNCHANGED <<todo, token>>
              \/ /\ pc' = [pc EXCEPT ![s] = "seed"] /\ UNCHANGED <<todo, token>>
                 /\ UserOf[s] \in Users
              \/ /\ pc' = [pc EXCEPT ![s] = "fold"]
                 /\ \E T, k : /\ todo' = [todo EXCEPT ![s] = T] /\ token' = [token EXCEPT ![s] = k]
                              /\ "size" \notin T /\ "cell" \notin T /\ "act" \notin T
<1>1. /\ pc[s] = "queued" /\ (QuietRescan => scan = None)
      /\ UNCHANGED <<ret, stored, dirty, scan, spine, rows, marks, upset>>
  BY DEF Receive, buckets, bounds
<1>2. CASE Late(s)
  BY <1>1, <1>2 DEF Receive
<1>3. CASE UserOf[s] = None /\ Fold(s, NoToken)
  <2>1. ~NoToken.created /\ ~NoToken.bit
    BY DEF NoToken
  <2>2. "size" \notin Plan(s, NoToken) /\ "cell" \notin Plan(s, NoToken) /\ "act" \notin Plan(s, NoToken)
    BY <1>3, <2>1, PlanHas
  <2> QED
    BY <1>1, <1>3, <2>2 DEF Fold
<1>4. CASE UserOf[s] # None /\ pc' = [pc EXCEPT ![s] = "seed"] /\ UNCHANGED <<todo, token>>
  BY <1>1, <1>4, SpineAssumption
<1> QED
  BY <1>2, <1>3, <1>4 DEF Receive

LEMMA FoldDoes ==
    ASSUME NEW s \in Sessions, NEW step, FoldStep(s, step)
    PROVE  /\ pc[s] = "fold" /\ step \in todo[s]
           /\ todo' = [todo EXCEPT ![s] = todo[s] \ {step}]
           /\ UNCHANGED <<stored, scan, spine, rows, marks, upset>>
           /\ \/ UNCHANGED <<pc, token>>
              \/ /\ todo[s] = {step} /\ pc' = [pc EXCEPT ![s] = "done"]
                 /\ token' = [token EXCEPT ![s] = NoToken]
  BY DEF FoldStep, bounds

LEMMA FailDoes ==
    ASSUME NEW s \in Sessions, Fail(s)
    PROVE  /\ pc[s] \in {"seed", "reread", "bit", "fold"}
           /\ pc' = [pc EXCEPT ![s] = "failed"] /\ todo' = [todo EXCEPT ![s] = {}]
           /\ token' = [token EXCEPT ![s] = NoToken]
           /\ upset' = upset \cup {"failed"}
           /\ UNCHANGED <<ret, stored, dirty, scan, spine, rows, marks>>
  BY DEF Fail, buckets

LEMMA BaseHandle ==
    ASSUME Base, NEW s \in Sessions, Handle(s)
    PROVE  Base'
<1> USE DEF Tokens, Steps
<1>0. TypeOK'
  BY TypeHandle DEF Base
<1>1. /\ pc \in [Sessions -> Steps] /\ todo \in [Sessions -> SUBSET DOMAIN Rank]
      /\ token \in [Sessions -> Tokens] /\ spine \in [Users -> Row \cup {None}]
  BY DEF Base, TypeOK
<1> DEFINE Others == Owned /\ TodoAtFold /\ CohortsAreDays /\ History /\ Promised
<1>2. Others'
  <2> USE DEF Base, Growing
  <2>1. CASE Receive(s)
    <3>1. /\ \A r \in Sessions \ {s} : pc'[r] = pc[r] /\ todo'[r] = todo[r] /\ token'[r] = token[r]
          /\ pc'[s] \in {"late", "seed", "fold"} /\ (pc'[s] = "seed" => UserOf[s] \in Users)
          /\ "size" \notin todo'[s] /\ "cell" \notin todo'[s] /\ "act" \notin todo'[s]
          /\ pc'[s] # "fold" => todo'[s] = {}
      BY <1>1, <2>1, ReceiveDoes DEF TodoAtFold
    <3>2. pc[s] = "queued" /\ UNCHANGED <<spine, rows, marks>>
      BY <2>1, ReceiveDoes
    <3>3. Owned'
      BY <3>1 DEF Owned
    <3>4. TodoAtFold'
      BY <3>1 DEF TodoAtFold
    <3>5. CohortsAreDays'
      BY <3>2 DEF CohortsAreDays
    <3>6. History'
      BY <3>1, <3>2 DEF History
    <3>7. Promised'
      BY <3>1, <3>2 DEF Promised
    <3> QED
      BY <3>3, <3>4, <3>5, <3>6, <3>7
  <2>2. CASE Seed(s)
    <3>1. /\ \A r \in Sessions \ {s} : pc'[r] = pc[r] /\ todo'[r] = todo[r] /\ token'[r] = token[r]
          /\ pc[s] = "seed" /\ UserOf[s] \in Users
          /\ todo'[s] = {}
      BY <1>1, <2>2, SeedDoes, ZenonT(60) DEF TodoAtFold
    <3>2. StartOf(s) \in Days /\ 0 \in 0 .. (Span - 1) /\ StartOf(s) - StartOf(s) = 0
      <4>1. StartOf(s) \in Days /\ StartOf(s) \in Int
        BY DaysType
      <4> QED
        BY <4>1, SpineAssumption
    <3>3. UNCHANGED marks
      BY <2>2, SeedDoes
    <3>4. CASE /\ spine' = [spine EXCEPT ![UserOf[s]] = [first |-> IntervalOf(s).start, bits |-> {}]]
               /\ rows' = rows \cup {<<s, StartOf(s)>>}
               /\ pc' = [pc EXCEPT ![s] = "bit"]
               /\ token' = [token EXCEPT ![s] = [created |-> TRUE, bit |-> FALSE, cohort |-> StartOf(s)]]
      <4>1. pc'[s] = "bit" /\ token'[s].created /\ token'[s].cohort = StartOf(s)
        BY <1>1, <3>4
      <4>2. Owned'
        BY <3>1, <3>2, <4>1 DEF Owned
      <4>3. TodoAtFold'
        BY <3>1 DEF TodoAtFold
      <4>4. CohortsAreDays'
        <5>1. Cohort([first |-> IntervalOf(s).start, bits |-> {}]) = StartOf(s)
          BY DaysType DEF Cohort
        <5> QED
          BY <1>1, <3>2, <3>4, <5>1 DEF CohortsAreDays
      <4>5. History'
        <5>1. IsFiniteSet(rows')
          BY <3>4, FS_AddElement DEF History
        <5> QED
          BY <3>1, <3>2, <3>3, <3>4, <4>1, <5>1 DEF History
      <4>6. Promised'
        BY <3>1, <3>3, <3>4, <4>1 DEF Promised
      <4> QED
        BY <4>2, <4>3, <4>4, <4>5, <4>6
    <3>5. CASE pc' = [pc EXCEPT ![s] = "reread"] /\ UNCHANGED <<spine, rows, token>>
      <4>1. pc'[s] = "reread"
        BY <1>1, <3>5
      <4>2. Owned'
        BY <3>1, <4>1 DEF Owned
      <4>3. TodoAtFold'
        BY <3>1 DEF TodoAtFold
      <4>4. CohortsAreDays'
        BY <3>5 DEF CohortsAreDays
      <4>5. History'
        BY <3>1, <3>3, <3>5, <4>1 DEF History
      <4>6. Promised'
        BY <3>1, <3>3, <3>5, <4>1 DEF Promised
      <4> QED
        BY <4>2, <4>3, <4>4, <4>5, <4>6
    <3> QED
      BY <2>2, <3>4, <3>5, SeedDoes
  <2>3. CASE Reread(s)
    <3>1. /\ \A r \in Sessions \ {s} : pc'[r] = pc[r] /\ todo'[r] = todo[r] /\ token'[r] = token[r]
          /\ pc[s] = "reread" /\ UserOf[s] \in Users /\ pc'[s] \in {"bit", "fold", "failed"}
          /\ pc'[s] # "fold" => todo'[s] = {}
          /\ "size" \notin todo'[s] /\ "cell" \notin todo'[s]
          /\ pc'[s] = "bit" => /\ spine[UserOf[s]] # None /\ ~token'[s].created
                               /\ token'[s].cohort = Cohort(spine[UserOf[s]])
                               /\ StartOf(s) - Cohort(spine[UserOf[s]]) \in 0 .. (Span - 1)
      BY <1>1, <2>3, RereadDoes DEF TodoAtFold
    <3>2. UNCHANGED <<spine, rows, marks>> /\ CohortsAreDays
      BY <2>3, RereadDoes
    <3>3. Owned'
      BY <3>1, <3>2 DEF Owned, CohortsAreDays
    <3>4. TodoAtFold'
      BY <3>1, <3>2 DEF TodoAtFold
    <3>5. CohortsAreDays'
      BY <1>1, <3>1, <3>2 DEF CohortsAreDays
    <3>6. History'
      BY <3>1, <3>2 DEF History
    <3>7. Promised'
      BY <3>1, <3>2 DEF Promised
    <3> QED
      BY <3>3, <3>4, <3>5, <3>6, <3>7
  <2>4. CASE SetBit(s)
    <3> DEFINE u == UserOf[s]
               off == StartOf(s) - token[s].cohort
    <3>1. /\ \A r \in Sessions \ {s} : pc'[r] = pc[r] /\ todo'[r] = todo[r] /\ token'[r] = token[r]
          /\ pc[s] = "bit" /\ u \in Users /\ off \in 0 .. (Span - 1) /\ token[s].cohort \in Days
          /\ pc'[s] = "fold" /\ token'[s].cohort = token[s].cohort
          /\ "size" \in todo'[s] => token[s].created
          /\ "cell" \in todo'[s] => <<s, token[s].cohort, off>> \in marks'
          /\ UNCHANGED rows
      BY <1>1, <2>4, SetBitDoes
    <3>2. marks' = marks \/ marks' = marks \cup {<<s, token[s].cohort, off>>}
      BY <2>4, SetBitDoes
    <3>3. Owned'
      BY <3>1 DEF Owned
    <3>4. TodoAtFold'
      BY <3>1 DEF TodoAtFold
    <3>5. CohortsAreDays'
      <4>1. UNCHANGED spine \/ (spine[u] # None /\ spine' = [spine EXCEPT ![u].bits = @ \cup {off}])
        BY <2>4 DEF SetBit
      <4>2. \A v \in Users : spine'[v] # None => spine[v] # None /\ spine'[v].first = spine[v].first
        BY <1>1, <4>1 DEF Row
      <4> QED
        BY <4>2 DEF CohortsAreDays, Cohort
    <3> HIDE DEF off
    <3>6. History'
      <4>1. IsFiniteSet(marks')
        <5>1. IsFiniteSet(marks)
          BY DEF History
        <5> QED
          BY <3>2, <5>1, FS_AddElement
      <4> QED
        BY <3>1, <3>2, <4>1 DEF History
    <3>7. Promised'
      <4>1. marks \subseteq marks'
        BY <3>2
      <4> QED
        BY <3>1, <4>1 DEF Promised, off
    <3> QED
      BY <3>3, <3>4, <3>5, <3>6, <3>7
  <2>5. ASSUME NEW step, FoldStep(s, step)
        PROVE  Others'
    <3>1. /\ \A r \in Sessions \ {s} : pc'[r] = pc[r] /\ todo'[r] = todo[r] /\ token'[r] = token[r]
          /\ pc[s] = "fold" /\ pc'[s] \in {"fold", "done"} /\ todo'[s] \subseteq todo[s]
          /\ pc'[s] # "fold" => todo'[s] = {}
          /\ todo'[s] # {} => token'[s] = token[s]
      BY <1>1, <2>5, FoldDoes
    <3>2. UNCHANGED <<spine, rows, marks>>
      BY <2>5, FoldDoes
    <3>3. Owned'
      BY <3>1 DEF Owned
    <3>4. TodoAtFold'
      BY <3>1 DEF TodoAtFold
    <3>5. CohortsAreDays'
      BY <3>2 DEF CohortsAreDays
    <3>6. History'
      BY <3>1, <3>2 DEF History
    <3>7. Promised'
      BY <3>1, <3>2 DEF Promised
    <3> QED
      BY <3>3, <3>4, <3>5, <3>6, <3>7
  <2>6. CASE Fail(s)
    <3>1. /\ \A r \in Sessions \ {s} : pc'[r] = pc[r] /\ todo'[r] = todo[r] /\ token'[r] = token[r]
          /\ pc'[s] = "failed" /\ todo'[s] = {}
      BY <1>1, <2>6, FailDoes
    <3>2. UNCHANGED <<spine, rows, marks>>
      BY <2>6, FailDoes
    <3>3. Owned'
      BY <3>1 DEF Owned
    <3>4. TodoAtFold'
      BY <3>1 DEF TodoAtFold
    <3>5. CohortsAreDays'
      BY <3>2 DEF CohortsAreDays
    <3>6. History'
      BY <3>1, <3>2 DEF History
    <3>7. Promised'
      BY <3>1, <3>2 DEF Promised
    <3> QED
      BY <3>3, <3>4, <3>5, <3>6, <3>7
  <2> QED
    BY <2>1, <2>2, <2>3, <2>4, <2>5, <2>6
    DEF Handle, FoldStart, FoldEnd, FoldActive, FoldNewUser, FoldReturn
<1>3. ScanIsQuiet'
  <2>1. CASE QuietRescan /\ scan # None
    <3>1. pc[s] \notin {"seed", "reread", "bit", "fold"} /\ ~Receive(s)
      BY <2>1, ReceiveDoes DEF Base, ScanIsQuiet, Quiet
    <3> QED
      BY <3>1 DEF Handle, Seed, Reread, SetBit, FoldStep, FoldStart, FoldEnd, FoldActive, FoldNewUser,
                  FoldReturn, Fail
  <2>2. scan' = scan
    BY DEF Handle, Receive, Seed, Reread, SetBit, FoldStep, FoldStart, FoldEnd, FoldActive, FoldNewUser,
           FoldReturn, Fail
  <2> QED
    BY <2>1, <2>2 DEF ScanIsQuiet
<1> QED
  BY <1>0, <1>2, <1>3 DEF Base

LEMMA EraseDoes ==
    ASSUME TypeOK, NEW u \in Users, Erase(u)
    PROVE  /\ UNCHANGED <<pc, todo, token, ret, dirty, scan, rows, marks>>
           /\ stored'.ret = stored.ret
           /\ \/ UNCHANGED <<spine, upset>>
              \/ /\ spine' = [spine EXCEPT ![u] = None]
                 /\ upset' = IF InFlight(u) THEN upset \cup {"erased"} ELSE upset
<1>1. UNCHANGED <<pc, todo, token, ret, dirty, scan, rows, marks>>
  BY DEF Erase, EnumerateSpine, EnumerateFrom, EnumerateActive, Purge, CloseEntry, EraseFails,
         handlers, buckets
<1>2. stored'.ret = stored.ret
  BY DEF Erase, EnumerateSpine, EnumerateFrom, EnumerateActive, Purge, CloseEntry, EraseFails, TypeOK
<1> QED
  BY <1>1, <1>2 DEF Erase, EnumerateSpine, EnumerateFrom, EnumerateActive, Purge, CloseEntry, EraseFails,
                    bounds

LEMMA BaseErase ==
    ASSUME Base, NEW u \in Users, Erase(u)
    PROVE  Base'
<1>1. TypeOK'
  BY TypeErase DEF Base
<1>2. /\ UNCHANGED <<pc, todo, token, ret, dirty, scan, rows, marks>>
      /\ \A v \in Users : spine'[v] = None \/ spine'[v] = spine[v]
  BY EraseDoes DEF Base, TypeOK
<1>3. CohortsAreDays'
  BY <1>2 DEF Base, CohortsAreDays
<1> QED
  BY <1>1, <1>2, <1>3 DEF Base, Owned, TodoAtFold, History, Promised, Growing, ScanIsQuiet, Quiet

LEMMA BaseRest ==
    ASSUME Base, Sweep \/ LoseRedis \/ RescanRead \/ RescanWrite \/ Tick
    PROVE  Base'
<1>1. TypeOK'
  BY TypeRest DEF Base
<1>2. UNCHANGED <<pc, todo, token, rows, marks, spine>>
  BY DEF Sweep, LoseRedis, RescanRead, RescanWrite, Tick, handlers
<1>3. ScanIsQuiet'
  BY <1>2 DEF Base, ScanIsQuiet, Quiet, Sweep, LoseRedis, RescanRead, RescanWrite, Tick
<1> QED
  BY <1>1, <1>2, <1>3 DEF Base, Owned, TodoAtFold, CohortsAreDays, History, Promised, Growing

LEMMA BaseNext == Base /\ [Next]_vars => Base'
<1> SUFFICES ASSUME Base, [Next]_vars PROVE Base'
  OBVIOUS
<1>1. CASE \E s \in Sessions : Handle(s)
  BY <1>1, BaseHandle
<1>2. CASE \E u \in Users : Erase(u)
  BY <1>2, BaseErase
<1>3. CASE Sweep \/ LoseRedis \/ RescanRead \/ RescanWrite \/ Tick
  BY <1>3, BaseRest
<1>4. CASE UNCHANGED vars
  BY <1>4 DEF vars, handlers, buckets, privacy, bounds, Base, TypeOK, Owned, TodoAtFold, CohortsAreDays,
              History, Promised, Growing, ScanIsQuiet, Quiet
<1> QED
  BY <1>1, <1>2, <1>3, <1>4 DEF Next

\* Every variable keeps its type: a set bit is inside the bitmap, a bucket and a
\* cohort are those of a day some session starts or ends on.
THEOREM TypeCorrect == Spec => []TypeOK
<1>1. Init => Base
  BY BaseInit
<1>2. Base /\ [Next]_vars => Base'
  BY BaseNext
<1>3. Base => TypeOK
  BY DEF Base
<1> QED
  BY <1>1, <1>2, <1>3, PTL DEF Spec

-----------------------------------------------------------------------------
(* The spine and its history *)

\* Each row of a table was seeded by a session of its user, and each of its bits
\* was set by one.
Recorded(table, seeded, set) ==
    \A u \in Users : table[u] # None =>
        /\ \E s \in Sessions : UserOf[s] = u /\ <<s, Cohort(table[u])>> \in seeded
        /\ \A b \in table[u].bits :
              \E s \in Sessions : UserOf[s] = u /\ <<s, Cohort(table[u]), b>> \in set

\* A handler about to set a bit has the row before it, and its cohort.
AtBit ==
    \A s \in Sessions : pc[s] = "bit" =>
        spine[UserOf[s]] # None /\ Cohort(spine[UserOf[s]]) = token[s].cohort

SpineInv ==
    "erased" \notin upset =>
        /\ Recorded(spine, rows, marks) /\ AtBit
        /\ scan # None => Recorded(scan, rows, marks)

LEMMA RecordedGrows ==
    ASSUME NEW table, NEW seeded, NEW set, NEW seeded2, NEW set2,
           Recorded(table, seeded, set), seeded \subseteq seeded2, set \subseteq set2
    PROVE  Recorded(table, seeded2, set2)
  BY DEF Recorded

\* What every step of a handler leaves of the rest.
LEMMA HandleFrame ==
    ASSUME Base, NEW s \in Sessions, Handle(s)
    PROVE  /\ \A r \in Sessions \ {s} : pc'[r] = pc[r] /\ todo'[r] = todo[r] /\ token'[r] = token[r]
           /\ UNCHANGED <<stored, scan>> /\ rows \subseteq rows' /\ marks \subseteq marks'
           /\ upset \subseteq upset' /\ ("erased" \in upset' => "erased" \in upset)
           /\ upset' # {} \/ ~Fail(s)
<1> USE DEF Tokens, Steps
<1>1. pc \in [Sessions -> Steps] /\ todo \in [Sessions -> SUBSET DOMAIN Rank] /\ token \in [Sessions -> Tokens]
  BY DEF Base, TypeOK
<1>2. CASE Receive(s)
  BY <1>1, <1>2, ReceiveDoes DEF Fail
<1>3. CASE Seed(s)
  BY <1>1, <1>3, SeedDoes DEF Fail
<1>4. CASE Reread(s)
  BY <1>1, <1>4, RereadDoes, ZenonT(60) DEF Fail
<1>5. CASE SetBit(s)
  BY <1>1, <1>5, SetBitDoes DEF Fail
<1>6. ASSUME NEW step, FoldStep(s, step)
      PROVE  /\ \A r \in Sessions \ {s} : pc'[r] = pc[r] /\ todo'[r] = todo[r] /\ token'[r] = token[r]
             /\ UNCHANGED <<stored, scan, rows, marks, upset>> /\ ~Fail(s)
  BY <1>1, <1>6, FoldDoes DEF Fail
<1>7. CASE Fail(s)
  <2>1. upset' = upset \cup {"failed"}
    BY <1>7, FailDoes
  <2>2. upset' # {} /\ upset \subseteq upset' /\ ("erased" \in upset' => "erased" \in upset)
    BY <2>1
  <2>3. \A r \in Sessions \ {s} : pc'[r] = pc[r] /\ todo'[r] = todo[r] /\ token'[r] = token[r]
    BY <1>1, <1>7, FailDoes
  <2> QED
    BY <1>7, <2>2, <2>3, FailDoes
<1> QED
  BY <1>2, <1>3, <1>4, <1>5, <1>6, <1>7 DEF Handle, FoldStart, FoldEnd, FoldActive, FoldNewUser, FoldReturn

LEMMA SpineHandle ==
    ASSUME Base, SpineInv, NEW s \in Sessions, Handle(s)
    PROVE  SpineInv'
<1> SUFFICES ASSUME "erased" \notin upset'
             PROVE  (Recorded(spine, rows, marks) /\ AtBit)' /\ (scan' # None => Recorded(scan', rows', marks'))
  BY DEF SpineInv
<1>1. /\ pc \in [Sessions -> Steps] /\ todo \in [Sessions -> SUBSET DOMAIN Rank]
      /\ token \in [Sessions -> Tokens] /\ spine \in [Users -> Row \cup {None}]
  BY DEF Base, TypeOK, Steps, Tokens
<1>2. /\ Recorded(spine, rows, marks) /\ AtBit
      /\ scan # None => Recorded(scan, rows, marks)
  BY HandleFrame DEF SpineInv
<1>3. scan' # None => Recorded(scan', rows', marks')
  BY <1>2, HandleFrame, RecordedGrows
<1>4. CASE Seed(s)
  <2>1. CASE UNCHANGED <<spine, rows, token>> /\ pc' = [pc EXCEPT ![s] = "reread"]
    <3>1. Recorded(spine, rows, marks)'
      BY <1>2, <1>4, <2>1, SeedDoes
    <3>2. AtBit'
      BY <1>1, <1>2, <2>1 DEF AtBit
    <3> QED
      BY <1>3, <3>1, <3>2
  <2>2. CASE /\ spine[UserOf[s]] = None
             /\ spine' = [spine EXCEPT ![UserOf[s]] = [first |-> IntervalOf(s).start, bits |-> {}]]
             /\ rows' = rows \cup {<<s, StartOf(s)>>}
             /\ pc' = [pc EXCEPT ![s] = "bit"]
             /\ token' = [token EXCEPT ![s] = [created |-> TRUE, bit |-> FALSE, cohort |-> StartOf(s)]]
    <3> DEFINE row == [first |-> IntervalOf(s).start, bits |-> {}]
    <3>1. UserOf[s] \in Users /\ UNCHANGED marks
      BY <1>4, SeedDoes
    <3>2. Cohort(row) = StartOf(s) /\ row.bits = {}
      BY DaysType DEF Cohort
    <3>3. spine' = [spine EXCEPT ![UserOf[s]] = row]
      BY <2>2
    <3>4. row # None
      <4>1. row \in Row
        BY DaysType DEF Row
      <4> QED
        BY <4>1, NoneAssumption
    <3> HIDE DEF row
    <3>5. Recorded(spine, rows, marks)'
      <4>1. ASSUME NEW v \in Users, spine'[v] # None
            PROVE  /\ \E r \in Sessions : UserOf[r] = v /\ <<r, Cohort(spine'[v])>> \in rows'
                   /\ \A b \in spine'[v].bits :
                        \E r \in Sessions : UserOf[r] = v /\ <<r, Cohort(spine'[v]), b>> \in marks'
        <5>1. CASE v = UserOf[s]
          BY <1>1, <2>2, <3>2, <3>3, <5>1
        <5>2. CASE v # UserOf[s]
          <6>1. spine'[v] = spine[v]
            BY <1>1, <3>3, <5>2
          <6> QED
            BY <1>2, <2>2, <3>1, <4>1, <6>1, SMTT(30) DEF Recorded
        <5> QED
          BY <5>1, <5>2
      <4> QED
        BY <4>1 DEF Recorded
    <3>6. AtBit'
      BY <1>1, <1>2, <2>2, <3>1, <3>2, <3>3, <3>4, SMTT(30) DEF AtBit
    <3> QED
      BY <1>3, <3>5, <3>6
  <2> QED
    BY <1>4, <2>1, <2>2, SeedDoes
<1>5. CASE Reread(s)
  <2>1. UNCHANGED <<spine, rows, marks>>
    BY <1>5, RereadDoes
  <2>2. pc'[s] = "bit" => spine[UserOf[s]] # None /\ token'[s].cohort = Cohort(spine[UserOf[s]])
    BY <1>1, <1>5, RereadDoes
  <2>3. AtBit'
    BY <1>2, <2>1, <2>2, HandleFrame DEF AtBit
  <2> QED
    BY <1>2, <1>3, <2>1, <2>3
<1>6. CASE SetBit(s)
  <2> DEFINE u == UserOf[s]
             off == StartOf(s) - token[s].cohort
  <2>1. pc[s] = "bit" /\ u \in Users /\ UNCHANGED rows /\ pc'[s] # "bit"
    BY <1>1, <1>6, SetBitDoes
  <2>2. spine[u] # None /\ Cohort(spine[u]) = token[s].cohort
    BY <1>2, <2>1 DEF AtBit
  <2>3. \/ UNCHANGED <<spine, marks>>
        \/ /\ spine' = [spine EXCEPT ![u].bits = @ \cup {off}]
           /\ marks' = marks \cup {<<s, token[s].cohort, off>>}
    BY <1>6 DEF SetBit
  <2> HIDE DEF off
  <2>4. \A v \in Users : spine'[v] # None => spine[v] # None /\ Cohort(spine'[v]) = Cohort(spine[v])
    <3>1. spine[u] \in Row
      BY <1>1, <2>1, <2>2
    <3>2. UNCHANGED spine \/ spine' = [spine EXCEPT ![u] = [spine[u] EXCEPT !.bits = @ \cup {off}]]
      BY <2>3
    <3>3. [spine[u] EXCEPT !.bits = @ \cup {off}].first = spine[u].first
      BY <3>1 DEF Row
    <3> QED
      BY <1>1, <2>2, <3>2, <3>3 DEF Cohort
  <2>5. \A v \in Users : spine[v] # None => spine'[v] # None /\ Cohort(spine'[v]) = Cohort(spine[v])
    <3>1. spine' \in [Users -> Row \cup {None}]
      BY BaseHandle DEF Base, TypeOK
    <3>2. spine[u] \in Row
      BY <1>1, <2>1, <2>2
    <3>3. [spine[u] EXCEPT !.bits = @ \cup {off}] # None
      <4>1. [spine[u] EXCEPT !.bits = @ \cup {off}] \in Row
        <5>1. off \in 0 .. (Span - 1)
          BY <1>6, SetBitDoes DEF off
        <5> QED
          BY <3>2, <5>1 DEF Row
      <4> QED
        BY <4>1, NoneAssumption
    <3> QED
      BY <1>1, <2>1, <2>3, <2>4, <3>3
  <2>6. Recorded(spine, rows, marks)'
    <3>1. ASSUME NEW v \in Users, spine'[v] # None
          PROVE  /\ \E r \in Sessions : UserOf[r] = v /\ <<r, Cohort(spine'[v])>> \in rows'
                 /\ \A b \in spine'[v].bits :
                      \E r \in Sessions : UserOf[r] = v /\ <<r, Cohort(spine'[v]), b>> \in marks'
      <4>1. spine[v] # None /\ Cohort(spine'[v]) = Cohort(spine[v])
        BY <2>4, <3>1
      <4>2. \E r \in Sessions : UserOf[r] = v /\ <<r, Cohort(spine'[v])>> \in rows'
        BY <1>2, <2>1, <4>1 DEF Recorded
      <4>3. ASSUME NEW b \in spine'[v].bits
            PROVE  \E r \in Sessions : UserOf[r] = v /\ <<r, Cohort(spine'[v]), b>> \in marks'
        <5>1. CASE b \in spine[v].bits
          BY <1>2, <4>1, <5>1, HandleFrame DEF Recorded
        <5>2. CASE b \notin spine[v].bits
          <6>1. v = u /\ b = off /\ marks' = marks \cup {<<s, token[s].cohort, off>>}
            BY <1>1, <2>1, <2>3, <4>1, <4>3, <5>2 DEF Row
          <6> QED
            BY <2>2, <4>1, <6>1
        <5> QED
          BY <5>1, <5>2
      <4> QED
        BY <4>2, <4>3
    <3> QED
      BY <3>1 DEF Recorded
  <2>7. AtBit'
    <3>1. \A r \in Sessions : pc'[r] = "bit" => UserOf[r] \in Users /\ pc[r] = "bit" /\ token'[r] = token[r]
      BY <2>1, HandleFrame DEF Base, Owned
    <3> QED
      BY <1>2, <2>5, <3>1 DEF AtBit
  <2> QED
    BY <1>3, <2>6, <2>7
<1>7. ASSUME UNCHANGED spine, pc'[s] # "bit"
      PROVE  (Recorded(spine, rows, marks) /\ AtBit)'
  <2>1. Recorded(spine, rows, marks)'
    BY <1>2, <1>7, HandleFrame, RecordedGrows
  <2>2. AtBit'
    BY <1>2, <1>7, HandleFrame DEF AtBit
  <2> QED
    BY <2>1, <2>2
<1>8. CASE Receive(s) \/ Fail(s) \/ \E step : FoldStep(s, step)
  <2>1. UNCHANGED spine /\ pc'[s] # "bit"
    BY <1>1, <1>8, ReceiveDoes, FailDoes, FoldDoes
  <2> QED
    BY <1>3, <1>7, <2>1
<1> QED
  BY <1>4, <1>5, <1>6, <1>8 DEF Handle, FoldStart, FoldEnd, FoldActive, FoldNewUser, FoldReturn

LEMMA SpineNext == Base /\ SpineInv /\ [Next]_vars => SpineInv'
<1> SUFFICES ASSUME Base, SpineInv, [Next]_vars PROVE SpineInv'
  OBVIOUS
<1>1. CASE \E s \in Sessions : Handle(s)
  BY <1>1, SpineHandle
<1>2. CASE \E u \in Users : Erase(u)
  <2> SUFFICES ASSUME NEW u \in Users, Erase(u), "erased" \notin upset'
               PROVE  (Recorded(spine, rows, marks) /\ AtBit)' /\ (scan' # None => Recorded(scan', rows', marks'))
    BY <1>2 DEF SpineInv
  <2>1. /\ UNCHANGED <<pc, token, scan, rows, marks>>
        /\ \/ UNCHANGED <<spine, upset>>
           \/ /\ spine' = [spine EXCEPT ![u] = None] /\ ~InFlight(u) /\ UNCHANGED upset
    BY EraseDoes DEF Base
  <2>2. Recorded(spine, rows, marks) /\ AtBit /\ (scan # None => Recorded(scan, rows, marks))
    BY <2>1 DEF SpineInv
  <2>3. spine \in [Users -> Row \cup {None}]
    BY DEF Base, TypeOK
  <2>4. \A v \in Users : spine'[v] = None \/ spine'[v] = spine[v]
    BY <2>1, <2>3
  <2>5. Recorded(spine, rows, marks)'
    BY <2>1, <2>2, <2>4 DEF Recorded
  <2>6. AtBit'
    BY <2>1, <2>2, <2>3 DEF AtBit, InFlight, Base, Owned
  <2> QED
    BY <2>1, <2>2, <2>5, <2>6
<1>3. CASE Sweep \/ LoseRedis \/ RescanRead \/ RescanWrite \/ Tick
  <2>1. /\ UNCHANGED <<pc, token, rows, marks, spine>>
        /\ scan' \in {scan, spine, None}
        /\ "erased" \in upset => "erased" \in upset'
    BY <1>3 DEF Sweep, LoseRedis, RescanRead, RescanWrite, Tick, handlers, bounds
  <2>2. AtBit => AtBit'
    BY <2>1 DEF AtBit
  <2> QED
    BY <2>1, <2>2 DEF SpineInv
<1>4. CASE UNCHANGED vars
  BY <1>4 DEF vars, handlers, bounds, SpineInv, AtBit
<1> QED
  BY <1>1, <1>2, <1>3, <1>4 DEF Next

-----------------------------------------------------------------------------
(* The buckets, the durable rows and what the spine recorded *)

\* The users of cohort d, and its returns on day d, that are in the buckets: what
\* is recorded, without what some handler has yet to fold.
Grown(d) == {r \in rows : r[2] = d /\ ~Growing(r[1])}
Kept(c, d) == {k \in marks : k[2] = c /\ k[3] = d - c /\ "cell" \notin todo[k[1]]}

LEMMA Finite ==
    ASSUME Base
    PROVE  /\ IsFiniteSet(rows) /\ IsFiniteSet(marks)
           /\ \A d : /\ IsFiniteSet(Grown(d)) /\ IsFiniteSet(Born(d))
                     /\ Cardinality(Grown(d)) \in Nat /\ Cardinality(Born(d)) \in Nat
                     /\ Cardinality(Grown(d)) <= Cardinality(Born(d))
           /\ \A c, d : /\ IsFiniteSet(Kept(c, d)) /\ IsFiniteSet(Seen(c, d))
                        /\ Cardinality(Kept(c, d)) \in Nat /\ Cardinality(Seen(c, d)) \in Nat
                        /\ Cardinality(Kept(c, d)) <= Cardinality(Seen(c, d))
<1>1. IsFiniteSet(rows) /\ IsFiniteSet(marks)
  BY DEF Base, History
<1>2. ASSUME NEW d
      PROVE  /\ IsFiniteSet(Grown(d)) /\ IsFiniteSet(Born(d))
             /\ Cardinality(Grown(d)) \in Nat /\ Cardinality(Born(d)) \in Nat
             /\ Cardinality(Grown(d)) <= Cardinality(Born(d))
  <2>1. Grown(d) \subseteq Born(d) /\ Born(d) \subseteq rows
    BY DEF Grown, Born
  <2> QED
    BY <1>1, <2>1, FS_Subset, FS_CardinalityType
<1>3. ASSUME NEW c, NEW d
      PROVE  /\ IsFiniteSet(Kept(c, d)) /\ IsFiniteSet(Seen(c, d))
             /\ Cardinality(Kept(c, d)) \in Nat /\ Cardinality(Seen(c, d)) \in Nat
             /\ Cardinality(Kept(c, d)) <= Cardinality(Seen(c, d))
  <2>1. Kept(c, d) \subseteq Seen(c, d) /\ Seen(c, d) \subseteq marks
    BY DEF Kept, Seen
  <2> QED
    BY <1>1, <2>1, FS_Subset, FS_CardinalityType
<1> QED
  BY <1>1, <1>2, <1>3

\* A step of a handler records a row or a mark it still has to fold, folds one it
\* has recorded, or leaves the debts as they are; only a failure forgets one.
LEMMA HandleOwes ==
    ASSUME Base, NEW s \in Sessions, Handle(s)
    PROVE  /\ \/ rows' = rows /\ (Growing(s)' <=> Growing(s))
              \/ /\ rows' = rows \cup {<<s, StartOf(s)>>} /\ Growing(s)'
                 /\ \A c \in Days : <<s, c>> \notin rows
              \/ FoldNewUser(s) /\ rows' = rows /\ Growing(s) /\ ~Growing(s)'
              \/ Fail(s) /\ rows' = rows /\ ~Growing(s)'
           /\ \/ marks' = marks /\ ("cell" \in todo'[s] <=> "cell" \in todo[s])
              \/ /\ marks' = marks \cup {<<s, token[s].cohort, StartOf(s) - token[s].cohort>>}
                 /\ "cell" \in todo'[s] /\ SetBit(s)
                 /\ \A c \in Days, b \in 0 .. (Span - 1) : <<s, c, b>> \notin marks
              \/ FoldReturn(s) /\ marks' = marks /\ "cell" \in todo[s] /\ "cell" \notin todo'[s]
              \/ Fail(s) /\ marks' = marks /\ "cell" \notin todo'[s]
<1> USE DEF Growing
<1>1. /\ pc \in [Sessions -> Steps] /\ todo \in [Sessions -> SUBSET DOMAIN Rank]
      /\ token \in [Sessions -> Tokens] /\ TodoAtFold /\ History
  BY DEF Base, TypeOK, Steps, Tokens
<1>2. CASE Receive(s)
  <2>1. /\ pc[s] = "queued" /\ pc'[s] \in {"late", "seed", "fold"} /\ UNCHANGED <<rows, marks>>
        /\ "size" \notin todo'[s] /\ "cell" \notin todo'[s]
    BY <1>1, <1>2, ReceiveDoes DEF TodoAtFold
  <2> QED
    BY <1>1, <2>1 DEF TodoAtFold
<1>3. CASE Seed(s)
  <2>1. pc[s] = "seed" /\ UNCHANGED <<todo, marks>> /\ todo[s] = {}
    BY <1>1, <1>3, SeedDoes DEF TodoAtFold
  <2>2. \/ rows' = rows /\ pc'[s] = "reread"
        \/ rows' = rows \cup {<<s, StartOf(s)>>} /\ pc'[s] = "bit" /\ token'[s].created
    <3>1. CASE /\ rows' = rows \cup {<<s, StartOf(s)>>} /\ pc' = [pc EXCEPT ![s] = "bit"]
               /\ token' = [token EXCEPT ![s] = [created |-> TRUE, bit |-> FALSE, cohort |-> StartOf(s)]]
      BY <1>1, <3>1
    <3>2. CASE rows' = rows /\ pc' = [pc EXCEPT ![s] = "reread"]
      BY <1>1, <3>2
    <3> QED
      BY <1>3, <3>1, <3>2, SeedDoes
  <2>3. \A c \in Days : <<s, c>> \notin rows
    BY <1>1, <2>1 DEF History
  <2> QED
    BY <2>1, <2>2, <2>3
<1>4. CASE Reread(s)
  <2>1. /\ pc[s] = "reread" /\ pc'[s] \in {"bit", "fold", "failed"} /\ UNCHANGED <<rows, marks>>
        /\ "size" \notin todo'[s] /\ "cell" \notin todo'[s]
        /\ pc'[s] = "bit" => ~token'[s].created
    BY <1>1, <1>4, RereadDoes DEF TodoAtFold
  <2> QED
    BY <1>1, <2>1 DEF TodoAtFold
<1>5. CASE SetBit(s)
  <2>1. /\ pc[s] = "bit" /\ pc'[s] = "fold" /\ rows' = rows /\ todo[s] = {}
        /\ "size" \in todo'[s] <=> token[s].created
    BY <1>1, <1>5, SetBitDoes DEF TodoAtFold
  <2>2. \/ marks' = marks /\ "cell" \notin todo'[s]
        \/ /\ marks' = marks \cup {<<s, token[s].cohort, StartOf(s) - token[s].cohort>>}
           /\ "cell" \in todo'[s]
    BY <1>1, <1>5, SetBitDoes
  <2>3. \A c \in Days, b \in 0 .. (Span - 1) : <<s, c, b>> \notin marks
    BY <1>1, <2>1 DEF History
  <2> QED
    BY <1>5, <2>1, <2>2, <2>3
<1>6. ASSUME NEW step, FoldStep(s, step)
      PROVE  /\ pc[s] = "fold" /\ pc'[s] # "bit" /\ UNCHANGED <<rows, marks>>
             /\ todo'[s] = todo[s] \ {step} /\ step \in todo[s]
  BY <1>1, <1>6, FoldDoes
<1>7. CASE FoldStart(s) \/ FoldEnd(s) \/ FoldActive(s)
  BY <1>6, <1>7 DEF FoldStart, FoldEnd, FoldActive
<1>8. CASE FoldNewUser(s)
  BY <1>6, <1>8 DEF FoldNewUser
<1>9. CASE FoldReturn(s)
  BY <1>6, <1>9 DEF FoldReturn
<1>10. CASE Fail(s)
  BY <1>1, <1>10, FailDoes
<1> QED
  BY <1>2, <1>3, <1>4, <1>5, <1>7, <1>8, <1>9, <1>10 DEF Handle

LEMMA HandleGrown ==
    ASSUME Base, NEW s \in Sessions, Handle(s), NEW d \in Days
    PROVE  \/ Grown(d)' = Grown(d)
           \/ /\ FoldNewUser(s) /\ d = token[s].cohort
              /\ <<s, d>> \notin Grown(d) /\ Grown(d)' = Grown(d) \cup {<<s, d>>}
           \/ Fail(s) /\ Grown(d) \subseteq Grown(d)'
<1>1. \A r \in rows : r \in Sessions \X Days /\ r = <<r[1], r[2]>>
  BY DEF Base, History
<1>2. \A r \in Sessions \ {s} : Growing(r)' <=> Growing(r)
  BY HandleFrame DEF Growing
<1>3. CASE rows' = rows /\ (Growing(s)' <=> Growing(s))
  BY <1>1, <1>2, <1>3 DEF Grown
<1>4. CASE /\ rows' = rows \cup {<<s, StartOf(s)>>} /\ Growing(s)'
           /\ \A c \in Days : <<s, c>> \notin rows
  BY <1>1, <1>2, <1>4 DEF Grown
<1>5. CASE FoldNewUser(s) /\ rows' = rows /\ Growing(s) /\ ~Growing(s)'
  <2>1. /\ <<s, token[s].cohort>> \in rows
        /\ \A c \in Days : <<s, c>> \in rows => c = token[s].cohort
    <3>1. <<s, token[s].cohort>> \in rows
      BY <1>5 DEF Base, Promised
    <3>2. token[s].cohort \in Days
      BY <3>1 DEF Base, History
    <3>3. \A c, e \in Days : <<s, c>> \in rows /\ <<s, e>> \in rows => e = c
      BY DEF Base, History
    <3> QED
      BY <3>1, <3>2, <3>3
  <2>2. CASE d = token[s].cohort
    BY <1>1, <1>2, <1>5, <2>1, <2>2 DEF Grown
  <2>3. CASE d # token[s].cohort
    BY <1>1, <1>2, <1>5, <2>1, <2>3 DEF Grown
  <2> QED
    BY <2>2, <2>3
<1>6. CASE Fail(s) /\ rows' = rows /\ ~Growing(s)'
  BY <1>1, <1>2, <1>6 DEF Grown
<1> QED
  BY <1>3, <1>4, <1>5, <1>6, HandleOwes

LEMMA HandleKept ==
    ASSUME Base, NEW s \in Sessions, Handle(s), NEW c \in Days, NEW d \in Days
    PROVE  \/ Kept(c, d)' = Kept(c, d)
           \/ /\ FoldReturn(s) /\ d = StartOf(s) /\ c = token[s].cohort
              /\ <<s, c, d - c>> \notin Kept(c, d) /\ Kept(c, d)' = Kept(c, d) \cup {<<s, c, d - c>>}
           \/ Fail(s) /\ Kept(c, d) \subseteq Kept(c, d)'
<1> DEFINE mine == <<s, token[s].cohort, StartOf(s) - token[s].cohort>>
<1>1. \A k \in marks : k \in Sessions \X Days \X (0 .. (Span - 1)) /\ k = <<k[1], k[2], k[3]>>
  BY DEF Base, History
<1>2. \A r \in Sessions \ {s} : "cell" \in todo'[r] <=> "cell" \in todo[r]
  BY HandleFrame
<1>3. CASE marks' = marks /\ ("cell" \in todo'[s] <=> "cell" \in todo[s])
  BY <1>1, <1>2, <1>3 DEF Kept
<1>4. CASE /\ marks' = marks \cup {mine} /\ "cell" \in todo'[s]
           /\ \A e \in Days, b \in 0 .. (Span - 1) : <<s, e, b>> \notin marks
  <2>1. mine[1] = s
    OBVIOUS
  <2> HIDE DEF mine
  <2> QED
    BY <1>1, <1>2, <1>4, <2>1 DEF Kept
<1>5. CASE FoldReturn(s) /\ marks' = marks /\ "cell" \in todo[s] /\ "cell" \notin todo'[s]
  <2>1. mine \in marks
    BY <1>5 DEF Base, Promised
  <2>2. \A k \in marks : k[1] = s => k = mine
    BY <1>1, <2>1 DEF Base, History
  <2>3. token[s].cohort \in Int /\ StartOf(s) \in Int /\ c \in Int /\ d \in Int
    <3>1. Days \subseteq Int /\ StartOf(s) \in Days
      BY DaysType
    <3>2. token[s].cohort \in Days
      BY <1>5 DEF Base, Owned
    <3> QED
      BY <3>1, <3>2
  <2>4. CASE d = StartOf(s) /\ c = token[s].cohort
    <3>1. mine = <<s, c, d - c>>
      BY <2>4
    <3> HIDE DEF mine
    <3>2. Kept(c, d)' = Kept(c, d) \cup {mine} /\ mine \notin Kept(c, d)
      BY <1>1, <1>2, <1>5, <2>1, <2>2, <3>1 DEF Kept
    <3> QED
      BY <1>5, <2>4, <3>1, <3>2
  <2>5. CASE ~(d = StartOf(s) /\ c = token[s].cohort)
    <3>1. ~(mine[2] = c /\ mine[3] = d - c) /\ mine[1] = s
      BY <2>3, <2>5
    <3> HIDE DEF mine
    <3>2. Kept(c, d)' = Kept(c, d)
      BY <1>1, <1>2, <1>5, <2>2, <3>1 DEF Kept
    <3> QED
      BY <3>2
  <2> QED
    BY <2>4, <2>5
<1>6. CASE Fail(s) /\ marks' = marks /\ "cell" \notin todo'[s]
  BY <1>1, <1>2, <1>6 DEF Kept
<1> QED
  BY <1>3, <1>4, <1>5, <1>6, HandleOwes

\* The steps of a handler that leave the retention buckets alone.
Otherwise(s) ==
    Receive(s) \/ Seed(s) \/ Reread(s) \/ SetBit(s) \/ FoldStart(s) \/ FoldEnd(s) \/ FoldActive(s)

LEMMA StepsApart ==
    ASSUME Base, NEW s \in Sessions
    PROVE  /\ Otherwise(s) => ~FoldNewUser(s) /\ ~FoldReturn(s)
           /\ FoldNewUser(s) => ~FoldReturn(s) /\ ~Fail(s)
           /\ FoldReturn(s) => ~Fail(s)
<1>1. pc \in [Sessions -> Steps] /\ todo \in [Sessions -> SUBSET DOMAIN Rank]
  BY DEF Base, TypeOK, Steps
<1>2. ASSUME NEW a, NEW b, FoldStep(s, a), FoldStep(s, b), a # b PROVE FALSE
  <2>1. a \in todo[s] /\ todo'[s] = todo[s] \ {a} /\ todo'[s] = todo[s] \ {b}
    BY <1>1, <1>2, FoldDoes
  <2> QED
    BY <1>2, <2>1
<1>3. ASSUME NEW a, FoldStep(s, a), Fail(s) PROVE FALSE
  <2>1. pc'[s] \in {"fold", "done"}
    BY <1>1, <1>3, FoldDoes
  <2>2. pc'[s] = "failed"
    BY <1>1, <1>3, FailDoes
  <2> QED
    BY <2>1, <2>2
<1>4. \A a : FoldStep(s, a) => pc[s] = "fold"
  BY FoldDoes
<1>5. Receive(s) \/ Seed(s) \/ Reread(s) \/ SetBit(s) => pc[s] # "fold"
  BY DEF Receive, Seed, Reread, SetBit
<1>6. /\ FoldStart(s) => FoldStep(s, "start")
      /\ FoldEnd(s) => FoldStep(s, "end")
      /\ FoldActive(s) => FoldStep(s, "act")
      /\ FoldNewUser(s) => FoldStep(s, "size")
      /\ FoldReturn(s) => FoldStep(s, "cell")
  BY DEF FoldStart, FoldEnd, FoldActive, FoldNewUser, FoldReturn
<1>7. Otherwise(s) => ~FoldNewUser(s) /\ ~FoldReturn(s)
  <2>1. CASE Receive(s) \/ Seed(s) \/ Reread(s) \/ SetBit(s)
    BY <1>4, <1>5, <1>6, <2>1
  <2>2. CASE FoldStart(s)
    BY <1>2, <1>6, <2>2
  <2>3. CASE FoldEnd(s)
    BY <1>2, <1>6, <2>3
  <2>4. CASE FoldActive(s)
    BY <1>2, <1>6, <2>4
  <2> QED
    BY <2>1, <2>2, <2>3, <2>4 DEF Otherwise
<1>8. FoldNewUser(s) => ~FoldReturn(s) /\ ~Fail(s)
  BY <1>2, <1>3, <1>6
<1>9. FoldReturn(s) => ~Fail(s)
  BY <1>3, <1>6
<1> QED
  BY <1>7, <1>8, <1>9

LEMMA OtherwiseDoes ==
    ASSUME Base, NEW s \in Sessions, Otherwise(s), ~Fail(s)
    PROVE  /\ UNCHANGED <<ret, stored, scan, upset>>
           /\ \A d \in Days : <<"ret", d>> \in dirty' <=> <<"ret", d>> \in dirty
           /\ \A d \in Days : Grown(d)' = Grown(d)
           /\ \A c, d \in Days : Kept(c, d)' = Kept(c, d)
<1>1. Handle(s) /\ ~FoldNewUser(s) /\ ~FoldReturn(s)
  BY StepsApart DEF Otherwise, Handle
<1>2. \A d \in Days : Grown(d)' = Grown(d)
  BY <1>1, HandleGrown
<1>3. \A c, d \in Days : Kept(c, d)' = Kept(c, d)
  BY <1>1, HandleKept
<1>4. CASE Receive(s) \/ Seed(s) \/ Reread(s) \/ SetBit(s)
  <2>1. UNCHANGED <<ret, stored, scan, upset, dirty>>
    BY <1>4, ReceiveDoes, SeedDoes, RereadDoes, SetBitDoes
  <2> QED
    BY <1>2, <1>3, <2>1
<1>5. CASE FoldStart(s) \/ FoldEnd(s) \/ FoldActive(s)
  <2>1. UNCHANGED <<stored, scan, upset>>
    BY <1>5, FoldDoes DEF FoldStart, FoldEnd, FoldActive
  <2>2. UNCHANGED ret /\ \E d : \E b \in {"sess", "act"} : dirty' = dirty \cup {<<b, d>>}
    BY <1>5 DEF FoldStart, FoldEnd, FoldActive, AddTime
  <2>3. \A d \in Days : <<"ret", d>> \in dirty' <=> <<"ret", d>> \in dirty
    BY <2>2
  <2> QED
    BY <1>2, <1>3, <2>1, <2>2, <2>3
<1> QED
  BY <1>4, <1>5 DEF Otherwise

LEMMA NewUserDoes ==
    ASSUME Base, NEW s \in Sessions, FoldNewUser(s), NEW c, c = token[s].cohort
    PROVE  /\ c \in Days /\ UNCHANGED <<stored, scan, upset>>
           /\ dirty' = dirty \cup {<<"ret", c>>}
           /\ \E n \in ReturnCell :
                 /\ ret' = [ret EXCEPT ![c] = n]
                 /\ n.size = Filled(ret[c], stored.ret[c]).size + 1
                 /\ n.cell = Filled(ret[c], stored.ret[c]).cell
           /\ Cardinality(Grown(c)') = Cardinality(Grown(c)) + 1
           /\ \A d \in Days : d # c => Grown(d)' = Grown(d)
           /\ \A e, d \in Days : Kept(e, d)' = Kept(e, d)
<1>1. Handle(s) /\ ~FoldReturn(s) /\ ~Fail(s)
  BY StepsApart DEF Handle
<1>2. FoldStep(s, "size")
  BY DEF FoldNewUser
<1>3. c \in Days
  BY <1>2, FoldDoes DEF Base, Owned
<1>4. UNCHANGED <<stored, scan, upset>> /\ dirty' = dirty \cup {<<"ret", c>>}
  BY <1>2, FoldDoes DEF FoldNewUser
<1>5. \E n \in ReturnCell :
         /\ ret' = [ret EXCEPT ![c] = n]
         /\ n.size = Filled(ret[c], stored.ret[c]).size + 1
         /\ n.cell = Filled(ret[c], stored.ret[c]).cell
  <2> DEFINE b == Filled(ret[c], stored.ret[c])
             n == [b EXCEPT !.size = @ + 1]
  <2>1. b \in ReturnCell
    BY <1>3 DEF Filled, Base, TypeOK
  <2>2. ret' = [ret EXCEPT ![c] = n]
    BY DEF FoldNewUser
  <2> HIDE DEF b
  <2>3. n \in ReturnCell /\ n.size = b.size + 1 /\ n.cell = b.cell
    BY <2>1 DEF ReturnCell
  <2> HIDE DEF n
  <2> QED
    BY <2>2, <2>3 DEF b
<1>6. \A e, d \in Days : Kept(e, d)' = Kept(e, d)
  BY <1>1, HandleKept
<1>7. \A d \in Days : d # c => Grown(d)' = Grown(d)
  BY <1>1, HandleGrown
<1>8. <<s, c>> \notin Grown(c) /\ Grown(c)' = Grown(c) \cup {<<s, c>>}
  <2>1. Growing(s) /\ <<s, c>> \in rows
    BY <1>2, FoldDoes DEF Growing, Base, Promised
  <2>2. ~Growing(s)' /\ rows' = rows
    <3>1. pc'[s] # "bit" /\ todo'[s] = todo[s] \ {"size"} /\ rows' = rows
      BY <1>2, FoldDoes DEF Base, TypeOK
    <3> QED
      BY <3>1 DEF Growing
  <2>3. <<s, c>> \in Grown(c)' /\ <<s, c>> \notin Grown(c)
    BY <2>1, <2>2 DEF Grown
  <2> QED
    BY <1>1, <1>3, <2>3, HandleGrown
<1>9. Cardinality(Grown(c)') = Cardinality(Grown(c)) + 1
  BY <1>8, Finite, FS_AddElement
<1> QED
  BY <1>3, <1>4, <1>5, <1>6, <1>7, <1>9

LEMMA ReturnDoes ==
    ASSUME Base, NEW s \in Sessions, FoldReturn(s), NEW c, c = token[s].cohort, NEW d, d = StartOf(s)
    PROVE  /\ c \in Days /\ d \in Days /\ UNCHANGED <<stored, scan, upset>>
           /\ dirty' = dirty \cup {<<"ret", d>>}
           /\ \E n \in ReturnCell :
                 /\ ret' = [ret EXCEPT ![d] = n]
                 /\ n.size = Filled(ret[d], stored.ret[d]).size
                 /\ n.cell = [Filled(ret[d], stored.ret[d]).cell EXCEPT ![c] = @ + 1]
<1>2. FoldStep(s, "cell")
  BY DEF FoldReturn
<1>3. c \in Days /\ d \in Days
  BY <1>2, FoldDoes, DaysType DEF Base, Owned
<1>4. UNCHANGED <<stored, scan, upset>> /\ dirty' = dirty \cup {<<"ret", d>>}
  BY <1>2, FoldDoes DEF FoldReturn
<1>5. \E n \in ReturnCell :
         /\ ret' = [ret EXCEPT ![d] = n]
         /\ n.size = Filled(ret[d], stored.ret[d]).size
         /\ n.cell = [Filled(ret[d], stored.ret[d]).cell EXCEPT ![c] = @ + 1]
  <2> DEFINE b == Filled(ret[d], stored.ret[d])
             n == [b EXCEPT !.cell[c] = @ + 1]
  <2>1. b \in ReturnCell
    BY <1>3 DEF Filled, Base, TypeOK
  <2>2. ret' = [ret EXCEPT ![d] = n]
    BY DEF FoldReturn
  <2> HIDE DEF b
  <2>3. n \in ReturnCell /\ n.size = b.size /\ n.cell = [b.cell EXCEPT ![c] = @ + 1]
    BY <1>3, <2>1 DEF ReturnCell
  <2> HIDE DEF n
  <2> QED
    BY <2>2, <2>3 DEF b
<1> QED
  BY <1>3, <1>4, <1>5

LEMMA ReturnCounts ==
    ASSUME Base, NEW s \in Sessions, FoldReturn(s), NEW c, c = token[s].cohort, NEW d, d = StartOf(s)
    PROVE  /\ Cardinality(Kept(c, d)') = Cardinality(Kept(c, d)) + 1
           /\ \A e, f \in Days : ~(e = c /\ f = d) => Kept(e, f)' = Kept(e, f)
           /\ \A f \in Days : Grown(f)' = Grown(f)
<1>1. Handle(s) /\ ~FoldNewUser(s) /\ ~Fail(s)
  BY StepsApart DEF Handle
<1>2. FoldStep(s, "cell")
  BY DEF FoldReturn
<1>3. c \in Days /\ d \in Days
  BY ReturnDoes
<1>6. \A f \in Days : Grown(f)' = Grown(f)
  BY <1>1, HandleGrown
<1>7. \A e, f \in Days : ~(e = c /\ f = d) => Kept(e, f)' = Kept(e, f)
  BY <1>1, HandleKept
<1>8. <<s, c, d - c>> \notin Kept(c, d) /\ Kept(c, d)' = Kept(c, d) \cup {<<s, c, d - c>>}
  <2>1. "cell" \in todo[s] /\ <<s, c, d - c>> \in marks
    BY <1>2, FoldDoes DEF Base, Promised
  <2>2. "cell" \notin todo'[s] /\ marks' = marks
    BY <1>2, FoldDoes DEF Base, TypeOK
  <2>3. <<s, c, d - c>> \in Kept(c, d)' /\ <<s, c, d - c>> \notin Kept(c, d)
    BY <2>1, <2>2 DEF Kept
  <2> QED
    BY <1>1, <1>3, <2>3, HandleKept
<1>9. Cardinality(Kept(c, d)') = Cardinality(Kept(c, d)) + 1
  <2>1. IsFiniteSet(Kept(c, d))
    BY Finite
  <2> DEFINE old == Kept(c, d)
  <2> HIDE DEF old
  <2>2. Cardinality(old \cup {<<s, c, d - c>>}) = Cardinality(old) + 1
    BY <1>8, <2>1, FS_AddElement DEF old
  <2> QED
    BY <1>8, <2>2 DEF old
<1> QED
  BY <1>6, <1>7, <1>9

\* A bucket, or a durable row, of day d shows no more than what is recorded and
\* folded.
Within(b, d) ==
    /\ b.size <= Cardinality(Grown(d))
    /\ \A c \in Days : b.cell[c] <= Cardinality(Kept(c, d))

WithinInv ==
    QuietRescan /\ "erased" \notin upset =>
        \A d \in Days : Within(stored.ret[d], d) /\ (ret[d] # None => Within(ret[d], d))

\* Users who have each an entry of their own in a history are no more than its
\* entries.
LEMMA Covered ==
    ASSUME NEW S, IsFiniteSet(S), NEW U, \A u \in U : \E r \in S : UserOf[r[1]] = u
    PROVE  Cardinality(U) \in Nat /\ Cardinality(U) <= Cardinality(S)
<1> DEFINE T == {r \in S : UserOf[r[1]] \in U}
           f == [r \in T |-> UserOf[r[1]]]
<1>1. T \in SUBSET S
  OBVIOUS
<1>2. f \in Surjection(T, U)
  <2>1. f \in [T -> U]
    OBVIOUS
  <2>2. \A u \in U : \E r \in T : f[r] = u
    OBVIOUS
  <2> QED
    BY <2>1, <2>2 DEF Surjection
<1> HIDE DEF T, f
<1>3. IsFiniteSet(T) /\ Cardinality(T) <= Cardinality(S)
  BY <1>1, FS_Subset
<1>4. IsFiniteSet(U) /\ Cardinality(U) <= Cardinality(T)
  BY <1>2, <1>3, FS_Surjection
<1>5. Cardinality(U) \in Nat /\ Cardinality(T) \in Nat /\ Cardinality(S) \in Nat
  BY <1>3, <1>4, FS_CardinalityType
<1> QED
  BY <1>3, <1>4, <1>5

\* With no handler at work everything recorded is folded.
LEMMA QuietOwesNothing ==
    ASSUME Base, Quiet
    PROVE  /\ \A d : Grown(d) = Born(d)
           /\ \A c, d : Kept(c, d) = Seen(c, d)
<1>1. \A s \in Sessions : pc[s] # "bit" /\ todo[s] = {}
  BY DEF Quiet, Base, TodoAtFold
<1>2. (\A r \in rows : r[1] \in Sessions) /\ (\A k \in marks : k[1] \in Sessions)
  BY DEF Base, History
<1>3. (\A r \in rows : ~Growing(r[1])) /\ (\A k \in marks : "cell" \notin todo[k[1]])
  BY <1>1, <1>2 DEF Growing
<1> QED
  BY <1>3 DEF Grown, Born, Kept, Seen

\* What a re-scan reads of a recorded table is within the records.
LEMMA RescanWithin ==
    ASSUME Base, Quiet, NEW table \in [Users -> Row \cup {None}], Recorded(table, rows, marks), NEW d \in Days
    PROVE  Within(Projection(table).ret[d], d)
<1>1. /\ Projection(table).ret[d].size = Cardinality({u \in Users : table[u] # None /\ Cohort(table[u]) = d})
      /\ \A c \in Days : Projection(table).ret[d].cell[c] =
             Cardinality({u \in Users : table[u] # None /\ Cohort(table[u]) = c /\ d - c \in table[u].bits})
  BY ProjectionType
<1>2. Cardinality({u \in Users : table[u] # None /\ Cohort(table[u]) = d}) <= Cardinality(Born(d))
  <2> DEFINE U == {u \in Users : table[u] # None /\ Cohort(table[u]) = d}
  <2>1. \A u \in U : \E r \in Born(d) : UserOf[r[1]] = u
    <3> SUFFICES ASSUME NEW u \in U PROVE \E r \in Born(d) : UserOf[r[1]] = u
      OBVIOUS
    <3>1. PICK s \in Sessions : UserOf[s] = u /\ <<s, d>> \in rows
      BY DEF Recorded
    <3>2. <<s, d>> \in Born(d) /\ UserOf[<<s, d>>[1]] = u
      BY <3>1 DEF Born
    <3> QED
      BY <3>2
  <2> HIDE DEF U
  <2>2. IsFiniteSet(Born(d))
    BY Finite
  <2>3. Cardinality(U) <= Cardinality(Born(d))
    BY <2>1, <2>2, Covered
  <2> QED
    BY <2>3 DEF U
<1>3. ASSUME NEW c \in Days
      PROVE  Cardinality({u \in Users : table[u] # None /\ Cohort(table[u]) = c /\ d - c \in table[u].bits})
                <= Cardinality(Seen(c, d))
  <2> DEFINE U == {u \in Users : table[u] # None /\ Cohort(table[u]) = c /\ d - c \in table[u].bits}
  <2>1. \A u \in U : \E r \in Seen(c, d) : UserOf[r[1]] = u
    <3> SUFFICES ASSUME NEW u \in U PROVE \E r \in Seen(c, d) : UserOf[r[1]] = u
      OBVIOUS
    <3>1. PICK s \in Sessions : UserOf[s] = u /\ <<s, c, d - c>> \in marks
      BY DEF Recorded
    <3>2. <<s, c, d - c>> \in Seen(c, d) /\ UserOf[<<s, c, d - c>>[1]] = u
      BY <3>1 DEF Seen
    <3> QED
      BY <3>2
  <2> HIDE DEF U
  <2>2. IsFiniteSet(Seen(c, d))
    BY Finite
  <2>3. Cardinality(U) <= Cardinality(Seen(c, d))
    BY <2>1, <2>2, Covered
  <2> QED
    BY <2>3 DEF U
<1>4. Grown(d) = Born(d) /\ \A c \in Days : Kept(c, d) = Seen(c, d)
  BY QuietOwesNothing
<1> QED
  BY <1>1, <1>2, <1>3, <1>4 DEF Within

\* What is within keeps within when it is merged.
LEMMA MergeWithin ==
    ASSUME NEW a \in ReturnCell, NEW b \in ReturnCell, NEW d \in Days, Within(a, d), Within(b, d)
    PROVE  Within(MergeReturns(a, b), d)
<1>1. /\ MergeReturns(a, b).size \in {a.size, b.size}
      /\ \A c \in Days : MergeReturns(a, b).cell[c] \in {a.cell[c], b.cell[c]}
  BY MergeType DEF Larger
<1> QED
  BY <1>1 DEF Within

LEMMA WithinHandle ==
    ASSUME Base, WithinInv, NEW s \in Sessions, Handle(s)
    PROVE  WithinInv'
<1> SUFFICES ASSUME QuietRescan, "erased" \notin upset', NEW d \in Days
             PROVE  (Within(stored.ret[d], d) /\ (ret[d] # None => Within(ret[d], d)))'
  BY DEF WithinInv
<1>1. \A e \in Days : Within(stored.ret[e], e) /\ (ret[e] # None => Within(ret[e], e))
  BY HandleFrame DEF WithinInv
<1>2. /\ ret \in [Days -> ReturnCell \cup {None}] /\ stored.ret \in [Days -> ReturnCell]
      /\ UNCHANGED stored
  BY HandleFrame DEF Base, TypeOK
<1>3. \A e \in Days : Within(Filled(ret[e], stored.ret[e]), e) /\ Filled(ret[e], stored.ret[e]) \in ReturnCell
  BY <1>1, <1>2 DEF Filled
<1>4. /\ Cardinality(Grown(d)) \in Nat
      /\ \A c \in Days : Cardinality(Kept(c, d)) \in Nat
  BY Finite
<1>5. CASE Otherwise(s) /\ ~Fail(s)
  <2>1. UNCHANGED ret /\ Grown(d)' = Grown(d) /\ \A c \in Days : Kept(c, d)' = Kept(c, d)
    BY <1>5, OtherwiseDoes
  <2> QED
    BY <1>1, <1>2, <2>1 DEF Within
<1>6. CASE FoldNewUser(s)
  <2>0. PICK c \in Days : c = token[s].cohort
    BY <1>6, NewUserDoes
  <2> DEFINE b == Filled(ret[c], stored.ret[c])
  <2>1. PICK n \in ReturnCell : ret' = [ret EXCEPT ![c] = n] /\ n.size = b.size + 1 /\ n.cell = b.cell
    BY <1>6, <2>0, NewUserDoes
  <2>2. /\ Cardinality(Grown(c)') = Cardinality(Grown(c)) + 1
        /\ d # c => Grown(d)' = Grown(d)
        /\ \A e \in Days : Kept(e, d)' = Kept(e, d)
    BY <1>6, <2>0, NewUserDoes
  <2>3. Within(b, c) /\ b \in ReturnCell
    BY <1>3, <2>0
  <2> HIDE DEF b
  <2>4. CASE d # c
    BY <1>1, <1>2, <2>1, <2>2, <2>4 DEF Within
  <2>5. CASE d = c
    <3>1. Within(stored.ret[d], d)'
      <4>1. stored.ret[d].size \in Nat
        BY <1>2 DEF ReturnCell
      <4> QED
        BY <1>1, <1>2, <1>4, <2>2, <2>5, <4>1 DEF Within
    <3>2. Within(ret[d], d)'
      <4>1. ret'[d] = n
        BY <1>2, <2>0, <2>1, <2>5
      <4>2. n.size <= Cardinality(Grown(d)')
        BY <1>4, <2>1, <2>2, <2>3, <2>5 DEF Within, ReturnCell
      <4>3. \A e \in Days : n.cell[e] <= Cardinality(Kept(e, d)')
        BY <2>1, <2>2, <2>3, <2>5 DEF Within
      <4> QED
        BY <4>1, <4>2, <4>3 DEF Within
    <3> QED
      BY <3>1, <3>2
  <2> QED
    BY <2>4, <2>5
<1>7. CASE FoldReturn(s)
  <2>0. PICK c \in Days, f \in Days : c = token[s].cohort /\ f = StartOf(s)
    BY <1>7, ReturnDoes
  <2> DEFINE b == Filled(ret[f], stored.ret[f])
  <2>1. PICK n \in ReturnCell : /\ ret' = [ret EXCEPT ![f] = n]
                                /\ n.size = b.size /\ n.cell = [b.cell EXCEPT ![c] = @ + 1]
    BY <1>7, <2>0, ReturnDoes
  <2>2. /\ Cardinality(Kept(c, f)') = Cardinality(Kept(c, f)) + 1
        /\ \A e \in Days : ~(e = c /\ d = f) => Kept(e, d)' = Kept(e, d)
        /\ Grown(d)' = Grown(d)
    <3>1. Cardinality(Kept(c, f)') = Cardinality(Kept(c, f)) + 1
      BY <1>7, <2>0, ReturnCounts
    <3>2. \A e, h \in Days : ~(e = c /\ h = f) => Kept(e, h)' = Kept(e, h)
      BY <1>7, <2>0, ReturnCounts
    <3>3. \A h \in Days : Grown(h)' = Grown(h)
      BY <1>7, <2>0, ReturnCounts
    <3> QED
      BY <3>1, <3>2, <3>3
  <2>3. Within(b, f) /\ b \in ReturnCell
    BY <1>3, <2>0
  <2> HIDE DEF b
  <2>4. CASE d # f
    BY <1>1, <1>2, <2>1, <2>2, <2>4 DEF Within
  <2>5. CASE d = f
    <3>1. Within(stored.ret[d], d)'
      <4>1. \A e \in Days : stored.ret[d].cell[e] \in Nat /\ stored.ret[d].cell[e] <= Cardinality(Kept(e, d))
        BY <1>1, <1>2 DEF ReturnCell, Within
      <4>2. \A e \in Days : stored.ret[d].cell[e] <= Cardinality(Kept(e, d)')
        BY <1>4, <2>0, <2>2, <2>5, <4>1
      <4> QED
        BY <1>1, <1>2, <2>2, <4>2 DEF Within
    <3>2. Within(ret[d], d)'
      <4>1. ret'[d] = n
        BY <1>2, <2>0, <2>1, <2>5
      <4>2. n.size <= Cardinality(Grown(d)')
        BY <2>1, <2>2, <2>3, <2>5 DEF Within
      <4>3. \A e \in Days : b.cell[e] \in Nat /\ b.cell[e] <= Cardinality(Kept(e, d))
        BY <2>3, <2>5 DEF ReturnCell, Within
      <4>4. b.cell \in [Days -> Nat]
        BY <2>3 DEF ReturnCell
      <4>5. \A e \in Days : n.cell[e] <= Cardinality(Kept(e, d)')
        BY <1>4, <2>0, <2>1, <2>2, <2>5, <4>3, <4>4
      <4> QED
        BY <4>1, <4>2, <4>5 DEF Within
    <3> QED
      BY <3>1, <3>2
  <2> QED
    BY <2>4, <2>5
<1>8. CASE Fail(s)
  <2>1. UNCHANGED <<ret, rows, marks>>
    BY <1>8, FailDoes
  <2>2. Grown(d) \subseteq Grown(d)' /\ \A c \in Days : Kept(c, d) \subseteq Kept(c, d)'
    BY <1>8, HandleGrown, HandleKept, StepsApart
  <2>3. Grown(d)' \subseteq rows /\ \A c \in Days : Kept(c, d)' \subseteq marks
    BY <2>1 DEF Grown, Kept
  <2>4. Cardinality(Grown(d)') \in Nat /\ Cardinality(Grown(d)) <= Cardinality(Grown(d)')
    <3>1. IsFiniteSet(Grown(d)')
      BY <2>3, Finite, FS_Subset
    <3> QED
      BY <2>2, <3>1, FS_Subset, FS_CardinalityType
  <2>5. ASSUME NEW c \in Days
        PROVE  Cardinality(Kept(c, d)') \in Nat /\ Cardinality(Kept(c, d)) <= Cardinality(Kept(c, d)')
    <3>1. IsFiniteSet(Kept(c, d)')
      BY <2>3, Finite, FS_Subset
    <3> QED
      BY <2>2, <3>1, FS_Subset, FS_CardinalityType
  <2>6. ASSUME NEW b \in ReturnCell, Within(b, d)
        PROVE  b.size <= Cardinality(Grown(d)') /\ \A c \in Days : b.cell[c] <= Cardinality(Kept(c, d)')
    BY <1>4, <2>4, <2>5, <2>6 DEF Within, ReturnCell
  <2> QED
    BY <1>1, <1>2, <2>1, <2>6 DEF Within
<1> QED
  BY <1>5, <1>6, <1>7, <1>8 DEF Handle, Otherwise

LEMMA WithinNext == Base /\ SpineInv /\ WithinInv /\ [Next]_vars => WithinInv'
<1> SUFFICES ASSUME Base, SpineInv, WithinInv, [Next]_vars PROVE WithinInv'
  OBVIOUS
<1>0. ret \in [Days -> ReturnCell \cup {None}] /\ stored.ret \in [Days -> ReturnCell]
  BY DEF Base, TypeOK
<1>1. CASE \E s \in Sessions : Handle(s)
  BY <1>1, WithinHandle
<1>2. CASE \E u \in Users : Erase(u)
  <2>1. /\ UNCHANGED <<pc, todo, token, ret, rows, marks>> /\ stored'.ret = stored.ret
        /\ "erased" \in upset => "erased" \in upset'
    BY <1>2, EraseDoes DEF Base
  <2> QED
    BY <2>1 DEF WithinInv, Within, Grown, Kept, Growing
<1>3. ASSUME Sweep \/ LoseRedis \/ RescanRead \/ RescanWrite \/ Tick
      PROVE  WithinInv'
  <2> SUFFICES ASSUME QuietRescan, "erased" \notin upset', NEW d \in Days
               PROVE  (Within(stored.ret[d], d) /\ (ret[d] # None => Within(ret[d], d)))'
    BY DEF WithinInv
  <2>1. UNCHANGED <<pc, todo, token, rows, marks>> /\ "erased" \notin upset
    BY <1>3 DEF Sweep, LoseRedis, RescanRead, RescanWrite, Tick, handlers, bounds
  <2>2. Within(stored.ret[d], d) /\ (ret[d] # None => Within(ret[d], d))
    BY <2>1 DEF WithinInv
  <2>3. Grown(d)' = Grown(d) /\ \A c \in Days : Kept(c, d)' = Kept(c, d)
    BY <2>1 DEF Grown, Kept, Growing
  <2>4. CASE Sweep
    <3>1. stored'.ret[d] = stored.ret[d] \/ (ret[d] # None /\ stored'.ret[d] = MergeReturns(stored.ret[d], ret[d]))
      BY <2>4, SweptRows DEF Base
    <3>2. Within(stored'.ret[d], d)
      BY <1>0, <2>2, <3>1, MergeWithin
    <3>3. ret' = ret
      BY <2>4 DEF Sweep
    <3> QED
      BY <2>2, <2>3, <3>2, <3>3 DEF Within
  <2>5. CASE LoseRedis
    <3>1. ret'[d] = None /\ stored' = stored
      BY <2>5 DEF LoseRedis
    <3> QED
      BY <2>2, <2>3, <3>1 DEF Within
  <2>6. CASE RescanWrite
    <3>1. /\ Quiet /\ Recorded(scan, rows, marks) /\ scan \in [Users -> Row \cup {None}]
      BY <2>1, <2>6 DEF RescanWrite, Base, ScanIsQuiet, SpineInv, TypeOK
    <3>2. Within(Projection(scan).ret[d], d) /\ Projection(scan).ret[d] \in ReturnCell
      BY <3>1, RescanWithin, ProjectionType
    <3>3. stored'.ret[d] = MergeReturns(stored.ret[d], Projection(scan).ret[d]) /\ ret' = ret
      BY <2>6 DEF RescanWrite, Base, TypeOK, buckets
    <3>4. Within(stored'.ret[d], d)
      BY <1>0, <2>2, <3>2, <3>3, MergeWithin
    <3> QED
      BY <2>2, <2>3, <3>3, <3>4 DEF Within
  <2>7. CASE RescanRead \/ Tick
    <3>1. UNCHANGED <<ret, stored>>
      BY <2>7 DEF RescanRead, Tick, buckets
    <3> QED
      BY <2>2, <2>3, <3>1 DEF Within
  <2> QED
    BY <1>3, <2>4, <2>5, <2>6, <2>7
<1>4. CASE UNCHANGED vars
  BY <1>4 DEF vars, handlers, buckets, bounds, WithinInv, Within, Grown, Kept, Growing
<1> QED
  BY <1>1, <1>2, <1>3, <1>4 DEF Next

LEMMA InitWithin == Init => Base /\ SpineInv /\ WithinInv
<1> SUFFICES ASSUME Init PROVE Base /\ SpineInv /\ WithinInv
  OBVIOUS
<1>1. Base
  BY BaseInit
<1>2. SpineInv
  BY DEF Init, SpineInv, Recorded, AtBit
<1>3. WithinInv
  <2>1. \A d \in Days : /\ ret[d] = None /\ stored.ret[d].size = 0
                        /\ \A c \in Days : stored.ret[d].cell[c] = 0
    BY DEF Init, NoReturns
  <2>2. \A d \in Days : 0 <= Cardinality(Grown(d)) /\ \A c \in Days : 0 <= Cardinality(Kept(c, d))
    BY <1>1, Finite
  <2> QED
    BY <2>1, <2>2 DEF WithinInv, Within
<1> QED
  BY <1>1, <1>2, <1>3

\* No report shows more users than the spine ever held: with the re-scan run while
\* nothing writes the spine, neither a bucket nor a stored row counts a new user or
\* a return that was not recorded, through any sweeps, retries, re-scans and losses
\* of Redis.
THEOREM ReportsStayWithin == Spec => [](QuietRescan => ProjectionWithinSpine)
<1> DEFINE Inv == Base /\ SpineInv /\ WithinInv
<1>1. Init => Inv
  BY InitWithin
<1>2. Inv /\ [Next]_vars => Inv'
  BY BaseNext, SpineNext, WithinNext
<1>3. Inv => (QuietRescan => ProjectionWithinSpine)
  <2> SUFFICES ASSUME Inv, QuietRescan, "erased" \notin upset, NEW b \in {ret, stored.ret}, NEW d \in Days, b[d] # None
               PROVE  /\ b[d].size <= Cardinality(Born(d))
                      /\ \A c \in Days : b[d].cell[c] <= Cardinality(Seen(c, d))
    BY DEF ProjectionWithinSpine
  <2>1. Within(b[d], d) /\ b[d] \in ReturnCell
    BY DEF WithinInv, Base, TypeOK
  <2>2. /\ Cardinality(Grown(d)) \in Nat /\ Cardinality(Born(d)) \in Nat
        /\ Cardinality(Grown(d)) <= Cardinality(Born(d))
        /\ \A c \in Days : /\ Cardinality(Kept(c, d)) \in Nat /\ Cardinality(Seen(c, d)) \in Nat
                           /\ Cardinality(Kept(c, d)) <= Cardinality(Seen(c, d))
    BY Finite
  <2> QED
    BY <2>1, <2>2 DEF Within, ReturnCell
<1> QED
  BY <1>1, <1>2, <1>3, PTL DEF Spec

-----------------------------------------------------------------------------
(* Nothing is lost on the way *)

\* A bucket, or a durable row, of day d shows exactly what is recorded and folded.
Exact(b, d) ==
    /\ b.size = Cardinality(Grown(d))
    /\ \A c \in Days : b.cell[c] = Cardinality(Kept(c, d))

\* What counts is exact, the bucket or, where there is none, the durable row; and a
\* bucket that is not dirty is already in the durable row.
ExactInv ==
    QuietRescan /\ upset = {} =>
        \A d \in Days :
            /\ Exact(Filled(ret[d], stored.ret[d]), d)
            /\ <<"ret", d>> \notin dirty /\ ret[d] # None => Exact(stored.ret[d], d)

\* What is exact stays so when it is merged with what is within.
LEMMA MergeExact ==
    ASSUME NEW a \in ReturnCell, NEW b \in ReturnCell, NEW d \in Days, Within(a, d), Within(b, d),
           Exact(a, d) \/ Exact(b, d),
           Cardinality(Grown(d)) \in Nat, \A c \in Days : Cardinality(Kept(c, d)) \in Nat
    PROVE  Exact(MergeReturns(a, b), d)
<1>1. /\ MergeReturns(a, b).size = Larger(a.size, b.size)
      /\ \A c \in Days : MergeReturns(a, b).cell[c] = Larger(a.cell[c], b.cell[c])
  BY MergeType
<1>2. a.size \in Nat /\ b.size \in Nat /\ \A c \in Days : a.cell[c] \in Nat /\ b.cell[c] \in Nat
  BY DEF ReturnCell
<1>3. Larger(a.size, b.size) = Cardinality(Grown(d))
  BY <1>2 DEF Within, Exact, Larger
<1>4. \A c \in Days : Larger(a.cell[c], b.cell[c]) = Cardinality(Kept(c, d))
  BY <1>2 DEF Within, Exact, Larger
<1> QED
  BY <1>1, <1>3, <1>4 DEF Exact

LEMMA ExactHandle ==
    ASSUME Base, ExactInv, NEW s \in Sessions, Handle(s)
    PROVE  ExactInv'
<1> SUFFICES ASSUME QuietRescan, upset' = {}, NEW d \in Days
             PROVE  (/\ Exact(Filled(ret[d], stored.ret[d]), d)
                     /\ <<"ret", d>> \notin dirty /\ ret[d] # None => Exact(stored.ret[d], d))'
  BY DEF ExactInv
<1>0. upset = {} /\ ~Fail(s)
  BY HandleFrame
<1>1. \A e \in Days : /\ Exact(Filled(ret[e], stored.ret[e]), e)
                      /\ <<"ret", e>> \notin dirty /\ ret[e] # None => Exact(stored.ret[e], e)
  BY <1>0 DEF ExactInv
<1>2. /\ ret \in [Days -> ReturnCell \cup {None}] /\ stored.ret \in [Days -> ReturnCell]
      /\ UNCHANGED stored
  BY HandleFrame DEF Base, TypeOK
<1>3. CASE Otherwise(s)
  <2>1. UNCHANGED ret /\ (<<"ret", d>> \in dirty' <=> <<"ret", d>> \in dirty)
    BY <1>0, <1>3, OtherwiseDoes
  <2>2. Grown(d)' = Grown(d) /\ \A c \in Days : Kept(c, d)' = Kept(c, d)
    BY <1>0, <1>3, OtherwiseDoes
  <2>3. \A b \in {Filled(ret[d], stored.ret[d]), stored.ret[d]} :
           Exact(b, d) => b.size = Cardinality(Grown(d)') /\ \A c \in Days : b.cell[c] = Cardinality(Kept(c, d)')
    BY <2>2 DEF Exact
  <2> QED
    BY <1>1, <1>2, <2>1, <2>3 DEF Exact
<1>4. CASE FoldNewUser(s)
  <2>0. PICK c \in Days : c = token[s].cohort
    BY <1>4, NewUserDoes
  <2> DEFINE b == Filled(ret[c], stored.ret[c])
  <2>1. PICK n \in ReturnCell : ret' = [ret EXCEPT ![c] = n] /\ n.size = b.size + 1 /\ n.cell = b.cell
    BY <1>4, <2>0, NewUserDoes
  <2>2. /\ Cardinality(Grown(c)') = Cardinality(Grown(c)) + 1
        /\ d # c => Grown(d)' = Grown(d)
        /\ \A e \in Days : Kept(e, d)' = Kept(e, d)
    BY <1>4, <2>0, NewUserDoes
  <2>3. dirty' = dirty \cup {<<"ret", c>>}
    BY <1>4, <2>0, NewUserDoes
  <2>4. CASE d # c
    <3>1. ret'[d] = ret[d] /\ (<<"ret", d>> \in dirty' <=> <<"ret", d>> \in dirty)
      BY <1>2, <2>1, <2>3, <2>4
    <3>2. \A x \in {Filled(ret[d], stored.ret[d]), stored.ret[d]} :
             Exact(x, d) => x.size = Cardinality(Grown(d)') /\ \A e \in Days : x.cell[e] = Cardinality(Kept(e, d)')
      BY <2>2, <2>4 DEF Exact
    <3> QED
      BY <1>1, <1>2, <3>1, <3>2 DEF Exact
  <2>5. CASE d = c
    <3>1. Exact(b, d)
      BY <1>1, <2>5
    <3> HIDE DEF b
    <3>2. ret'[d] = n /\ n # None /\ <<"ret", d>> \in dirty'
      BY <1>2, <2>1, <2>3, <2>5, NoneAssumption
    <3>3. n.size = Cardinality(Grown(d)') /\ \A e \in Days : n.cell[e] = Cardinality(Kept(e, d)')
      BY <2>1, <2>2, <2>5, <3>1 DEF Exact
    <3> QED
      BY <3>2, <3>3 DEF Exact, Filled
  <2> QED
    BY <2>4, <2>5
<1>5. CASE FoldReturn(s)
  <2>0. PICK c \in Days, f \in Days : c = token[s].cohort /\ f = StartOf(s)
    BY <1>5, ReturnDoes
  <2> DEFINE b == Filled(ret[f], stored.ret[f])
  <2>1. PICK n \in ReturnCell : /\ ret' = [ret EXCEPT ![f] = n]
                                /\ n.size = b.size /\ n.cell = [b.cell EXCEPT ![c] = @ + 1]
    BY <1>5, <2>0, ReturnDoes
  <2>2. Cardinality(Kept(c, f)') = Cardinality(Kept(c, f)) + 1
    BY <1>5, <2>0, ReturnCounts
  <2>3. \A e, h \in Days : ~(e = c /\ h = f) => Kept(e, h)' = Kept(e, h)
    BY <1>5, <2>0, ReturnCounts
  <2>4. Grown(d)' = Grown(d)
    BY <1>5, <2>0, ReturnCounts
  <2>5. dirty' = dirty \cup {<<"ret", f>>}
    BY <1>5, <2>0, ReturnDoes
  <2>6. CASE d # f
    <3>1. ret'[d] = ret[d] /\ (<<"ret", d>> \in dirty' <=> <<"ret", d>> \in dirty)
      BY <1>2, <2>1, <2>5, <2>6
    <3>2. \A x \in {Filled(ret[d], stored.ret[d]), stored.ret[d]} :
             Exact(x, d) => x.size = Cardinality(Grown(d)') /\ \A e \in Days : x.cell[e] = Cardinality(Kept(e, d)')
      BY <2>3, <2>4, <2>6 DEF Exact
    <3> QED
      BY <1>1, <1>2, <3>1, <3>2 DEF Exact
  <2>7. CASE d = f
    <3>1. Exact(b, d) /\ b.cell \in [Days -> Nat]
      BY <1>1, <1>2, <2>7 DEF Filled, ReturnCell
    <3> HIDE DEF b
    <3>2. ret'[d] = n /\ n # None /\ <<"ret", d>> \in dirty'
      BY <1>2, <2>1, <2>5, <2>7, NoneAssumption
    <3>3. n.size = Cardinality(Grown(d)')
      BY <2>1, <2>4, <3>1 DEF Exact
    <3>4. ASSUME NEW e \in Days PROVE n.cell[e] = Cardinality(Kept(e, d)')
      <4>1. CASE e = c
        BY <2>1, <2>2, <2>7, <3>1, <4>1 DEF Exact
      <4>2. CASE e # c
        BY <2>1, <2>3, <2>7, <3>1, <4>2 DEF Exact
      <4> QED
        BY <4>1, <4>2
    <3> QED
      BY <3>2, <3>3, <3>4 DEF Exact, Filled
  <2> QED
    BY <2>6, <2>7
<1> QED
  BY <1>0, <1>3, <1>4, <1>5 DEF Handle, Otherwise

LEMMA ExactNext == Base /\ SpineInv /\ WithinInv /\ ExactInv /\ [Next]_vars => ExactInv'
<1> SUFFICES ASSUME Base, SpineInv, WithinInv, ExactInv, [Next]_vars PROVE ExactInv'
  OBVIOUS
<1>0. ret \in [Days -> ReturnCell \cup {None}] /\ stored.ret \in [Days -> ReturnCell]
  BY DEF Base, TypeOK
<1>1. CASE \E s \in Sessions : Handle(s)
  BY <1>1, ExactHandle
<1>5. ASSUME UNCHANGED <<pc, todo, token, ret, dirty, rows, marks>>, stored'.ret = stored.ret,
             upset' = {} => upset = {}
      PROVE  ExactInv'
  <2> SUFFICES ASSUME QuietRescan, upset = {}, NEW d \in Days
               PROVE  (/\ Exact(Filled(ret[d], stored.ret[d]), d)
                       /\ <<"ret", d>> \notin dirty /\ ret[d] # None => Exact(stored.ret[d], d))'
    BY <1>5 DEF ExactInv
  <2>1. Grown(d)' = Grown(d) /\ \A c \in Days : Kept(c, d)' = Kept(c, d)
    BY <1>5 DEF Grown, Kept, Growing
  <2>2. ASSUME NEW b, Exact(b, d)
        PROVE  b.size = Cardinality(Grown(d)') /\ \A c \in Days : b.cell[c] = Cardinality(Kept(c, d)')
    BY <2>1, <2>2 DEF Exact
  <2>3. /\ Exact(Filled(ret[d], stored.ret[d]), d)
        /\ <<"ret", d>> \notin dirty /\ ret[d] # None => Exact(stored.ret[d], d)
    BY DEF ExactInv
  <2>4. (Exact(Filled(ret[d], stored.ret[d]), d))'
    BY <1>5, <2>2, <2>3 DEF Exact
  <2>5. (<<"ret", d>> \notin dirty /\ ret[d] # None => Exact(stored.ret[d], d))'
    BY <1>5, <2>2, <2>3 DEF Exact
  <2> QED
    BY <2>4, <2>5
<1>2. CASE \E u \in Users : Erase(u)
  <2>1. UNCHANGED <<pc, todo, token, ret, dirty, rows, marks>> /\ stored'.ret = stored.ret
    BY <1>2, EraseDoes DEF Base
  <2>2. upset' = {} => upset = {}
    BY <1>2, EraseDoes DEF Base
  <2> QED
    BY <1>5, <2>1, <2>2
<1>3. ASSUME Sweep \/ LoseRedis \/ RescanRead \/ RescanWrite \/ Tick
      PROVE  ExactInv'
  <2> SUFFICES ASSUME QuietRescan, upset' = {}, NEW d \in Days
               PROVE  (/\ Exact(Filled(ret[d], stored.ret[d]), d)
                       /\ <<"ret", d>> \notin dirty /\ ret[d] # None => Exact(stored.ret[d], d))'
    BY DEF ExactInv
  <2>1. UNCHANGED <<pc, todo, token, rows, marks, ret>> /\ upset = {}
    <3>1. ~LoseRedis
      BY DEF LoseRedis
    <3> QED
      BY <1>3, <3>1 DEF Sweep, RescanRead, RescanWrite, Tick, handlers, bounds, buckets
  <2>2. /\ Exact(Filled(ret[d], stored.ret[d]), d)
        /\ <<"ret", d>> \notin dirty /\ ret[d] # None => Exact(stored.ret[d], d)
        /\ Within(stored.ret[d], d) /\ (ret[d] # None => Within(ret[d], d))
    BY <2>1 DEF ExactInv, WithinInv
  <2>3. Grown(d)' = Grown(d) /\ \A c \in Days : Kept(c, d)' = Kept(c, d)
    BY <2>1 DEF Grown, Kept, Growing
  <2>4. Cardinality(Grown(d)) \in Nat /\ \A c \in Days : Cardinality(Kept(c, d)) \in Nat
    BY Finite
  <2>5. ASSUME NEW b, Exact(b, d)
        PROVE  b.size = Cardinality(Grown(d)') /\ \A c \in Days : b.cell[c] = Cardinality(Kept(c, d)')
    BY <2>3, <2>5 DEF Exact
  <2>6. CASE Sweep
    <3>1. stored'.ret[d] = IF <<"ret", d>> \in dirty /\ ret[d] # None
                           THEN MergeReturns(stored.ret[d], ret[d]) ELSE stored.ret[d]
      BY <2>6, SweptRows DEF Base
    <3>2. ret[d] # None => Exact(ret[d], d)
      BY <2>2 DEF Filled
    <3>3. ret[d] = None => Exact(stored.ret[d], d)
      BY <2>2 DEF Filled
    <3>4. Exact(stored'.ret[d], d)
      <4>1. CASE <<"ret", d>> \in dirty /\ ret[d] # None
        BY <1>0, <2>2, <2>4, <3>1, <3>2, <4>1, MergeExact
      <4>2. CASE ~(<<"ret", d>> \in dirty /\ ret[d] # None)
        BY <2>2, <3>1, <3>3, <4>2
      <4> QED
        BY <4>1, <4>2
    <3>5. Filled(ret'[d], stored'.ret[d]) \in {ret[d], stored'.ret[d]} /\ Exact(Filled(ret'[d], stored'.ret[d]), d)
      BY <2>1, <3>2, <3>4 DEF Filled
    <3> QED
      BY <2>3, <3>4, <3>5 DEF Exact
  <2>7. CASE RescanWrite
    <3>1. Quiet /\ Recorded(scan, rows, marks) /\ scan \in [Users -> Row \cup {None}]
      BY <2>1, <2>7 DEF RescanWrite, Base, ScanIsQuiet, SpineInv, TypeOK
    <3>2. Within(Projection(scan).ret[d], d) /\ Projection(scan).ret[d] \in ReturnCell
      BY <3>1, RescanWithin, ProjectionType
    <3>3. stored'.ret[d] = MergeReturns(stored.ret[d], Projection(scan).ret[d]) /\ dirty' = dirty
      BY <2>7 DEF RescanWrite, Base, TypeOK, buckets
    <3>4. Exact(stored.ret[d], d) => Exact(stored'.ret[d], d)
      BY <1>0, <2>2, <2>4, <3>2, <3>3, MergeExact
    <3>5. Exact(Filled(ret'[d], stored'.ret[d]), d)
      BY <2>1, <2>2, <3>4 DEF Filled
    <3>6. <<"ret", d>> \notin dirty' /\ ret'[d] # None => Exact(stored'.ret[d], d)
      BY <2>1, <2>2, <3>3, <3>4
    <3> QED
      BY <2>3, <3>5, <3>6 DEF Exact
  <2>8. CASE RescanRead \/ Tick
    <3>1. UNCHANGED <<ret, stored, dirty>>
      BY <2>8 DEF RescanRead, Tick, buckets
    <3>2. (Exact(Filled(ret[d], stored.ret[d]), d))'
      BY <2>2, <2>3, <3>1 DEF Exact
    <3>3. (<<"ret", d>> \notin dirty /\ ret[d] # None => Exact(stored.ret[d], d))'
      BY <2>2, <2>3, <3>1 DEF Exact
    <3> QED
      BY <3>2, <3>3
  <2>9. ~LoseRedis
    BY DEF LoseRedis
  <2> QED
    BY <1>3, <2>6, <2>7, <2>8, <2>9
<1>4. CASE UNCHANGED vars
  BY <1>4, <1>5 DEF vars, handlers, buckets, bounds
<1> QED
  BY <1>1, <1>2, <1>3, <1>4 DEF Next

\* A row whose day 0 is not marked has a handler on its way to mark it.
BitComing ==
    \A u \in Users : spine[u] # None /\ 0 \notin spine[u].bits =>
        \E s \in Sessions : UserOf[s] = u /\ pc[s] = "bit" /\ StartOf(s) = Cohort(spine[u])

Lacking(c) == {u \in Users : spine[u] # None /\ Cohort(spine[u]) = c /\ 0 \notin spine[u].bits}

\* Day 0 of a cohort and the users still lacking it make up the cohort.
Balanced == \A c \in Days : Cardinality(Seen(c, c)) + Cardinality(Lacking(c)) = Cardinality(Born(c))

DayZeroInv == upset = {} => BitComing /\ Balanced

LEMMA LackingFinite == \A c : IsFiniteSet(Lacking(c)) /\ Cardinality(Lacking(c)) \in Nat
<1> TAKE c
<1>1. Lacking(c) \subseteq Users
  BY DEF Lacking
<1> QED
  BY <1>1, SpineAssumption, FS_Subset, FS_CardinalityType

LEMMA DayZeroSeed ==
    ASSUME Base, SpineInv, BitComing, Balanced, NEW s \in Sessions, Seed(s)
    PROVE  BitComing' /\ Balanced'
<1>1. /\ pc \in [Sessions -> Steps] /\ token \in [Sessions -> Tokens]
      /\ spine \in [Users -> Row \cup {None}] /\ pc[s] = "seed" /\ UserOf[s] \in Users /\ UNCHANGED marks
  BY SeedDoes DEF Base, TypeOK, Steps, Tokens
<1>2. CASE spine[UserOf[s]] # None /\ pc' = [pc EXCEPT ![s] = "reread"] /\ UNCHANGED <<spine, rows>>
  <2>1. BitComing'
    BY <1>1, <1>2 DEF BitComing
  <2>2. Balanced'
    BY <1>1, <1>2 DEF Balanced, Lacking, Seen, Born
  <2> QED
    BY <2>1, <2>2
<1>3. CASE /\ spine[UserOf[s]] = None
           /\ spine' = [spine EXCEPT ![UserOf[s]] = [first |-> IntervalOf(s).start, bits |-> {}]]
           /\ rows' = rows \cup {<<s, StartOf(s)>>}
           /\ pc' = [pc EXCEPT ![s] = "bit"]
  <2> DEFINE row == [first |-> IntervalOf(s).start, bits |-> {}]
  <2>1. PICK u \in Users : u = UserOf[s]
    BY <1>1
  <2>2. Cohort(row) = StartOf(s) /\ row.bits = {} /\ row # None
    <3>1. row \in Row
      BY DaysType DEF Row
    <3> QED
      BY <3>1, NoneAssumption, DaysType DEF Cohort
  <2>3. spine' = [spine EXCEPT ![u] = row] /\ spine[u] = None
    BY <1>3, <2>1
  <2> HIDE DEF row
  <2>4. BitComing'
    <3> SUFFICES ASSUME NEW v \in Users, spine'[v] # None, 0 \notin spine'[v].bits
                 PROVE  \E r \in Sessions : UserOf[r] = v /\ pc'[r] = "bit" /\ StartOf(r) = Cohort(spine'[v])
      BY DEF BitComing
    <3>1. CASE v = u
      BY <1>1, <1>3, <2>1, <2>2, <2>3, <3>1
    <3>2. CASE v # u
      <4>1. PICK r \in Sessions : UserOf[r] = v /\ pc[r] = "bit" /\ StartOf(r) = Cohort(spine[v])
        BY <1>1, <2>3, <3>2 DEF BitComing
      <4> QED
        BY <1>1, <1>3, <2>3, <3>2, <4>1
    <3> QED
      BY <3>1, <3>2
  <2>5. ASSUME NEW c \in Days
        PROVE  (Cardinality(Seen(c, c)) + Cardinality(Lacking(c)) = Cardinality(Born(c)))'
    <3>1. /\ Seen(c, c)' = Seen(c, c) /\ Cardinality(Seen(c, c)) \in Nat
          /\ Cardinality(Seen(c, c)) + Cardinality(Lacking(c)) = Cardinality(Born(c))
          /\ Cardinality(Born(c)) \in Nat /\ Cardinality(Lacking(c)) \in Nat
      BY <1>1, Finite, LackingFinite DEF Seen, Balanced
    <3>2. CASE c = StartOf(s)
      <4>1. Lacking(c)' = Lacking(c) \cup {u} /\ u \notin Lacking(c)
        BY <1>1, <2>2, <2>3, <3>2 DEF Lacking
      <4>2. Born(c)' = Born(c) \cup {<<s, c>>}
        BY <1>3, <3>2 DEF Born
      <4>3. <<s, c>> \notin Born(c)
        BY <1>1 DEF Born, Base, History
      <4>4. Cardinality(Lacking(c)') = Cardinality(Lacking(c)) + 1
        BY <4>1, LackingFinite, FS_AddElement
      <4>5. Cardinality(Born(c)') = Cardinality(Born(c)) + 1
        BY <4>2, <4>3, Finite, FS_AddElement
      <4> QED
        BY <3>1, <4>4, <4>5
    <3>3. CASE c # StartOf(s)
      <4>1. Lacking(c)' = Lacking(c)
        BY <1>1, <2>2, <2>3, <3>3 DEF Lacking
      <4>2. Born(c)' = Born(c)
        BY <1>3, <3>3 DEF Born
      <4> QED
        BY <3>1, <4>1, <4>2
    <3> QED
      BY <3>2, <3>3
  <2> QED
    BY <2>4, <2>5 DEF Balanced
<1> QED
  BY <1>2, <1>3, SeedDoes

LEMMA DayZeroSetBit ==
    ASSUME Base, AtBit, BitComing, Balanced, NEW s \in Sessions, SetBit(s)
    PROVE  BitComing' /\ Balanced'
<1>1. PICK u \in Users, h \in Days, off \in 0 .. (Span - 1) :
         u = UserOf[s] /\ h = token[s].cohort /\ off = StartOf(s) - token[s].cohort
  BY SetBitDoes
<1>2. /\ pc \in [Sessions -> Steps] /\ spine \in [Users -> Row \cup {None}]
      /\ pc[s] = "bit" /\ pc' = [pc EXCEPT ![s] = "fold"] /\ UNCHANGED rows
  BY SetBitDoes DEF Base, TypeOK, Steps
<1>3. spine[u] \in Row /\ spine[u] # None /\ Cohort(spine[u]) = h
  BY <1>1, <1>2 DEF AtBit
<1>4. \A c \in Days : c \in Int
  BY DaysType
<1>5. off = 0 <=> StartOf(s) = h
  <2>1. StartOf(s) \in Int /\ h \in Int
    BY <1>4, DaysType
  <2>2. off = StartOf(s) - h
    BY <1>1
  <2> QED
    BY <2>1, <2>2
<1>6. \A c \in Days : /\ Cardinality(Seen(c, c)) + Cardinality(Lacking(c)) = Cardinality(Born(c))
                      /\ Born(c)' = Born(c)
                      /\ Cardinality(Born(c)) \in Nat /\ Cardinality(Lacking(c)) \in Nat
                      /\ Cardinality(Seen(c, c)) \in Nat
  BY <1>2, Finite, LackingFinite DEF Balanced, Born
<1>7. CASE off \in spine[u].bits /\ UNCHANGED <<spine, marks>>
  <2>1. BitComing'
    <3> SUFFICES ASSUME NEW v \in Users, spine[v] # None, 0 \notin spine[v].bits
                 PROVE  \E r \in Sessions : UserOf[r] = v /\ pc'[r] = "bit" /\ StartOf(r) = Cohort(spine[v])
      BY <1>7 DEF BitComing
    <3>1. PICK r \in Sessions : UserOf[r] = v /\ pc[r] = "bit" /\ StartOf(r) = Cohort(spine[v])
      BY DEF BitComing
    <3>2. r # s
      BY <1>1, <1>3, <1>5, <1>7, <3>1
    <3> QED
      BY <1>2, <3>1, <3>2
  <2>2. Balanced'
    BY <1>2, <1>7 DEF Balanced, Lacking, Seen, Born
  <2> QED
    BY <2>1, <2>2
<1>8. CASE /\ off \notin spine[u].bits
           /\ spine' = [spine EXCEPT ![u].bits = @ \cup {off}]
           /\ marks' = marks \cup {<<s, h, off>>}
  <2> DEFINE row == [spine[u] EXCEPT !.bits = @ \cup {off}]
  <2>1. row \in Row /\ row # None /\ Cohort(row) = h /\ row.bits = spine[u].bits \cup {off}
    <3>1. row \in Row /\ row.first = spine[u].first /\ row.bits = spine[u].bits \cup {off}
      BY <1>3 DEF Row
    <3> QED
      BY <1>3, <3>1, NoneAssumption DEF Cohort
  <2>2. spine' = [spine EXCEPT ![u] = row]
    BY <1>8
  <2> HIDE DEF row
  <2>3. BitComing'
    <3> SUFFICES ASSUME NEW v \in Users, spine'[v] # None, 0 \notin spine'[v].bits
                 PROVE  \E r \in Sessions : UserOf[r] = v /\ pc'[r] = "bit" /\ StartOf(r) = Cohort(spine'[v])
      BY DEF BitComing
    <3>1. spine[v] # None /\ 0 \notin spine[v].bits /\ Cohort(spine'[v]) = Cohort(spine[v])
      BY <1>2, <1>3, <2>1, <2>2
    <3>2. PICK r \in Sessions : UserOf[r] = v /\ pc[r] = "bit" /\ StartOf(r) = Cohort(spine[v])
      BY <3>1 DEF BitComing
    <3>3. r # s
      <4>1. CASE v = u
        <5>1. off # 0
          BY <1>2, <2>1, <2>2, <4>1
        <5> QED
          BY <1>3, <1>5, <3>2, <4>1, <5>1
      <4>2. CASE v # u
        BY <1>1, <3>2, <4>2
      <4> QED
        BY <4>1, <4>2
    <3> QED
      BY <1>2, <3>1, <3>2, <3>3
  <2>4. ASSUME NEW c \in Days
        PROVE  (Cardinality(Seen(c, c)) + Cardinality(Lacking(c)) = Cardinality(Born(c)))'
    <3>0. c - c = 0
      BY <1>4
    <3>1. CASE c = h /\ off = 0
      <4>1. Lacking(c)' = Lacking(c) \ {u} /\ u \in Lacking(c)
        BY <1>2, <1>3, <1>8, <2>1, <2>2, <3>1 DEF Lacking
      <4>2. Seen(c, c)' = Seen(c, c) \cup {<<s, c, 0>>}
        BY <1>8, <3>0, <3>1 DEF Seen
      <4>3. <<s, c, 0>> \notin Seen(c, c)
        BY <1>2, <3>1 DEF Seen, Base, History
      <4>4. Cardinality(Lacking(c)') = Cardinality(Lacking(c)) - 1
        BY <4>1, LackingFinite, FS_RemoveElement
      <4>5. Cardinality(Seen(c, c)') = Cardinality(Seen(c, c)) + 1
        <5> DEFINE old == Seen(c, c)
        <5>1. IsFiniteSet(old) /\ <<s, c, 0>> \notin old
          BY <4>3, Finite
        <5> HIDE DEF old
        <5>2. Cardinality(old \cup {<<s, c, 0>>}) = Cardinality(old) + 1
          BY <5>1, FS_AddElement
        <5> QED
          BY <4>2, <5>2 DEF old
      <4> QED
        BY <1>6, <4>4, <4>5
    <3>2. CASE ~(c = h /\ off = 0)
      <4>1. Lacking(c)' = Lacking(c)
        BY <1>2, <1>3, <1>8, <2>1, <2>2, <3>2 DEF Lacking
      <4>2. Seen(c, c)' = Seen(c, c)
        BY <1>8, <3>0, <3>2 DEF Seen
      <4> QED
        BY <1>6, <4>1, <4>2
    <3> QED
      BY <3>1, <3>2
  <2> QED
    BY <2>3, <2>4 DEF Balanced
<1> QED
  BY <1>1, <1>3, <1>7, <1>8 DEF SetBit

LEMMA DayZeroNext == Base /\ SpineInv /\ DayZeroInv /\ [Next]_vars => DayZeroInv'
<1> SUFFICES ASSUME Base, SpineInv, DayZeroInv, [Next]_vars, upset' = {}
             PROVE  BitComing' /\ Balanced'
  BY DEF DayZeroInv
<1>1. ASSUME UNCHANGED <<spine, rows, marks>>, upset = {}, \A s \in Sessions : pc[s] = "bit" => pc'[s] = "bit"
      PROVE  BitComing' /\ Balanced'
  <2>1. BitComing /\ Balanced
    BY <1>1 DEF DayZeroInv
  <2>2. BitComing'
    BY <1>1, <2>1 DEF BitComing
  <2>3. Balanced'
    BY <1>1, <2>1 DEF Balanced, Lacking, Seen, Born
  <2> QED
    BY <2>2, <2>3
<1>2. ASSUME NEW s \in Sessions, Handle(s) PROVE BitComing' /\ Balanced'
  <2>1. upset = {} /\ ~Fail(s)
    BY <1>2, HandleFrame
  <2>2. BitComing /\ Balanced /\ AtBit
    BY <2>1 DEF DayZeroInv, SpineInv
  <2>3. CASE Seed(s)
    BY <2>2, <2>3, DayZeroSeed
  <2>4. CASE SetBit(s)
    BY <2>2, <2>4, DayZeroSetBit
  <2>5. CASE Receive(s) \/ Reread(s) \/ \E step : FoldStep(s, step)
    <3>1. UNCHANGED <<spine, rows, marks>> /\ pc[s] # "bit"
      BY <2>5, ReceiveDoes, RereadDoes, FoldDoes
    <3>2. \A r \in Sessions : pc[r] = "bit" => pc'[r] = "bit"
      BY <1>2, <3>1, HandleFrame
    <3> QED
      BY <1>1, <2>1, <3>1, <3>2
  <2> QED
    BY <1>2, <2>1, <2>3, <2>4, <2>5
    DEF Handle, FoldStart, FoldEnd, FoldActive, FoldNewUser, FoldReturn
<1>3. ASSUME NEW u \in Users, Erase(u) PROVE BitComing' /\ Balanced'
  <2>1. UNCHANGED <<pc, rows, marks>> /\ upset = {}
    BY <1>3, EraseDoes DEF Base
  <2>2. CASE UNCHANGED spine
    BY <1>1, <2>1, <2>2
  <2>3. CASE spine' = [spine EXCEPT ![u] = None] /\ ~InFlight(u)
    <3>1. BitComing /\ Balanced /\ spine \in [Users -> Row \cup {None}]
      BY <2>1 DEF DayZeroInv, Base, TypeOK
    <3>2. spine[u] = None \/ 0 \in spine[u].bits
      BY <2>3, <3>1 DEF BitComing, InFlight
    <3>3. \A v \in Users : spine'[v] = IF v = u THEN None ELSE spine[v]
      BY <2>3, <3>1
    <3>4. BitComing'
      BY <2>1, <3>1, <3>3 DEF BitComing
    <3>5. \A c \in Days : Lacking(c)' = Lacking(c)
      BY <3>2, <3>3 DEF Lacking
    <3>6. Balanced'
      BY <2>1, <3>1, <3>5 DEF Balanced, Seen, Born
    <3> QED
      BY <3>4, <3>6
  <2>4. UNCHANGED spine \/ (spine' = [spine EXCEPT ![u] = None] /\ ~InFlight(u))
    BY <1>3, EraseDoes DEF Base
  <2> QED
    BY <2>2, <2>3, <2>4
<1>4. CASE Sweep \/ LoseRedis \/ RescanRead \/ RescanWrite \/ Tick \/ UNCHANGED vars
  <2>1. ~LoseRedis
    BY DEF LoseRedis
  <2>2. UNCHANGED <<pc, spine, rows, marks, upset>>
    BY <1>4, <2>1 DEF Sweep, RescanRead, RescanWrite, Tick, vars, handlers, bounds
  <2> QED
    BY <1>1, <2>2
<1> QED
  BY <1>2, <1>3, <1>4 DEF Next

\* Once traffic stops and the sweeps are through, and nothing failed, the stored
\* retention is what the spine recorded, sizes and cells, every row has its bit of
\* day 0 and day 0 of a cohort is its size: with the re-scan run while nothing
\* writes the spine, whatever erasures, sweeps and re-scans came on the way.
THEOREM SettlesToSpine == Spec => [](QuietRescan => SettledMatchesSpine)
<1> DEFINE Inv == Base /\ SpineInv /\ WithinInv /\ ExactInv /\ DayZeroInv
<1>1. Init => Inv
  <2> SUFFICES ASSUME Init PROVE Inv
    OBVIOUS
  <2>1. Base /\ SpineInv /\ WithinInv
    BY InitWithin
  <2>2. /\ rows = {} /\ marks = {} /\ \A u \in Users : spine[u] = None
        /\ \A d \in Days : /\ ret[d] = None /\ stored.ret[d].size = 0
                           /\ \A c \in Days : stored.ret[d].cell[c] = 0
    BY DEF Init, NoReturns
  <2>3. \A c, d : Grown(d) = {} /\ Born(d) = {} /\ Kept(c, d) = {} /\ Seen(c, d) = {} /\ Lacking(c) = {}
    BY <2>2 DEF Grown, Born, Kept, Seen, Lacking
  <2>4. Cardinality({}) = 0
    BY FS_EmptySet
  <2>5. ExactInv
    BY <2>2, <2>3, <2>4 DEF ExactInv, Exact, Filled
  <2>6. DayZeroInv
    <3>1. BitComing
      BY <2>2 DEF BitComing
    <3>2. \A c \in Days : Cardinality(Seen(c, c)) = 0 /\ Cardinality(Lacking(c)) = 0 /\ Cardinality(Born(c)) = 0
      BY <2>3, <2>4
    <3> QED
      BY <3>1, <3>2 DEF DayZeroInv, Balanced
  <2> QED
    BY <2>1, <2>5, <2>6
<1>2. Inv /\ [Next]_vars => Inv'
  BY BaseNext, SpineNext, WithinNext, ExactNext, DayZeroNext
<1>3. Inv => (QuietRescan => SettledMatchesSpine)
  <2> SUFFICES ASSUME Inv, QuietRescan, Undisturbed
               PROVE  /\ D0Healthy
                      /\ \A d \in Days : /\ stored.ret[d].size = Cardinality(Born(d))
                                         /\ \A c \in Days : stored.ret[d].cell[c] = Cardinality(Seen(c, d))
    BY DEF SettledMatchesSpine
  <2>1. Quiet /\ dirty = {} /\ upset = {}
    BY DEF Undisturbed
  <2>2. \A d \in Days : Exact(stored.ret[d], d)
    BY <2>1 DEF ExactInv, Filled
  <2>3. (\A d \in Days : Grown(d) = Born(d)) /\ (\A c, d \in Days : Kept(c, d) = Seen(c, d))
    BY <2>1, QuietOwesNothing
  <2>4. \A d \in Days : /\ stored.ret[d].size = Cardinality(Born(d))
                        /\ \A c \in Days : stored.ret[d].cell[c] = Cardinality(Seen(c, d))
    BY <2>2, <2>3 DEF Exact
  <2>5. \A u \in Users : spine[u] # None => 0 \in spine[u].bits
    BY <2>1 DEF DayZeroInv, BitComing, Quiet
  <2>6. \A c \in Days : Cardinality(Seen(c, c)) = Cardinality(Born(c))
    <3> TAKE c \in Days
    <3>1. Lacking(c) = {}
      BY <2>5 DEF Lacking
    <3>2. Cardinality(Lacking(c)) = 0
      BY <3>1, FS_EmptySet
    <3>3. Cardinality(Seen(c, c)) + Cardinality(Lacking(c)) = Cardinality(Born(c))
      BY <2>1 DEF DayZeroInv, Balanced
    <3>4. Cardinality(Seen(c, c)) \in Nat
      BY Finite
    <3> QED
      BY <3>2, <3>3, <3>4
  <2>7. D0Healthy
    BY <2>4, <2>5, <2>6 DEF D0Healthy
  <2> QED
    BY <2>4, <2>7
<1> QED
  BY <1>1, <1>2, <1>3, PTL DEF Spec

-----------------------------------------------------------------------------
(* Sums.  What a recursion over a finite set adds up to is the size of a   *)
(* set with one element for each unit of each term.                        *)

Units(w, S) == UNION {{x} \X (1 .. w[x]) : x \in S}
SumOf(w, S) == Cardinality(Units(w, S))

LEMMA SumType ==
    ASSUME NEW S, IsFiniteSet(S), NEW w, \A x \in S : w[x] \in Nat
    PROVE  IsFiniteSet(Units(w, S)) /\ SumOf(w, S) \in Nat
<1> DEFINE Part == {{x} \X (1 .. w[x]) : x \in S}
           f == [x \in S |-> {x} \X (1 .. w[x])]
<1>1. f \in Surjection(S, Part)
  BY DEF Surjection
<1>2. IsFiniteSet(Part)
  BY <1>1, FS_Surjection
<1>3. ASSUME NEW p \in Part PROVE IsFiniteSet(p)
  <2>1. PICK x \in S : p = {x} \X (1 .. w[x])
    OBVIOUS
  <2>2. PICK n \in Nat : n = w[x]
    OBVIOUS
  <2>3. IsFiniteSet(1 .. n)
    BY FS_Interval
  <2>4. IsFiniteSet({x} \X (1 .. n))
    BY <2>3, FS_Singleton, FS_Product
  <2> QED
    BY <2>1, <2>2, <2>4
<1>4. IsFiniteSet(UNION Part)
  BY <1>2, <1>3, FS_UNION
<1> QED
  BY <1>4, FS_CardinalityType DEF Units, SumOf

LEMMA SumEmpty == \A w : SumOf(w, {}) = 0
  BY FS_EmptySet DEF Units, SumOf

LEMMA SumAdds ==
    ASSUME NEW S, IsFiniteSet(S), NEW w, NEW x, x \notin S, \A y \in S \cup {x} : w[y] \in Nat
    PROVE  SumOf(w, S \cup {x}) = SumOf(w, S) + w[x]
<1> DEFINE mine == {x} \X (1 .. w[x])
           old == Units(w, S)
<1>1. PICK n \in Nat : n = w[x]
  OBVIOUS
<1>2. IsFiniteSet({x}) /\ Cardinality({x}) = 1
  BY FS_Singleton
<1>3. IsFiniteSet(1 .. n) /\ Cardinality(1 .. n) = n
  BY FS_Interval
<1>4. IsFiniteSet(mine) /\ Cardinality(mine) = n
  <2>1. IsFiniteSet({x} \X (1 .. n)) /\ Cardinality({x} \X (1 .. n)) = 1 * n
    BY <1>2, <1>3, FS_Product, ZenonT(60)
  <2> QED
    BY <1>1, <2>1
<1>5. Units(w, S \cup {x}) = old \cup mine
  BY DEF Units
<1>6. old \cap mine = {}
  BY DEF Units
<1>7. IsFiniteSet(old) /\ Cardinality(old) \in Nat
  BY SumType DEF SumOf
<1> HIDE DEF mine, old
<1>8. Cardinality(old \cup mine) = Cardinality(old) + Cardinality(mine) - Cardinality(old \cap mine)
  BY <1>4, <1>7, FS_Union
<1>9. Cardinality(old \cap mine) = 0
  BY <1>6, FS_EmptySet
<1>10. Cardinality(old \cup mine) = Cardinality(old) + n
  BY <1>4, <1>7, <1>8, <1>9
<1> QED
  BY <1>1, <1>5, <1>10 DEF SumOf, old

\* One term grows.
LEMMA SumGrows ==
    ASSUME NEW S, IsFiniteSet(S), NEW w \in [S -> Nat], NEW x \in S, NEW n \in Nat,
           NEW v \in [S -> Nat], v[x] = w[x] + n, \A y \in S : y # x => v[y] = w[y]
    PROVE  SumOf(v, S) = SumOf(w, S) + n
<1> DEFINE rest == S \ {x}
<1>1. IsFiniteSet(rest) /\ x \notin rest /\ rest \cup {x} = S
  BY FS_Subset
<1>2. Units(v, rest) = Units(w, rest)
  BY DEF Units
<1>3. SumOf(v, rest) = SumOf(w, rest)
  BY <1>2 DEF SumOf
<1>4. /\ \A y \in rest \cup {x} : w[y] \in Nat /\ v[y] \in Nat
      /\ \A y \in rest : w[y] \in Nat
  BY <1>1
<1> HIDE DEF rest
<1>5. SumOf(w, rest \cup {x}) = SumOf(w, rest) + w[x] /\ SumOf(v, rest \cup {x}) = SumOf(v, rest) + v[x]
  BY <1>1, <1>4, SumAdds
<1>6. SumOf(w, rest) \in Nat
  BY <1>1, <1>4, SumType
<1>7. SumOf(w, S) = SumOf(w, rest) + w[x] /\ SumOf(v, S) = SumOf(w, rest) + v[x]
  BY <1>1, <1>3, <1>5
<1> QED
  BY <1>6, <1>7

\* What a recursion that chooses one element after the other comes to.
IsFold(f, w, S) ==
    /\ f[{}] = 0
    /\ \A T \in SUBSET S : T # {} =>
          LET x == CHOOSE y \in T : TRUE IN f[T] = w[x] + f[T \ {x}]

LEMMA SumRecurs ==
    ASSUME NEW S, IsFiniteSet(S), NEW w, \A x \in S : w[x] \in Nat
    PROVE  IsFold([T \in SUBSET S |-> SumOf(w, T)], w, S)
<1> DEFINE size == [T \in SUBSET S |-> SumOf(w, T)]
<1>1. size[{}] = 0
  BY SumEmpty
<1>2. ASSUME NEW T \in SUBSET S, T # {}, NEW x, x = CHOOSE y \in T : TRUE
      PROVE  size[T] = w[x] + size[T \ {x}]
  <2>1. x \in T
    BY <1>2
  <2>2. IsFiniteSet(T \ {x}) /\ (T \ {x}) \cup {x} = T /\ x \notin T \ {x}
    BY <2>1, FS_Subset
  <2>3. \A y \in (T \ {x}) \cup {x} : w[y] \in Nat
    BY <2>1
  <2> DEFINE rest == T \ {x}
  <2>4. SumOf(w, rest \cup {x}) = SumOf(w, rest) + w[x]
    <3> HIDE DEF rest
    <3>1. IsFiniteSet(rest) /\ x \notin rest /\ \A y \in rest \cup {x} : w[y] \in Nat
      BY <2>2, <2>3 DEF rest
    <3> QED
      BY <3>1, SumAdds
  <2>5. SumOf(w, rest) \in Nat /\ w[x] \in Nat
    BY <2>1, <2>2, <2>3, SumType
  <2>6. size[T] = SumOf(w, rest \cup {x}) /\ size[T \ {x}] = SumOf(w, rest)
    BY <2>2
  <2> HIDE DEF rest, size
  <2> QED
    BY <2>4, <2>5, <2>6
<1> HIDE DEF size
<1>3. IsFold(size, w, S)
  BY <1>1, <1>2 DEF IsFold
<1> QED
  BY <1>3 DEF size

LEMMA FoldIsSum ==
    ASSUME NEW S, IsFiniteSet(S), NEW w, \A x \in S : w[x] \in Nat, NEW f, IsFold(f, w, S)
    PROVE  f[S] = SumOf(w, S)
<1> DEFINE size == [T \in SUBSET S |-> SumOf(w, T)]
           Bad == {T \in SUBSET S : f[T] # size[T]}
<1>1. IsFold(size, w, S)
  BY SumRecurs
<1>2. ASSUME Bad # {} PROVE FALSE
  <2>1. Bad \subseteq FiniteSubsetsOf(S)
    BY FS_Subset DEF FiniteSubsetsOf
  <2>2. PICK T \in Bad : \A U \in Bad : <<U, T>> \notin StrictSubsetOrdering(S)
    <3> HIDE DEF Bad
    <3> QED
      BY <1>2, <2>1, WFMin, FS_StrictSubsetOrderingWellFounded, Zenon
  <2>3. T # {}
    BY <1>1 DEF IsFold
  <2>4. PICK x : x = CHOOSE y \in T : TRUE
    OBVIOUS
  <2>5. x \in T
    BY <2>3, <2>4
  <2>6. <<T \ {x}, T>> \in StrictSubsetOrdering(S)
    BY <2>5 DEF StrictSubsetOrdering
  <2>7. f[T \ {x}] = size[T \ {x}]
    BY <2>2, <2>6
  <2> HIDE DEF size
  <2>8. f[T] = w[x] + f[T \ {x}] /\ size[T] = w[x] + size[T \ {x}]
    BY <1>1, <2>3, <2>4 DEF IsFold
  <2> QED
    BY <2>2, <2>7, <2>8
<1> QED
  BY <1>2

-----------------------------------------------------------------------------
(* Sessions and their days *)

\* What of a session is folded, and what it has added to its days by now.
Started(s) == pc[s] = "done" \/ (pc[s] = "fold" /\ "start" \notin todo[s])
Ended(s) == EndsOf(s) # {} /\ (pc[s] = "done" \/ (pc[s] = "fold" /\ "end" \notin todo[s]))
EndOf(s) == LogicalDay(IntervalOf(s).end)

If(b, n) == IF b THEN n ELSE 0
Share(s) ==
    [count |-> If(Started(s), 1),
     touching |-> If(Started(s), 1) + If(Ended(s), 1),
     dur |-> If(Started(s), DurOnDay(IntervalOf(s), StartOf(s)))
             + If(Ended(s), DurOnDay(IntervalOf(s), EndOf(s)))]

\* What counts of a day: its bucket or, where there is none, the durable row.
Told(d) == Filled(sess[d], stored.sess[d])

Balance(field) ==
    SumOf([d \in Days |-> Told(d)[field]], Days) = SumOf([s \in Sessions |-> Share(s)[field]], Sessions)

Below(a, b) == a.count <= b.count /\ a.touching <= b.touching /\ a.dur <= b.dur

\* A durable row is behind its bucket, and at it when the bucket is not dirty;
\* and the days hold what the sessions have added, no more and no less.
AddInv ==
    upset = {} =>
        /\ \A d \in Days : sess[d] # None =>
              /\ Below(stored.sess[d], sess[d])
              /\ <<"sess", d>> \notin dirty => stored.sess[d] = sess[d]
        /\ Balance("count") /\ Balance("touching") /\ Balance("dur")

LEMMA DaysFinite == IsFiniteSet(Days)
<1> DEFINE f == [s \in Sessions |-> StartOf(s)]
           g == [s \in Sessions |-> EndsOf(s)]
           Starts == {StartOf(s) : s \in Sessions}
           Ends == {EndsOf(s) : s \in Sessions}
<1>1. f \in Surjection(Sessions, Starts) /\ g \in Surjection(Sessions, Ends)
  BY DEF Surjection
<1>2. IsFiniteSet(Starts) /\ IsFiniteSet(Ends)
  BY <1>1, SpineAssumption, FS_Surjection
<1>3. ASSUME NEW E \in Ends PROVE IsFiniteSet(E)
  <2>1. PICK s \in Sessions : E = EndsOf(s)
    OBVIOUS
  <2>2. E \subseteq {EndOf(s)}
    BY <2>1 DEF EndsOf, EndDays, EndOf
  <2>3. IsFiniteSet({EndOf(s)})
    BY FS_Singleton
  <2> QED
    BY <2>2, <2>3, FS_Subset
<1>4. IsFiniteSet(UNION Ends)
  BY <1>2, <1>3, FS_UNION
<1>5. Days = Starts \cup UNION Ends
  BY DEF Days
<1> HIDE DEF Starts, Ends
<1> QED
  BY <1>2, <1>4, <1>5, FS_Union

LEMMA ShareType ==
    ASSUME NEW s \in Sessions
    PROVE  /\ Share(s) \in TimeCell
           /\ EndsOf(s) \subseteq {EndOf(s)}
           /\ DurOnDay(IntervalOf(s), StartOf(s)) \in Nat /\ DurOnDay(IntervalOf(s), EndOf(s)) \in Nat
<1>1. IntervalOf(s) \in [start : Int, end : Int] /\ StartOf(s) \in Int
  BY DaysType
<1>2. EndOf(s) \in Int
  BY <1>1, DayHolds DEF EndOf
<1>3. DurOnDay(IntervalOf(s), StartOf(s)) \in Nat /\ DurOnDay(IntervalOf(s), EndOf(s)) \in Nat
  BY <1>1, <1>2, DurationType
<1>4. EndsOf(s) \subseteq {EndOf(s)}
  BY DEF EndsOf, EndDays, EndOf
<1> QED
  BY <1>3, <1>4 DEF Share, If, TimeCell

LEMMA ToldType == ASSUME TypeOK, NEW d \in Days PROVE Told(d) \in TimeCell
  BY DEF TypeOK, Told, Filled

\* A step that adds to one day what it adds to one session.
LEMMA BalanceKept ==
    ASSUME TypeOK, TypeOK', NEW field \in {"count", "touching", "dur"},
           NEW e \in Days, NEW s \in Sessions, NEW n \in Nat, Balance(field),
           Told(e)'[field] = Told(e)[field] + n,
           \A d \in Days : d # e => Told(d)' = Told(d),
           Share(s)'[field] = Share(s)[field] + n,
           \A r \in Sessions : r # s => Share(r)' = Share(r)
    PROVE  Balance(field)'
<1> DEFINE days == [d \in Days |-> Told(d)[field]]
           later == [d \in Days |-> Told(d)'[field]]
           parts == [r \in Sessions |-> Share(r)[field]]
           grown == [r \in Sessions |-> Share(r)'[field]]
<1>1. \A c \in TimeCell : c[field] \in Nat
  BY DEF TimeCell
<1>2. \A d \in Days : Told(d) \in TimeCell /\ Told(d)' \in TimeCell
  <2> TAKE d \in Days
  <2>1. Told(d) \in TimeCell
    BY ToldType
  <2>2. Told(d)' \in TimeCell
    BY DEF TypeOK, Told, Filled
  <2> QED
    BY <2>1, <2>2
<1>3. \A r \in Sessions : Share(r) \in TimeCell /\ Share(r)' \in TimeCell
  <2> TAKE r \in Sessions
  <2>1. Share(r) \in TimeCell
    BY ShareType
  <2>2. DurOnDay(IntervalOf(r), StartOf(r)) \in Nat /\ DurOnDay(IntervalOf(r), EndOf(r)) \in Nat
    BY ShareType
  <2>3. Share(r)' \in TimeCell
    BY <2>2 DEF Share, If, TimeCell
  <2> QED
    BY <2>1, <2>3
<1>4. /\ days \in [Days -> Nat] /\ later \in [Days -> Nat]
      /\ later[e] = days[e] + n /\ \A d \in Days : d # e => later[d] = days[d]
  BY <1>1, <1>2
<1>5. /\ parts \in [Sessions -> Nat] /\ grown \in [Sessions -> Nat]
      /\ grown[s] = parts[s] + n /\ \A r \in Sessions : r # s => grown[r] = parts[r]
  BY <1>1, <1>3
<1>6. SumOf(days, Days) = SumOf(parts, Sessions)
  BY DEF Balance
<1> HIDE DEF days, later, parts, grown
<1>7. SumOf(later, Days) = SumOf(days, Days) + n
  BY <1>4, DaysFinite, SumGrows
<1>8. SumOf(grown, Sessions) = SumOf(parts, Sessions) + n
  <2>1. IsFiniteSet(Sessions)
    BY SpineAssumption
  <2> QED
    BY <1>5, <2>1, SumGrows
<1>9. SumOf(later, Days) = SumOf(grown, Sessions)
  BY <1>6, <1>7, <1>8
<1> QED
  BY <1>9 DEF Balance, later, grown

\* What a fold on a day does to the day.
LEMMA AddTimeDoes ==
    ASSUME TypeOK, NEW d \in Days, NEW counts \in Nat, NEW dur \in Nat,
           AddTime(d, counts, dur), UNCHANGED stored
    PROVE  /\ Told(d)'.count = Told(d).count + counts /\ Told(d)'.touching = Told(d).touching + 1
           /\ Told(d)'.dur = Told(d).dur + dur
           /\ Below(Told(d), sess'[d]) /\ sess'[d] # None
           /\ \A e \in Days : e # d => Told(e)' = Told(e) /\ sess'[e] = sess[e]
           /\ dirty' = dirty \cup {<<"sess", d>>}
<1> DEFINE new == [count |-> Told(d).count + counts, touching |-> Told(d).touching + 1,
                   dur |-> Told(d).dur + dur]
<1>1. Told(d) \in TimeCell
  BY ToldType
<1>2. new \in TimeCell /\ Below(Told(d), new)
  BY <1>1 DEF TimeCell, Below
<1>3. new # None
  BY <1>2, NoneAssumption
<1>4. sess' = [sess EXCEPT ![d] = new] /\ dirty' = dirty \cup {<<"sess", d>>}
  BY DEF AddTime, Told
<1>5. sess \in [Days -> TimeCell \cup {None}]
  BY DEF TypeOK
<1>6. new.count = Told(d).count + counts /\ new.touching = Told(d).touching + 1 /\ new.dur = Told(d).dur + dur
  OBVIOUS
<1> HIDE DEF new
<1>7. sess'[d] = new /\ \A e \in Days : e # d => sess'[e] = sess[e]
  BY <1>4, <1>5
<1>8. Told(d)' = new
  BY <1>3, <1>7 DEF Told, Filled
<1>9. \A e \in Days : e # d => Told(e)' = Told(e)
  BY <1>7 DEF Told, Filled
<1> QED
  BY <1>2, <1>3, <1>4, <1>6, <1>7, <1>8, <1>9

\* What of a session is folded after a step of its hook.
LEMMA FoldShares ==
    ASSUME Base, NEW s \in Sessions, NEW step, FoldStep(s, step)
    PROVE  /\ step = "start" => ~Started(s) /\ Started(s)' /\ (Ended(s)' <=> Ended(s))
           /\ step = "end" => /\ EndsOf(s) # {} => ~Ended(s) /\ Ended(s)'
                              /\ Started(s)' <=> Started(s)
           /\ step \notin {"start", "end"} => (Started(s)' <=> Started(s)) /\ (Ended(s)' <=> Ended(s))
<1>1. pc \in [Sessions -> Steps] /\ todo \in [Sessions -> SUBSET DOMAIN Rank]
  BY DEF Base, TypeOK, Steps
<1>2. pc[s] = "fold" /\ step \in todo[s] /\ todo'[s] = todo[s] \ {step}
  BY <1>1, FoldDoes
<1>3. pc'[s] = "fold" \/ (pc'[s] = "done" /\ todo[s] = {step})
  BY <1>1, <1>2, FoldDoes
<1> QED
  BY <1>2, <1>3 DEF Started, Ended

\* Before its hook a session has added nothing to a day, and once the hook has
\* its plan, still nothing.
LEMMA EarlyShares ==
    ASSUME Base, NEW s \in Sessions, Receive(s) \/ Seed(s) \/ Reread(s) \/ SetBit(s)
    PROVE  /\ ~Started(s) /\ ~Ended(s) /\ ~Started(s)' /\ ~Ended(s)' /\ Share(s)' = Share(s)
           /\ UNCHANGED <<sess, stored, dirty>>
<1>1. pc \in [Sessions -> Steps] /\ todo \in [Sessions -> SUBSET DOMAIN Rank]
  BY DEF Base, TypeOK, Steps
<1>2. pc[s] \in {"queued", "seed", "reread", "bit"}
  BY DEF Receive, Seed, Reread, SetBit
<1>3. ASSUME NEW found, Fold(s, found) PROVE ~Started(s)' /\ ~Ended(s)'
  <2>1. pc'[s] = "fold" /\ todo'[s] = Plan(s, found)
    BY <1>1, <1>3 DEF Fold
  <2>2. "start" \in Plan(s, found) /\ (EndsOf(s) # {} => "end" \in Plan(s, found))
    BY DEF Plan
  <2> QED
    BY <2>1, <2>2 DEF Started, Ended
<1>4. ASSUME NEW p \in {"late", "seed", "reread", "bit", "failed"}, pc' = [pc EXCEPT ![s] = p]
      PROVE  ~Started(s)' /\ ~Ended(s)'
  BY <1>1, <1>4 DEF Started, Ended
<1>5. ASSUME NEW created, NEW first, Place(s, created, first) PROVE ~Started(s)' /\ ~Ended(s)'
  BY <1>3, <1>4, <1>5 DEF Place
<1>6. ~Started(s)' /\ ~Ended(s)'
  <2>1. CASE Receive(s)
    BY <1>3, <1>4, <2>1 DEF Receive
  <2>2. CASE Seed(s)
    BY <1>4, <1>5, <2>2 DEF Seed
  <2>3. CASE Reread(s)
    BY <1>4, <1>5, <2>3 DEF Reread
  <2>4. CASE SetBit(s)
    BY <1>3, <2>4 DEF SetBit
  <2> QED
    BY <2>1, <2>2, <2>3, <2>4
<1>7. ~Started(s) /\ ~Ended(s)
  BY <1>2 DEF Started, Ended
<1>8. UNCHANGED <<sess, stored, dirty>>
  BY DEF Receive, Seed, Reread, SetBit, buckets
<1> QED
  BY <1>6, <1>7, <1>8 DEF Share, If

LEMMA SharesFrame ==
    ASSUME Base, NEW s \in Sessions, Handle(s)
    PROVE  \A r \in Sessions : r # s => Share(r)' = Share(r)
<1>1. \A r \in Sessions : r # s => pc'[r] = pc[r] /\ todo'[r] = todo[r]
  BY HandleFrame
<1> QED
  BY <1>1 DEF Share, Started, Ended, If

\* A fold of the session on one of its days.
LEMMA AddFold ==
    ASSUME Base, Base', AddInv, upset = {}, NEW s \in Sessions, Handle(s), UNCHANGED stored,
           NEW d \in Days, NEW counts \in Nat, NEW dur \in Nat, AddTime(d, counts, dur),
           Share(s)'.count = Share(s).count + counts, Share(s)'.touching = Share(s).touching + 1,
           Share(s)'.dur = Share(s).dur + dur
    PROVE  AddInv'
<1>1. TypeOK /\ TypeOK'
  BY DEF Base
<1>2. /\ Told(d)'.count = Told(d).count + counts /\ Told(d)'.touching = Told(d).touching + 1
      /\ Told(d)'.dur = Told(d).dur + dur
      /\ Below(Told(d), sess'[d])
      /\ \A e \in Days : e # d => Told(e)' = Told(e) /\ sess'[e] = sess[e]
      /\ dirty' = dirty \cup {<<"sess", d>>}
  BY <1>1, AddTimeDoes
<1>3. \A r \in Sessions : r # s => Share(r)' = Share(r)
  BY SharesFrame
<1>4. Balance("count")'
  BY <1>1, <1>2, <1>3, BalanceKept DEF AddInv
<1>5. Balance("touching")'
  BY <1>1, <1>2, <1>3, BalanceKept DEF AddInv
<1>6. Balance("dur")'
  BY <1>1, <1>2, <1>3, BalanceKept DEF AddInv
<1>7. ASSUME NEW e \in Days, sess'[e] # None
      PROVE  Below(stored.sess[e], sess'[e]) /\ (<<"sess", e>> \notin dirty' => stored.sess[e] = sess'[e])
  <2>1. CASE e = d
    <3>1. Below(stored.sess[d], Told(d))
      <4>1. stored.sess[d] \in TimeCell
        BY <1>1 DEF TypeOK
      <4>2. Below(stored.sess[d], stored.sess[d])
        BY <4>1 DEF Below, TimeCell
      <4> QED
        BY <4>2 DEF AddInv, Told, Filled
    <3>2. /\ stored.sess[d] \in TimeCell /\ Told(d) \in TimeCell /\ sess'[d] \in TimeCell
      BY <1>1, <1>7, <2>1, ToldType DEF TypeOK
    <3>3. Below(stored.sess[d], sess'[d])
      BY <1>2, <3>1, <3>2 DEF Below, TimeCell
    <3> QED
      BY <1>2, <2>1, <3>3
  <2>2. CASE e # d
    BY <1>2, <1>7, <2>2 DEF AddInv
  <2> QED
    BY <2>1, <2>2
<1> QED
  BY <1>4, <1>5, <1>6, <1>7 DEF AddInv

\* A step that adds nothing.
LEMMA AddQuiet ==
    ASSUME TypeOK, AddInv, upset' = {} => upset = {}, UNCHANGED sess, stored'.sess = stored.sess,
           \A d \in Days : <<"sess", d>> \in dirty' <=> <<"sess", d>> \in dirty,
           \A s \in Sessions : Share(s)' = Share(s)
    PROVE  AddInv'
<1> SUFFICES ASSUME upset' = {}, upset = {} PROVE AddInv'
  BY DEF AddInv
<1>1. \A d \in Days : Told(d)' = Told(d)
  BY DEF Told, Filled
<1>2. ASSUME NEW field PROVE Balance(field)' <=> Balance(field)
  <2>1. [d \in Days |-> Told(d)'[field]] = [d \in Days |-> Told(d)[field]]
    BY <1>1
  <2>2. [s \in Sessions |-> Share(s)'[field]] = [s \in Sessions |-> Share(s)[field]]
    OBVIOUS
  <2> QED
    BY <2>1, <2>2 DEF Balance
<1>3. Balance("count")' /\ Balance("touching")' /\ Balance("dur")'
  BY <1>2 DEF AddInv
<1> QED
  BY <1>3 DEF AddInv

LEMMA AddHandle ==
    ASSUME Base, Base', AddInv, NEW s \in Sessions, Handle(s)
    PROVE  AddInv'
<1> SUFFICES ASSUME upset' = {} PROVE AddInv'
  BY DEF AddInv
<1>0. upset = {} /\ ~Fail(s) /\ UNCHANGED stored
  BY HandleFrame
<1>1. TypeOK /\ \A r \in Sessions : r # s => Share(r)' = Share(r)
  BY SharesFrame DEF Base
<1>2. /\ StartOf(s) \in Days /\ EndsOf(s) \subseteq Days /\ EndsOf(s) \subseteq {EndOf(s)}
      /\ DurOnDay(IntervalOf(s), StartOf(s)) \in Nat /\ DurOnDay(IntervalOf(s), EndOf(s)) \in Nat
      /\ Share(s) \in TimeCell
  BY DaysType, ShareType
<1>3. CASE Receive(s) \/ Seed(s) \/ Reread(s) \/ SetBit(s)
  <2>1. Share(s)' = Share(s) /\ UNCHANGED <<sess, stored, dirty>>
    BY <1>3, EarlyShares
  <2> QED
    BY <1>0, <1>1, <2>1, AddQuiet
<1>4. CASE FoldStart(s)
  <2>1. FoldStep(s, "start") /\ AddTime(StartOf(s), 1, DurOnDay(IntervalOf(s), StartOf(s)))
    BY <1>4 DEF FoldStart
  <2>2. ~Started(s) /\ Started(s)' /\ (Ended(s)' <=> Ended(s))
    BY <2>1, FoldShares
  <2>3. /\ Share(s)'.count = Share(s).count + 1 /\ Share(s)'.touching = Share(s).touching + 1
        /\ Share(s)'.dur = Share(s).dur + DurOnDay(IntervalOf(s), StartOf(s))
    BY <1>2, <2>2 DEF Share, If
  <2> QED
    BY <1>0, <1>2, <2>1, <2>3, AddFold
<1>5. CASE FoldEnd(s)
  <2>1. PICK d \in EndsOf(s) : AddTime(d, 0, DurOnDay(IntervalOf(s), d))
    BY <1>5 DEF FoldEnd
  <2>2. d = EndOf(s) /\ d \in Days /\ EndsOf(s) # {} /\ FoldStep(s, "end")
    BY <1>2, <1>5 DEF FoldEnd
  <2>3. ~Ended(s) /\ Ended(s)' /\ (Started(s)' <=> Started(s))
    BY <2>2, FoldShares
  <2>4. /\ Share(s)'.count = Share(s).count + 0 /\ Share(s)'.touching = Share(s).touching + 1
        /\ Share(s)'.dur = Share(s).dur + DurOnDay(IntervalOf(s), EndOf(s))
    BY <1>2, <2>3 DEF Share, If
  <2> QED
    BY <1>0, <1>2, <2>1, <2>2, <2>4, AddFold
<1>6. CASE FoldActive(s) \/ FoldNewUser(s) \/ FoldReturn(s)
  <2>1. PICK step : FoldStep(s, step) /\ step \notin {"start", "end"}
    BY <1>6 DEF FoldActive, FoldNewUser, FoldReturn
  <2>2. Share(s)' = Share(s)
    BY <2>1, FoldShares DEF Share, If
  <2>3. UNCHANGED sess /\ \E d : \E b \in {"act", "ret"} : dirty' = dirty \cup {<<b, d>>}
    BY <1>6 DEF FoldActive, FoldNewUser, FoldReturn
  <2>4. \A d \in Days : <<"sess", d>> \in dirty' <=> <<"sess", d>> \in dirty
    BY <2>3
  <2> QED
    BY <1>0, <1>1, <2>2, <2>3, <2>4, AddQuiet
<1> QED
  BY <1>0, <1>3, <1>4, <1>5, <1>6 DEF Handle

\* A sweep takes a durable row to its bucket: it is behind it in nothing.
LEMMA MergeBelow ==
    ASSUME NEW a \in TimeCell, NEW b \in TimeCell, Below(a, b)
    PROVE  MergeTime(a, b) = b
<1>1. Larger(a.count, b.count) = b.count /\ Larger(a.touching, b.touching) = b.touching
      /\ Larger(a.dur, b.dur) = b.dur
  BY DEF Below, TimeCell, Larger
<1>2. MergeTime(a, b) = [count |-> b.count, touching |-> b.touching, dur |-> b.dur]
  BY <1>1 DEF MergeTime, NoTime
<1> QED
  BY <1>2 DEF TimeCell

LEMMA SweptTimes ==
    ASSUME TypeOK, Sweep, AddInv, upset = {}, NEW d \in Days
    PROVE  /\ sess[d] # None => stored'.sess[d] = sess[d]
           /\ sess[d] = None => stored'.sess[d] = stored.sess[d]
<1>1. stored'.sess[d] = IF <<"sess", d>> \in dirty /\ sess[d] # None
                        THEN MergeTime(stored.sess[d], sess[d]) ELSE stored.sess[d]
  BY DEF Sweep, Merged
<1>2. CASE sess[d] # None
  <2>1. sess[d] \in TimeCell /\ stored.sess[d] \in TimeCell
    BY <1>2 DEF TypeOK
  <2>2. MergeTime(stored.sess[d], sess[d]) = sess[d]
    BY <1>2, <2>1, MergeBelow DEF AddInv
  <2> QED
    BY <1>1, <1>2, <2>2 DEF AddInv
<1> QED
  BY <1>1, <1>2

LEMMA AddNext == Base /\ AddInv /\ [Next]_vars => AddInv'
<1> SUFFICES ASSUME Base, AddInv, [Next]_vars PROVE AddInv'
  OBVIOUS
<1>0. Base' /\ TypeOK /\ TypeOK'
  BY BaseNext DEF Base
<1>1. CASE \E s \in Sessions : Handle(s)
  BY <1>0, <1>1, AddHandle
<1>2. CASE \E u \in Users : Erase(u)
  <2>1. UNCHANGED <<pc, todo, dirty>> /\ (upset' = {} => upset = {})
    BY <1>0, <1>2, EraseDoes
  <2>2. UNCHANGED sess /\ stored'.sess = stored.sess
    BY <1>0, <1>2 DEF Erase, EnumerateSpine, EnumerateFrom, EnumerateActive, Purge, CloseEntry,
                      EraseFails, buckets, TypeOK
  <2>3. \A s \in Sessions : Share(s)' = Share(s)
    BY <2>1 DEF Share, Started, Ended, If
  <2> QED
    BY <1>0, <2>1, <2>2, <2>3, AddQuiet
<1>3. CASE Sweep
  <2> SUFFICES ASSUME upset = {} PROVE AddInv'
    BY <1>3 DEF AddInv, Sweep, bounds
  <2>1. UNCHANGED <<pc, todo, sess>>
    BY <1>3 DEF Sweep, handlers
  <2>2. \A s \in Sessions : Share(s)' = Share(s)
    BY <2>1 DEF Share, Started, Ended, If
  <2>3. \A d \in Days : /\ sess[d] # None => stored'.sess[d] = sess[d]
                        /\ sess[d] = None => stored'.sess[d] = stored.sess[d]
    BY <1>0, <1>3, SweptTimes
  <2>4. \A d \in Days : Told(d)' = Told(d)
    BY <2>1, <2>3 DEF Told, Filled
  <2>5. ASSUME NEW field PROVE Balance(field)' <=> Balance(field)
    <3>1. [d \in Days |-> Told(d)'[field]] = [d \in Days |-> Told(d)[field]]
      BY <2>4
    <3>2. [s \in Sessions |-> Share(s)'[field]] = [s \in Sessions |-> Share(s)[field]]
      BY <2>2
    <3> QED
      BY <3>1, <3>2 DEF Balance
  <2>6. Balance("count")' /\ Balance("touching")' /\ Balance("dur")'
    BY <2>5 DEF AddInv
  <2>7. ASSUME NEW d \in Days, sess'[d] # None
        PROVE  Below(stored'.sess[d], sess'[d]) /\ stored'.sess[d] = sess'[d]
    <3>1. sess[d] \in TimeCell
      BY <1>0, <2>1, <2>7 DEF TypeOK
    <3>2. Below(sess[d], sess[d])
      BY <3>1 DEF Below, TimeCell
    <3> QED
      BY <2>1, <2>3, <2>7, <3>2
  <2> QED
    BY <2>6, <2>7 DEF AddInv
<1>4. CASE LoseRedis
  <2>1. upset' # {}
    BY <1>4 DEF LoseRedis
  <2> QED
    BY <2>1 DEF AddInv
<1>5. CASE RescanRead \/ RescanWrite \/ Tick \/ UNCHANGED vars
  <2>1. UNCHANGED <<pc, todo, sess, dirty, upset>>
    BY <1>5 DEF RescanRead, RescanWrite, Tick, vars, handlers, buckets, bounds
  <2>2. stored'.sess = stored.sess
    BY <1>0, <1>5 DEF RescanRead, RescanWrite, Tick, vars, TypeOK
  <2>3. \A s \in Sessions : Share(s)' = Share(s)
    BY <2>1 DEF Share, Started, Ended, If
  <2> QED
    BY <1>0, <2>1, <2>2, <2>3, AddQuiet
<1> QED
  BY <1>1, <1>2, <1>3, <1>4, <1>5 DEF Next

\* At the outset nothing is told of any day.
LEMMA SumZero ==
    ASSUME NEW S, NEW w, \A x \in S : w[x] = 0
    PROVE  SumOf(w, S) = 0
<1>1. Units(w, S) = {}
  BY DEF Units
<1> QED
  BY <1>1, FS_EmptySet DEF SumOf

LEMMA AddInit == Init => AddInv
<1> SUFFICES ASSUME Init PROVE AddInv
  OBVIOUS
<1>1. \A d \in Days : Told(d) = NoTime /\ sess[d] = None
  BY DEF Init, Told, Filled
<1>2. \A s \in Sessions : ~Started(s) /\ ~Ended(s)
  BY DEF Init, Started, Ended
<1>3. \A s \in Sessions : Share(s) = NoTime
  BY <1>2 DEF Share, If, NoTime
<1>4. ASSUME NEW field \in {"count", "touching", "dur"} PROVE Balance(field)
  <2>1. NoTime[field] = 0
    BY DEF NoTime
  <2>2. \A d \in Days : [e \in Days |-> Told(e)[field]][d] = 0
    BY <1>1, <2>1
  <2>3. \A s \in Sessions : [r \in Sessions |-> Share(r)[field]][s] = 0
    BY <1>3, <2>1
  <2> QED
    BY <2>2, <2>3, SumZero DEF Balance
<1> QED
  BY <1>1, <1>4 DEF AddInv


\* The recursion, with the term of the element chosen of each subset.
RecFold(f, v, S) ==
    f = [T \in SUBSET S |-> IF T = {} THEN 0 ELSE v[T] + f[T \ {CHOOSE x \in T : TRUE}]]

LEMMA RecIsSum ==
    ASSUME NEW S, IsFiniteSet(S), NEW w, \A x \in S : w[x] \in Nat,
           NEW v, \A T \in SUBSET S : T # {} => v[T] = w[CHOOSE x \in T : TRUE]
    PROVE  /\ \E f : RecFold(f, v, S)
           /\ \A f : RecFold(f, v, S) => f[S] = SumOf(w, S)
<1> DEFINE size == [T \in SUBSET S |-> SumOf(w, T)]
<1>1. DOMAIN size = SUBSET S /\ size = [T \in SUBSET S |-> size[T]]
  OBVIOUS
<1>2. IsFold(size, w, S)
  BY SumRecurs
<1> HIDE DEF size
<1>3. \A T \in SUBSET S : size[T] = IF T = {} THEN 0 ELSE v[T] + size[T \ {CHOOSE x \in T : TRUE}]
  BY <1>2 DEF IsFold
<1>4. RecFold(size, v, S)
  BY <1>1, <1>3 DEF RecFold
<1>5. ASSUME NEW f, RecFold(f, v, S) PROVE f[S] = SumOf(w, S)
  <2>1. f[{}] = 0
    BY <1>5 DEF RecFold
  <2>2. \A T \in SUBSET S : T # {} => f[T] = v[T] + f[T \ {CHOOSE x \in T : TRUE}]
    BY <1>5 DEF RecFold
  <2>3. \A T \in SUBSET S : T # {} =>
           f[T] = w[CHOOSE x \in T : TRUE] + f[T \ {CHOOSE x \in T : TRUE}]
    BY <2>2
  <2>4. IsFold(f, w, S)
    BY <2>1, <2>3, Zenon DEF IsFold
  <2> QED
    BY <2>4, FoldIsSum
<1> QED
  BY <1>4, <1>5

\* The two recursions of the report, and the sums they come to.
DaysFold(f, field) ==
    f = [T \in SUBSET Days |->
           IF T = {} THEN 0
           ELSE stored.sess[CHOOSE d \in T : TRUE][field] + f[T \ {CHOOSE d \in T : TRUE}]]

\* What the folds of a session make of it: all but the whole days between.
Length(s) == IntervalOf(s).end - IntervalOf(s).start - Between(s) * Day
LengthFold(f, S) ==
    f = [T \in SUBSET S |->
           IF T = {} THEN 0 ELSE Length(CHOOSE s \in T : TRUE) + f[T \ {CHOOSE s \in T : TRUE}]]

LEMMA TotalIsFold ==
    ASSUME NEW field, \E f : DaysFold(f, field)
    PROVE  \E f : DaysFold(f, field) /\ Total(field) = f[Days]
<1>1. \E f : Total(field) = f[Days] /\ f = CHOOSE g : DaysFold(g, field)
  BY DEF Total, MapThenSumSet, MapThenFoldSet, DaysFold
<1> QED
  BY <1>1

LEMMA LengthsAreFold ==
    ASSUME NEW S, \E f : LengthFold(f, S)
    PROVE  \E f : /\ LengthFold(f, S)
                  /\ MapThenSumSet(LAMBDA s : IntervalOf(s).end - IntervalOf(s).start - Between(s) * Day, S) = f[S]
<1>1. \E f : /\ MapThenSumSet(LAMBDA s : IntervalOf(s).end - IntervalOf(s).start - Between(s) * Day, S) = f[S]
             /\ f = CHOOSE g : LengthFold(g, S)
  BY DEF MapThenSumSet, MapThenFoldSet, LengthFold, Length
<1> QED
  BY <1>1

LEMMA TotalIsSum ==
    ASSUME TypeOK, NEW field \in {"count", "touching", "dur"}
    PROVE  Total(field) = SumOf([d \in Days |-> stored.sess[d][field]], Days)
<1> DEFINE w == [d \in Days |-> stored.sess[d][field]]
           v == [T \in SUBSET Days |-> stored.sess[CHOOSE d \in T : TRUE][field]]
<1>1. \A d \in Days : w[d] = stored.sess[d][field] /\ w[d] \in Nat
  BY DEF TypeOK, TimeCell
<1>2. \A T \in SUBSET Days : T # {} => v[T] = w[CHOOSE d \in T : TRUE]
  OBVIOUS
<1>3. \A f : DaysFold(f, field) <=> RecFold(f, v, Days)
  BY DEF DaysFold, RecFold
<1> HIDE DEF w, v
<1>4. (\E f : RecFold(f, v, Days)) /\ \A f : RecFold(f, v, Days) => f[Days] = SumOf(w, Days)
  BY <1>1, <1>2, DaysFinite, RecIsSum
<1>5. PICK f : DaysFold(f, field) /\ Total(field) = f[Days]
  BY <1>3, <1>4, TotalIsFold
<1> QED
  BY <1>3, <1>4, <1>5 DEF w

LEMMA LengthsAreSum ==
    ASSUME NEW S, IsFiniteSet(S), NEW w, \A s \in S : w[s] = Length(s) /\ w[s] \in Nat
    PROVE  MapThenSumSet(LAMBDA s : IntervalOf(s).end - IntervalOf(s).start - Between(s) * Day, S) = SumOf(w, S)
<1> DEFINE v == [T \in SUBSET S |-> Length(CHOOSE s \in T : TRUE)]
<1>1. \A T \in SUBSET S : T # {} => v[T] = w[CHOOSE s \in T : TRUE]
  OBVIOUS
<1>2. \A f : LengthFold(f, S) <=> RecFold(f, v, S)
  BY DEF LengthFold, RecFold
<1> HIDE DEF v
<1>3. (\E f : RecFold(f, v, S)) /\ \A f : RecFold(f, v, S) => f[S] = SumOf(w, S)
  BY <1>1, RecIsSum
<1>4. PICK f : /\ LengthFold(f, S)
               /\ MapThenSumSet(LAMBDA s : IntervalOf(s).end - IntervalOf(s).start - Between(s) * Day, S) = f[S]
  BY <1>2, <1>3, LengthsAreFold
<1> QED
  BY <1>2, <1>3, <1>4

\* No session ends before it starts.
LEMMA Runs ==
    ASSUME NEW s \in Sessions
    PROVE  IntervalOf(s).start <= IntervalOf(s).end
<1>1. /\ IntervalOf(s) \in [start : Int, end : Int]
      /\ IntervalOf(s).start = Corrected(Message[s]).start
      /\ IntervalOf(s).end = Corrected(Message[s]).start + TrustedDuration(Message[s])
  BY DaysType DEF IntervalOf, Trusted
<1>2. PICK b \in Int, e \in Int : b = IntervalOf(s).start /\ e = IntervalOf(s).end
  BY <1>1
<1>3. PICK n : n = Smaller(Larger(0, Corrected(Message[s]).end - Corrected(Message[s]).start), Cap)
  OBVIOUS
<1>4. TrustedDuration(Message[s]) = Larger(n, Least)
  BY <1>3 DEF TrustedDuration
<1>5. n \in Int
  <2>1. PICK m \in Messages : m = Message[s]
    BY SpineAssumption DEF Messages
  <2>2. Shift(m) \in Int
    BY <2>1, TimeAssumption DEF Shift, Messages
  <2>3. Corrected(m).end \in Int
    BY <2>1, <2>2 DEF Corrected, Messages
  <2>4. Corrected(m).start \in Int
    BY <1>1, <1>2, <2>1
  <2> QED
    BY <1>3, <2>1, <2>3, <2>4, TimeAssumption DEF Larger, Smaller
<1>6. Larger(n, Least) >= 0 /\ Larger(n, Least) \in Int
  BY <1>5, TimeAssumption DEF Larger
<1> QED
  BY <1>1, <1>2, <1>4, <1>6

\* In days a probe lands in, a session is split without loss but for the days
\* between.
LEMMA SplitsEven ==
    ASSUME NEW s \in Sessions, 2 * Offset + Probe \in 0 .. (Day - 1)
    PROVE  /\ Length(s) \in Nat
           /\ DurOnDay(IntervalOf(s), StartOf(s)) + If(EndsOf(s) # {}, DurOnDay(IntervalOf(s), EndOf(s)))
                = Length(s)
<1> DEFINE i == IntervalOf(s)
<1>1. i \in [start : Int, end : Int] /\ i.start <= i.end
  BY DaysType, Runs
<1> HIDE DEF i
<1>2. DurOnDay(i, StartDay(i))
        + (IF LogicalDay(i.end) = StartDay(i) THEN 0 ELSE DurOnDay(i, LogicalDay(i.end)))
      = i.end - i.start - DaysBetween(i) * Day
  BY <1>1, PartsAddUp, TimeAssumption
<1>3. /\ EndOf(s) = LogicalDay(i.end) /\ StartDay(i) = StartOf(s)
      /\ EndsOf(s) = {e \in {EndOf(s)} : e # StartOf(s) /\ DurOnDay(i, e) > 0}
      /\ Length(s) = i.end - i.start - DaysBetween(i) * Day
  BY DEF EndOf, StartOf, EndsOf, EndDays, Length, Between, DaysBetween, i
<1>4. DurOnDay(i, StartOf(s)) \in Nat /\ DurOnDay(i, EndOf(s)) \in Nat
  BY ShareType DEF i
<1>5. EndsOf(s) # {} <=> EndOf(s) # StartOf(s) /\ DurOnDay(i, EndOf(s)) > 0
  BY <1>3
<1>6. PICK n : n = i.end - i.start - DaysBetween(i) * Day
  OBVIOUS
<1>7. DurOnDay(i, StartOf(s)) + If(EndsOf(s) # {}, DurOnDay(i, EndOf(s))) = n
  BY <1>2, <1>3, <1>4, <1>5, <1>6 DEF If
<1>8. DurOnDay(i, StartOf(s)) + If(EndsOf(s) # {}, DurOnDay(i, EndOf(s))) \in Nat
  BY <1>4 DEF If
<1> QED
  BY <1>3, <1>6, <1>7, <1>8 DEF i

\* Sums of ones are sizes.
LEMMA OnesCount ==
    ASSUME NEW S, IsFiniteSet(S), NEW n
    PROVE  IsFiniteSet(S \X {n}) /\ Cardinality(S \X {n}) = Cardinality(S)
<1>1. IsFiniteSet({n}) /\ Cardinality({n}) = 1 /\ Cardinality(S) \in Nat
  BY FS_Singleton, FS_CardinalityType
<1>2. IsFiniteSet(S \X {n}) /\ Cardinality(S \X {n}) = Cardinality(S) * Cardinality({n})
  BY <1>1, FS_Product, ZenonT(60)
<1> QED
  BY <1>1, <1>2

\* When the handlers are through, what the sessions have added is the counts of
\* those that are done, and their time.
LEMMA QuietShares ==
    ASSUME TypeOK, Quiet
    PROVE  /\ SumOf([s \in Sessions |-> Share(s).count], Sessions) = Cardinality(Counted)
           /\ SumOf([s \in Sessions |-> Share(s).touching], Sessions)
                = Cardinality(Counted) + Cardinality({s \in Counted : EndsOf(s) # {}})
           /\ 2 * Offset + Probe \in 0 .. (Day - 1) =>
                 SumOf([s \in Sessions |-> Share(s).dur], Sessions)
                   = MapThenSumSet(LAMBDA s : IntervalOf(s).end - IntervalOf(s).start - Between(s) * Day, Counted)
<1> DEFINE both == {s \in Counted : EndsOf(s) # {}}
           counts == [s \in Sessions |-> Share(s).count]
           touches == [s \in Sessions |-> Share(s).touching]
           durs == [s \in Sessions |-> Share(s).dur]
<1>1. \A s \in Sessions : (Started(s) <=> s \in Counted) /\ (Ended(s) <=> s \in both)
  BY DEF Quiet, Started, Ended, Counted
<1>2. IsFiniteSet(Sessions)
  BY SpineAssumption
<1>3. Counted \subseteq Sessions /\ both \subseteq Counted /\ IsFiniteSet(Counted) /\ IsFiniteSet(both)
  <2>1. Counted \subseteq Sessions /\ both \subseteq Counted
    BY DEF Counted
  <2> QED
    BY <1>2, <2>1, FS_Subset
<1>5. SumOf(counts, Sessions) = Cardinality(Counted)
  <2>1. \A s \in Sessions : counts[s] = IF s \in Counted THEN 1 ELSE 0
    BY <1>1 DEF Share, If
  <2> HIDE DEF counts
  <2>2. \A s \in Sessions : 1 .. counts[s] = {n \in {1} : s \in Counted}
    BY <2>1
  <2>3. Units(counts, Sessions) = UNION {{s} \X {n \in {1} : s \in Counted} : s \in Sessions}
    BY <2>2 DEF Units
  <2>4. Units(counts, Sessions) = Counted \X {1}
    BY <1>3, <2>3
  <2> QED
    BY <1>3, <2>4, OnesCount DEF SumOf
<1>6. SumOf(touches, Sessions) = Cardinality(Counted) + Cardinality(both)
  <2>1. \A s \in Sessions : touches[s] = IF s \in both THEN 2 ELSE IF s \in Counted THEN 1 ELSE 0
    BY <1>1, <1>3 DEF Share, If
  <2> HIDE DEF touches, both
  <2>2. \A s \in Sessions : 1 .. touches[s] = {n \in {1} : s \in Counted} \cup {n \in {2} : s \in both}
    <3> TAKE s \in Sessions
    <3>1. CASE s \in both
      <4>1. s \in Counted /\ touches[s] = 2
        BY <1>3, <2>1, <3>1
      <4> QED
        BY <3>1, <4>1
    <3>2. CASE s \notin both
      BY <2>1, <3>2
    <3> QED
      BY <3>1, <3>2
  <2> DEFINE first == Counted \X {1}
             second == both \X {2}
  <2>0. Units(touches, Sessions)
          = UNION {{s} \X ({n \in {1} : s \in Counted} \cup {n \in {2} : s \in both}) : s \in Sessions}
    BY <2>2 DEF Units
  <2>3. Units(touches, Sessions) = first \cup second
    BY <1>3, <2>0
  <2>4. first \cap second = {}
    OBVIOUS
  <2>5. /\ IsFiniteSet(first) /\ Cardinality(first) = Cardinality(Counted)
        /\ IsFiniteSet(second) /\ Cardinality(second) = Cardinality(both)
    BY <1>3, OnesCount
  <2> HIDE DEF first, second
  <2>6. Cardinality(first \cup second) = Cardinality(first) + Cardinality(second) - Cardinality(first \cap second)
    BY <2>5, FS_Union
  <2>7. Cardinality(first \cap second) = 0 /\ Cardinality(first) \in Nat /\ Cardinality(second) \in Nat
    BY <2>4, <2>5, FS_EmptySet, FS_CardinalityType
  <2>8. Cardinality(first \cup second) = Cardinality(first) + Cardinality(second)
    BY <2>6, <2>7
  <2> QED
    BY <2>3, <2>5, <2>8 DEF SumOf
<1>7. ASSUME 2 * Offset + Probe \in 0 .. (Day - 1)
      PROVE  SumOf(durs, Sessions)
               = MapThenSumSet(LAMBDA s : IntervalOf(s).end - IntervalOf(s).start - Between(s) * Day, Counted)
  <2>1. ASSUME NEW s \in Counted PROVE durs[s] = Length(s) /\ durs[s] \in Nat
    <3>1. s \in Sessions /\ durs[s] = Share(s).dur
      BY <1>3
    <3>2. Started(s) /\ (Ended(s) <=> EndsOf(s) # {})
      BY <1>1, <3>1
    <3>3. Share(s).dur = DurOnDay(IntervalOf(s), StartOf(s))
                         + If(EndsOf(s) # {}, DurOnDay(IntervalOf(s), EndOf(s)))
      BY <3>2 DEF Share, If
    <3> QED
      BY <1>7, <3>1, <3>3, SplitsEven
  <2>2. \A s \in Sessions \ Counted : durs[s] = 0
    BY <1>1, <1>3 DEF Share, If
  <2> HIDE DEF durs
  <2>3. \A s \in Sessions \ Counted : 1 .. durs[s] = {}
    BY <2>2
  <2>4. Units(durs, Sessions) = Units(durs, Counted)
    BY <1>3, <2>3 DEF Units
  <2>5. MapThenSumSet(LAMBDA s : IntervalOf(s).end - IntervalOf(s).start - Between(s) * Day, Counted) = SumOf(durs, Counted)
    BY <1>3, <2>1, LengthsAreSum
  <2> QED
    BY <2>4, <2>5 DEF SumOf
<1> QED
  BY <1>5, <1>6, <1>7

\* Where a probe of a day lands in it, and for every cap on a session, the sessions
\* of the days add up, once traffic stops and the sweeps are through and nothing
\* failed: each is counted on one day, touches its first and its last day once, and
\* its time is split between these two without loss, but for the whole days between.
THEOREM SessionsAddUpCorrect ==
    ASSUME 2 * Offset + Probe \in 0 .. (Day - 1)
    PROVE  Spec => []SessionsAddUp
<1>1. Init => Base /\ AddInv
  BY BaseInit, AddInit
<1>2. Base /\ AddInv /\ [Next]_vars => Base' /\ AddInv'
  BY BaseNext, AddNext
<1>3. Base /\ AddInv => SessionsAddUp
  <2> SUFFICES ASSUME Base, AddInv, Undisturbed
               PROVE  /\ Total("count") = Cardinality(Counted)
                      /\ Total("touching") = Cardinality(Counted)
                                             + Cardinality({s \in Counted : EndsOf(s) # {}})
                      /\ Total("dur") = MapThenSumSet(LAMBDA s : IntervalOf(s).end - IntervalOf(s).start - Between(s) * Day, Counted)
    BY DEF SessionsAddUp
  <2>1. TypeOK /\ Quiet /\ dirty = {} /\ upset = {}
    BY DEF Undisturbed, Base
  <2>2. \A d \in Days : Told(d) = stored.sess[d]
    BY <2>1 DEF AddInv, Told, Filled
  <2>3. ASSUME NEW field \in {"count", "touching", "dur"}, Balance(field)
        PROVE  Total(field) = SumOf([s \in Sessions |-> Share(s)[field]], Sessions)
    <3>1. [d \in Days |-> Told(d)[field]] = [d \in Days |-> stored.sess[d][field]]
      BY <2>2
    <3> QED
      BY <2>1, <2>3, <3>1, TotalIsSum DEF Balance
  <2>4. Balance("count") /\ Balance("touching") /\ Balance("dur")
    BY <2>1 DEF AddInv
  <2>5. /\ Total("count") = SumOf([s \in Sessions |-> Share(s).count], Sessions)
        /\ Total("touching") = SumOf([s \in Sessions |-> Share(s).touching], Sessions)
        /\ Total("dur") = SumOf([s \in Sessions |-> Share(s).dur], Sessions)
    BY <2>3, <2>4
  <2> QED
    BY <2>1, <2>5, QuietShares
<1> QED
  BY <1>1, <1>2, <1>3, PTL DEF Spec

-----------------------------------------------------------------------------
(* The pages: each day by itself *)

\* What a session has added to a day by now.
CountsOn(s, d) == If(Started(s) /\ StartOf(s) = d, 1)
TimeOn(s, d) ==
    If(Started(s) /\ StartOf(s) = d, DurOnDay(IntervalOf(s), StartOf(s)))
    + If(Ended(s) /\ EndOf(s) = d, DurOnDay(IntervalOf(s), EndOf(s)))

DayBalance(d) ==
    /\ Told(d).count = SumOf([s \in Sessions |-> CountsOn(s, d)], Sessions)
    /\ Told(d).dur = SumOf([s \in Sessions |-> TimeOn(s, d)], Sessions)

\* Each day holds what the sessions have added to it.
PerDayInv == upset = {} => \A d \in Days : DayBalance(d)

LEMMA PartType ==
    ASSUME NEW s \in Sessions, NEW d \in Days
    PROVE  /\ CountsOn(s, d) \in Nat /\ CountsOn(s, d)' \in Nat
           /\ TimeOn(s, d) \in Nat /\ TimeOn(s, d)' \in Nat
<1>1. DurOnDay(IntervalOf(s), StartOf(s)) \in Nat /\ DurOnDay(IntervalOf(s), EndOf(s)) \in Nat
  BY ShareType
<1> QED
  BY <1>1 DEF CountsOn, TimeOn, If

\* A step that leaves the day and the sessions' parts of it alone.
LEMMA DayKept ==
    ASSUME NEW d \in Days, DayBalance(d), Told(d)' = Told(d),
           \A s \in Sessions : CountsOn(s, d)' = CountsOn(s, d) /\ TimeOn(s, d)' = TimeOn(s, d)
    PROVE  DayBalance(d)'
<1>1. [s \in Sessions |-> CountsOn(s, d)'] = [s \in Sessions |-> CountsOn(s, d)]
  OBVIOUS
<1>2. [s \in Sessions |-> TimeOn(s, d)'] = [s \in Sessions |-> TimeOn(s, d)]
  OBVIOUS
<1> QED
  BY <1>1, <1>2 DEF DayBalance

\* A step that adds to the day what it adds to the session's part of it.
LEMMA DayGrows ==
    ASSUME NEW d \in Days, DayBalance(d), NEW s \in Sessions, NEW n \in Nat, NEW m \in Nat,
           Told(d)'.count = Told(d).count + n, Told(d)'.dur = Told(d).dur + m,
           CountsOn(s, d)' = CountsOn(s, d) + n, TimeOn(s, d)' = TimeOn(s, d) + m,
           \A r \in Sessions : r # s => CountsOn(r, d)' = CountsOn(r, d) /\ TimeOn(r, d)' = TimeOn(r, d)
    PROVE  DayBalance(d)'
<1> DEFINE counts == [r \in Sessions |-> CountsOn(r, d)]
           counted == [r \in Sessions |-> CountsOn(r, d)']
           times == [r \in Sessions |-> TimeOn(r, d)]
           timed == [r \in Sessions |-> TimeOn(r, d)']
<1>1. IsFiniteSet(Sessions)
  BY SpineAssumption
<1>2. /\ counts \in [Sessions -> Nat] /\ counted \in [Sessions -> Nat]
      /\ counted[s] = counts[s] + n /\ \A r \in Sessions : r # s => counted[r] = counts[r]
  BY PartType
<1>3. /\ times \in [Sessions -> Nat] /\ timed \in [Sessions -> Nat]
      /\ timed[s] = times[s] + m /\ \A r \in Sessions : r # s => timed[r] = times[r]
  BY PartType
<1>4. Told(d).count = SumOf(counts, Sessions) /\ Told(d).dur = SumOf(times, Sessions)
  BY DEF DayBalance
<1> HIDE DEF counts, counted, times, timed
<1>5. SumOf(counted, Sessions) = SumOf(counts, Sessions) + n
  BY <1>1, <1>2, SumGrows
<1>6. SumOf(timed, Sessions) = SumOf(times, Sessions) + m
  BY <1>1, <1>3, SumGrows
<1>7. Told(d)'.count = SumOf(counted, Sessions) /\ Told(d)'.dur = SumOf(timed, Sessions)
  BY <1>4, <1>5, <1>6
<1> QED
  BY <1>7 DEF DayBalance, counted, timed

LEMMA PartsFrame ==
    ASSUME Base, NEW s \in Sessions, Handle(s)
    PROVE  \A r \in Sessions : r # s =>
              \A d \in Days : CountsOn(r, d)' = CountsOn(r, d) /\ TimeOn(r, d)' = TimeOn(r, d)
<1>1. \A r \in Sessions : r # s => pc'[r] = pc[r] /\ todo'[r] = todo[r]
  BY HandleFrame
<1> QED
  BY <1>1 DEF CountsOn, TimeOn, Started, Ended, If

LEMMA PerDayHandle ==
    ASSUME Base, Base', PerDayInv, NEW s \in Sessions, Handle(s)
    PROVE  PerDayInv'
<1> SUFFICES ASSUME upset' = {}, NEW d \in Days PROVE DayBalance(d)'
  BY DEF PerDayInv
<1>0. upset = {} /\ ~Fail(s) /\ UNCHANGED stored
  BY HandleFrame
<1>1. /\ TypeOK /\ DayBalance(d)
      /\ \A r \in Sessions : r # s => CountsOn(r, d)' = CountsOn(r, d) /\ TimeOn(r, d)' = TimeOn(r, d)
  BY <1>0, PartsFrame DEF Base, PerDayInv
<1>2. /\ StartOf(s) \in Days /\ EndsOf(s) \subseteq Days /\ EndsOf(s) \subseteq {EndOf(s)}
      /\ DurOnDay(IntervalOf(s), StartOf(s)) \in Nat /\ DurOnDay(IntervalOf(s), EndOf(s)) \in Nat
      /\ CountsOn(s, d) \in Nat /\ TimeOn(s, d) \in Nat
  BY DaysType, ShareType, PartType
<1>3. ASSUME UNCHANGED sess, Started(s)' <=> Started(s), Ended(s)' <=> Ended(s)
      PROVE  DayBalance(d)'
  <2>1. Told(d)' = Told(d)
    BY <1>0, <1>3 DEF Told, Filled
  <2>2. CountsOn(s, d)' = CountsOn(s, d) /\ TimeOn(s, d)' = TimeOn(s, d)
    BY <1>3 DEF CountsOn, TimeOn, If
  <2> QED
    BY <1>1, <2>1, <2>2, DayKept
<1>4. CASE Receive(s) \/ Seed(s) \/ Reread(s) \/ SetBit(s)
  <2>1. UNCHANGED sess /\ ~Started(s) /\ ~Ended(s) /\ ~Started(s)' /\ ~Ended(s)'
    BY <1>4, EarlyShares
  <2> QED
    BY <1>3, <2>1
<1>5. CASE FoldStart(s)
  <2>1. FoldStep(s, "start") /\ AddTime(StartOf(s), 1, DurOnDay(IntervalOf(s), StartOf(s)))
    BY <1>5 DEF FoldStart
  <2>2. ~Started(s) /\ Started(s)' /\ (Ended(s)' <=> Ended(s))
    BY <2>1, FoldShares
  <2>3. /\ Told(StartOf(s))'.count = Told(StartOf(s)).count + 1
        /\ Told(StartOf(s))'.dur = Told(StartOf(s)).dur + DurOnDay(IntervalOf(s), StartOf(s))
        /\ d # StartOf(s) => Told(d)' = Told(d)
    BY <1>0, <1>1, <1>2, <2>1, AddTimeDoes
  <2>4. CASE d = StartOf(s)
    <3>1. /\ CountsOn(s, d)' = CountsOn(s, d) + 1
          /\ TimeOn(s, d)' = TimeOn(s, d) + DurOnDay(IntervalOf(s), StartOf(s))
      BY <1>2, <2>2, <2>4 DEF CountsOn, TimeOn, If
    <3> QED
      BY <1>1, <1>2, <2>3, <2>4, <3>1, DayGrows
  <2>5. CASE d # StartOf(s)
    <3>1. CountsOn(s, d)' = CountsOn(s, d) /\ TimeOn(s, d)' = TimeOn(s, d)
      BY <2>2, <2>5 DEF CountsOn, TimeOn, If
    <3> QED
      BY <1>1, <2>3, <2>5, <3>1, DayKept
  <2> QED
    BY <2>4, <2>5
<1>6. CASE FoldEnd(s)
  <2>1. PICK e \in EndsOf(s) : AddTime(e, 0, DurOnDay(IntervalOf(s), e))
    BY <1>6 DEF FoldEnd
  <2>2. e = EndOf(s) /\ e \in Days /\ EndsOf(s) # {} /\ FoldStep(s, "end")
    BY <1>2, <1>6 DEF FoldEnd
  <2>3. ~Ended(s) /\ Ended(s)' /\ (Started(s)' <=> Started(s))
    BY <2>2, FoldShares
  <2>4. /\ Told(e)'.count = Told(e).count + 0
        /\ Told(e)'.dur = Told(e).dur + DurOnDay(IntervalOf(s), e)
        /\ d # e => Told(d)' = Told(d)
    BY <1>0, <1>1, <1>2, <2>1, <2>2, AddTimeDoes
  <2>5. CASE d = e
    <3>1. /\ CountsOn(s, d)' = CountsOn(s, d) + 0
          /\ TimeOn(s, d)' = TimeOn(s, d) + DurOnDay(IntervalOf(s), e)
      BY <1>2, <2>2, <2>3, <2>5 DEF CountsOn, TimeOn, If
    <3> QED
      BY <1>1, <1>2, <2>2, <2>4, <2>5, <3>1, DayGrows
  <2>6. CASE d # e
    <3>1. CountsOn(s, d)' = CountsOn(s, d) /\ TimeOn(s, d)' = TimeOn(s, d)
      BY <2>2, <2>3, <2>6 DEF CountsOn, TimeOn, If
    <3> QED
      BY <1>1, <2>4, <2>6, <3>1, DayKept
  <2> QED
    BY <2>5, <2>6
<1>7. CASE FoldActive(s) \/ FoldNewUser(s) \/ FoldReturn(s)
  <2>1. PICK step : FoldStep(s, step) /\ step \notin {"start", "end"}
    BY <1>7 DEF FoldActive, FoldNewUser, FoldReturn
  <2>2. UNCHANGED sess
    BY <1>7 DEF FoldActive, FoldNewUser, FoldReturn
  <2> QED
    BY <1>3, <2>1, <2>2, FoldShares
<1> QED
  BY <1>0, <1>4, <1>5, <1>6, <1>7 DEF Handle

LEMMA PerDayQuiet ==
    ASSUME PerDayInv, upset' = {} => upset = {}, UNCHANGED <<pc, todo>>,
           \A d \in Days : Told(d)' = Told(d)
    PROVE  PerDayInv'
<1> SUFFICES ASSUME upset' = {}, NEW d \in Days PROVE DayBalance(d)'
  BY DEF PerDayInv
<1>1. DayBalance(d)
  BY DEF PerDayInv
<1>2. \A s \in Sessions : CountsOn(s, d)' = CountsOn(s, d) /\ TimeOn(s, d)' = TimeOn(s, d)
  BY DEF CountsOn, TimeOn, Started, Ended, If
<1> QED
  BY <1>1, <1>2, DayKept

LEMMA PerDayNext == Base /\ AddInv /\ PerDayInv /\ [Next]_vars => PerDayInv'
<1> SUFFICES ASSUME Base, AddInv, PerDayInv, [Next]_vars PROVE PerDayInv'
  OBVIOUS
<1>0. Base' /\ TypeOK /\ TypeOK'
  BY BaseNext DEF Base
<1>1. CASE \E s \in Sessions : Handle(s)
  BY <1>0, <1>1, PerDayHandle
<1>2. CASE \E u \in Users : Erase(u)
  <2>1. UNCHANGED <<pc, todo>> /\ (upset' = {} => upset = {})
    BY <1>0, <1>2, EraseDoes
  <2>2. UNCHANGED sess /\ stored'.sess = stored.sess
    BY <1>0, <1>2 DEF Erase, EnumerateSpine, EnumerateFrom, EnumerateActive, Purge, CloseEntry,
                      EraseFails, buckets, TypeOK
  <2>3. \A d \in Days : Told(d)' = Told(d)
    BY <2>2 DEF Told, Filled
  <2> QED
    BY <2>1, <2>3, PerDayQuiet
<1>3. CASE Sweep
  <2> SUFFICES ASSUME upset = {} PROVE PerDayInv'
    BY <1>3 DEF PerDayInv, Sweep, bounds
  <2>1. UNCHANGED <<pc, todo, sess>>
    BY <1>3 DEF Sweep, handlers
  <2>2. \A d \in Days : /\ sess[d] # None => stored'.sess[d] = sess[d]
                        /\ sess[d] = None => stored'.sess[d] = stored.sess[d]
    BY <1>0, <1>3, SweptTimes
  <2>3. \A d \in Days : Told(d)' = Told(d)
    BY <2>1, <2>2 DEF Told, Filled
  <2> QED
    BY <2>1, <2>3, PerDayQuiet
<1>4. CASE LoseRedis
  <2>1. upset' # {}
    BY <1>4 DEF LoseRedis
  <2> QED
    BY <2>1 DEF PerDayInv
<1>5. CASE RescanRead \/ RescanWrite \/ Tick \/ UNCHANGED vars
  <2>1. UNCHANGED <<pc, todo, sess, upset>>
    BY <1>5 DEF RescanRead, RescanWrite, Tick, vars, handlers, buckets, bounds
  <2>2. stored'.sess = stored.sess
    BY <1>0, <1>5 DEF RescanRead, RescanWrite, Tick, vars, TypeOK
  <2>3. \A d \in Days : Told(d)' = Told(d)
    BY <2>1, <2>2 DEF Told, Filled
  <2> QED
    BY <2>1, <2>3, PerDayQuiet
<1> QED
  BY <1>1, <1>2, <1>3, <1>4, <1>5 DEF Next

LEMMA PerDayInit == Init => PerDayInv
<1> SUFFICES ASSUME Init, NEW d \in Days PROVE DayBalance(d)
  BY DEF PerDayInv
<1>1. Told(d) = NoTime
  BY DEF Init, Told, Filled
<1>2. \A s \in Sessions : CountsOn(s, d) = 0 /\ TimeOn(s, d) = 0
  BY DEF Init, Started, Ended, CountsOn, TimeOn, If
<1>3. /\ \A s \in Sessions : [r \in Sessions |-> CountsOn(r, d)][s] = 0
      /\ \A s \in Sessions : [r \in Sessions |-> TimeOn(r, d)][s] = 0
  BY <1>2
<1>4. /\ SumOf([s \in Sessions |-> CountsOn(s, d)], Sessions) = 0
      /\ SumOf([s \in Sessions |-> TimeOn(s, d)], Sessions) = 0
  BY <1>3, SumZero
<1> QED
  BY <1>1, <1>4 DEF DayBalance, NoTime

-----------------------------------------------------------------------------
(* The pages: who was active *)

\* A user's session of day d that has marked the user active.
Marked(s) == pc[s] = "done" \/ (pc[s] = "fold" /\ "act" \notin todo[s])
Came(u, d) == \E s \in Sessions : UserOf[s] = u /\ StartOf(s) = d /\ Marked(s)

\* The day lists the user, or will with the next sweep.
Shown(u, d) ==
    u \in stored.act[d] \/ (<<"act", d>> \in dirty /\ act[d] # None /\ u \in act[d])

\* A bit is set for the day of its session, by a handler that does not fail; and
\* of the users who never asked to be erased, a day lists those who came, and all
\* of them.
ActInv ==
    QuietRescan /\ upset = {} =>
        /\ \A s \in Sessions, c \in Days, b \in 0 .. (Span - 1) :
              <<s, c, b>> \in marks => c + b = StartOf(s) /\ pc[s] # "failed"
        /\ \A d \in Days, u \in Present :
              /\ u \in stored.act[d] => Came(u, d)
              /\ act[d] # None /\ u \in act[d] => Came(u, d)
              /\ Came(u, d) => Shown(u, d)

\* A user's first day lists the user, or a handler is on its way to it.
NewInv ==
    upset = {} =>
        \A u \in Users : spine[u] # None =>
            \E s \in Sessions :
                /\ UserOf[s] = u /\ StartOf(s) = Cohort(spine[u])
                /\ pc[s] = "bit" \/ "act" \in todo[s] \/ Shown(u, Cohort(spine[u]))

\* What a handler does to the days' lists.
LEMMA ActiveDoes ==
    ASSUME Base, NEW s \in Sessions, FoldActive(s)
    PROVE  /\ FoldStep(s, "act") /\ UserOf[s] \in Users /\ StartOf(s) \in Days
           /\ act'[StartOf(s)] = Filled(act[StartOf(s)], stored.act[StartOf(s)]) \cup {UserOf[s]}
           /\ act'[StartOf(s)] # None
           /\ \A d \in Days : d # StartOf(s) => act'[d] = act[d]
           /\ dirty' = dirty \cup {<<"act", StartOf(s)>>}
<1> DEFINE d == StartOf(s)
           new == Filled(act[d], stored.act[d]) \cup {UserOf[s]}
<1>1. /\ FoldStep(s, "act") /\ act' = [act EXCEPT ![d] = new]
      /\ dirty' = dirty \cup {<<"act", d>>}
  BY DEF FoldActive
<1>2. UserOf[s] \in Users
  BY <1>1, FoldDoes DEF Base, Owned
<1>3. d \in Days /\ act \in [Days -> (SUBSET Users) \cup {None}] /\ stored.act[d] \in SUBSET Users
  BY DaysType DEF Base, TypeOK
<1>4. new \in SUBSET Users
  BY <1>2, <1>3 DEF Filled
<1>5. new # None
  BY <1>4, NoneAssumption
<1> HIDE DEF new
<1>6. act'[d] = new /\ \A e \in Days : e # d => act'[e] = act[e]
  BY <1>1, <1>3
<1> QED
  BY <1>1, <1>2, <1>3, <1>5, <1>6 DEF new

\* Who is marked after a step of a handler.
LEMMA MarkedDoes ==
    ASSUME Base, NEW s \in Sessions, Handle(s), ~Fail(s)
    PROVE  /\ \A r \in Sessions : r # s => (Marked(r)' <=> Marked(r))
           /\ FoldActive(s) => Marked(s)' /\ ~Marked(s)
           /\ ~FoldActive(s) /\ UserOf[s] \in Users => (Marked(s)' <=> Marked(s))
           /\ ~FoldActive(s) => UNCHANGED act /\ \A d \in Days : <<"act", d>> \in dirty' <=> <<"act", d>> \in dirty
<1>1. pc \in [Sessions -> Steps] /\ todo \in [Sessions -> SUBSET DOMAIN Rank]
  BY DEF Base, TypeOK, Steps
<1>2. \A r \in Sessions : r # s => (Marked(r)' <=> Marked(r))
  BY HandleFrame DEF Marked
<1>3. ASSUME NEW step, FoldStep(s, step)
      PROVE  /\ step = "act" => Marked(s)' /\ ~Marked(s)
             /\ step # "act" => (Marked(s)' <=> Marked(s))
  <2>1. pc[s] = "fold" /\ step \in todo[s] /\ todo'[s] = todo[s] \ {step}
    BY <1>1, <1>3, FoldDoes
  <2>2. pc'[s] = "fold" \/ (pc'[s] = "done" /\ todo[s] = {step})
    BY <1>1, <1>3, <2>1, FoldDoes
  <2> QED
    BY <2>1, <2>2 DEF Marked
<1>4. CASE FoldActive(s)
  BY <1>2, <1>3, <1>4 DEF FoldActive
<1>5. CASE FoldStart(s) \/ FoldEnd(s) \/ FoldNewUser(s) \/ FoldReturn(s)
  <2>1. PICK step : FoldStep(s, step) /\ step # "act"
    BY <1>5 DEF FoldStart, FoldEnd, FoldNewUser, FoldReturn
  <2>2. UNCHANGED act /\ \E d : \E b \in {"sess", "ret"} : dirty' = dirty \cup {<<b, d>>}
    BY <1>5 DEF FoldStart, FoldEnd, FoldNewUser, FoldReturn, AddTime
  <2>3. ~FoldActive(s)
    <3>1. ASSUME FoldActive(s) PROVE FALSE
      <4>1. Marked(s)' /\ ~Marked(s)
        BY <1>3, <3>1 DEF FoldActive
      <4> QED
        BY <1>3, <2>1, <4>1
    <3> QED
      BY <3>1
  <2> QED
    BY <1>2, <1>3, <2>1, <2>2, <2>3
<1>6. CASE Receive(s) \/ Seed(s) \/ Reread(s) \/ SetBit(s)
  <2>1. UNCHANGED <<act, dirty>> /\ pc[s] \in {"queued", "seed", "reread", "bit"}
    BY <1>6 DEF Receive, Seed, Reread, SetBit, buckets
  <2>2. ASSUME NEW found, Fold(s, found), UserOf[s] \in Users PROVE ~Marked(s)'
    <3>1. pc'[s] = "fold" /\ todo'[s] = Plan(s, found)
      BY <1>1, <2>2 DEF Fold
    <3>2. "act" \in Plan(s, found)
      BY <2>2, SpineAssumption DEF Plan
    <3> QED
      BY <3>1, <3>2 DEF Marked
  <2>3. ASSUME NEW p \in {"late", "seed", "reread", "bit", "failed"}, pc' = [pc EXCEPT ![s] = p]
        PROVE  ~Marked(s)'
    BY <1>1, <2>3 DEF Marked
  <2>4. ASSUME NEW created, NEW first, Place(s, created, first), UserOf[s] \in Users PROVE ~Marked(s)'
    BY <2>2, <2>3, <2>4 DEF Place
  <2>5. UserOf[s] \in Users => ~Marked(s)'
    <3>1. CASE Receive(s)
      BY <2>2, <2>3, <3>1 DEF Receive
    <3>2. CASE Seed(s)
      BY <2>3, <2>4, <3>2 DEF Seed
    <3>3. CASE Reread(s)
      BY <2>3, <2>4, <3>3 DEF Reread
    <3>4. CASE SetBit(s)
      BY <2>2, <3>4 DEF SetBit
    <3> QED
      BY <1>6, <3>1, <3>2, <3>3, <3>4
  <2>6. ~Marked(s)
    BY <2>1 DEF Marked
  <2>7. ~FoldActive(s)
    BY <2>1, FoldDoes DEF FoldActive
  <2> QED
    BY <1>2, <2>1, <2>5, <2>6, <2>7
<1> QED
  BY <1>4, <1>5, <1>6 DEF Handle

LEMMA ActHandle ==
    ASSUME Base, Base', ActInv, NEW s \in Sessions, Handle(s)
    PROVE  ActInv'
<1> SUFFICES ASSUME QuietRescan, upset' = {}
             PROVE  /\ \A r \in Sessions, c \in Days, b \in 0 .. (Span - 1) :
                          <<r, c, b>> \in marks' => c + b = StartOf(r) /\ pc'[r] # "failed"
                    /\ \A d \in Days, u \in Present' :
                          /\ u \in stored'.act[d] => Came(u, d)'
                          /\ act'[d] # None /\ u \in act'[d] => Came(u, d)'
                          /\ Came(u, d)' => Shown(u, d)'
  BY DEF ActInv
<1>0. upset = {} /\ ~Fail(s) /\ UNCHANGED stored
  BY HandleFrame
<1>1. pc \in [Sessions -> Steps] /\ todo \in [Sessions -> SUBSET DOMAIN Rank]
  BY DEF Base, TypeOK, Steps
<1>2. Present' = Present
  <2>1. UNCHANGED erasure
    BY DEF Handle, Receive, Seed, Reread, SetBit, FoldStart, FoldEnd, FoldActive, FoldNewUser, FoldReturn,
           FoldStep, Fail, privacy
  <2> QED
    BY <2>1 DEF Present
<1>3. /\ \A r \in Sessions, c \in Days, b \in 0 .. (Span - 1) :
            <<r, c, b>> \in marks => c + b = StartOf(r) /\ pc[r] # "failed"
      /\ \A d \in Days, u \in Present :
            /\ u \in stored.act[d] => Came(u, d)
            /\ act[d] # None /\ u \in act[d] => Came(u, d)
            /\ Came(u, d) => Shown(u, d)
  BY <1>0 DEF ActInv
<1>4. ASSUME NEW r \in Sessions, NEW c \in Days, NEW b \in 0 .. (Span - 1), <<r, c, b>> \in marks'
      PROVE  c + b = StartOf(r) /\ pc'[r] # "failed"
  <2>1. c \in Int /\ StartOf(r) \in Int
    BY DaysType
  <2>2. CASE <<r, c, b>> \in marks
    <3>1. c + b = StartOf(r) /\ pc[r] # "failed" /\ pc[r] \in {"fold", "done", "failed"}
      BY <1>3, <2>2 DEF Base, History
    <3>2. pc'[r] # "failed"
      <4>1. CASE r # s
        BY <3>1, <4>1, HandleFrame
      <4>2. CASE r = s
        <5>1. PICK step : FoldStep(s, step)
          BY <1>0, <3>1, <4>2
          DEF Handle, Receive, Seed, Reread, SetBit, FoldStart, FoldEnd, FoldActive, FoldNewUser, FoldReturn
        <5> QED
          BY <1>1, <3>1, <4>2, <5>1, FoldDoes
      <4> QED
        BY <4>1, <4>2
    <3> QED
      BY <3>1, <3>2
  <2>3. CASE <<r, c, b>> \notin marks
    <3>1. SetBit(s)
      BY <1>0, <1>4, <2>3, ReceiveDoes, SeedDoes, RereadDoes, FoldDoes
      DEF Handle, FoldStart, FoldEnd, FoldActive, FoldNewUser, FoldReturn
    <3>2. r = s /\ c = token[s].cohort /\ b = StartOf(s) - token[s].cohort /\ pc' = [pc EXCEPT ![s] = "fold"]
      BY <1>4, <2>3, <3>1, SetBitDoes
    <3> QED
      BY <1>1, <2>1, <3>2
  <2> QED
    BY <2>2, <2>3
<1>5. ASSUME NEW d \in Days, NEW u \in Present
      PROVE  /\ u \in stored'.act[d] => Came(u, d)'
             /\ act'[d] # None /\ u \in act'[d] => Came(u, d)'
             /\ Came(u, d)' => Shown(u, d)'
  <2>0. u \in Users
    BY DEF Present
  <2>1. \A r \in Sessions : r # s => (Marked(r)' <=> Marked(r))
    BY <1>0, MarkedDoes
  <2>2. CASE ~FoldActive(s)
    <3>1. UNCHANGED act /\ (<<"act", d>> \in dirty' <=> <<"act", d>> \in dirty)
      BY <1>0, <2>2, MarkedDoes
    <3>2. UserOf[s] = u => (Marked(s)' <=> Marked(s))
      BY <1>0, <2>0, <2>2, MarkedDoes
    <3>3. Came(u, d)' <=> Came(u, d)
      BY <2>1, <3>2 DEF Came
    <3>4. Shown(u, d)' <=> Shown(u, d)
      BY <1>0, <3>1 DEF Shown
    <3> QED
      BY <1>0, <1>3, <3>1, <3>3, <3>4
  <2>3. CASE FoldActive(s)
    <3>1. /\ StartOf(s) \in Days /\ UserOf[s] \in Users /\ Marked(s)'
          /\ act'[StartOf(s)] = Filled(act[StartOf(s)], stored.act[StartOf(s)]) \cup {UserOf[s]}
          /\ act'[StartOf(s)] # None
          /\ \A e \in Days : e # StartOf(s) => act'[e] = act[e]
          /\ dirty' = dirty \cup {<<"act", StartOf(s)>>}
      BY <1>0, <2>3, ActiveDoes, MarkedDoes
    <3>2. CASE d # StartOf(s)
      <4>1. Came(u, d)' <=> Came(u, d)
        BY <2>1, <3>2 DEF Came
      <4>2. Shown(u, d)' <=> Shown(u, d)
        BY <1>0, <3>1, <3>2 DEF Shown
      <4> QED
        BY <1>0, <1>3, <3>1, <3>2, <4>1, <4>2
    <3>3. CASE d = StartOf(s) /\ u = UserOf[s]
      <4>1. Came(u, d)'
        BY <3>1, <3>3 DEF Came
      <4>2. Shown(u, d)'
        BY <3>1, <3>3 DEF Shown
      <4> QED
        BY <4>1, <4>2
    <3>4. CASE d = StartOf(s) /\ u # UserOf[s]
      <4>1. Came(u, d)' <=> Came(u, d)
        BY <2>1, <3>4 DEF Came
      <4>2. u \in act'[d] <=> u \in Filled(act[d], stored.act[d])
        BY <3>1, <3>4
      <4>3. Shown(u, d) => Shown(u, d)'
        BY <1>0, <3>1, <3>4, <4>2 DEF Shown, Filled
      <4> QED
        BY <1>0, <1>3, <4>1, <4>2, <4>3 DEF Filled
    <3> QED
      BY <3>2, <3>3, <3>4
  <2> QED
    BY <2>2, <2>3
<1> QED
  BY <1>2, <1>4, <1>5

LEMMA SweptLists ==
    ASSUME TypeOK, Sweep, NEW d \in Days
    PROVE  stored'.act[d] = IF <<"act", d>> \in dirty /\ act[d] # None
                            THEN stored.act[d] \cup act[d] ELSE stored.act[d]
  BY DEF Sweep, Merged

\* What an erasure does to the days' lists.
LEMMA EraseLists ==
    ASSUME TypeOK, NEW v \in Users, Erase(v)
    PROVE  /\ UNCHANGED act /\ Present' \subseteq Present
           /\ \A d \in Days : \A u \in Users :
                 (u \in stored'.act[d] <=> u \in stored.act[d])
                 \/ (u = v /\ v \notin Present' /\ spine'[v] = None)
<1>1. erasure \in [Users -> Requests]
  BY DEF TypeOK, Requests
<1>2. CASE Purge(v)
  <2>1. stored'.act = [d \in Days |-> stored.act[d] \ {v}]
    BY <1>2 DEF Purge, TypeOK
  <2>2. \A u \in Users : erasure'[u] = "none" => erasure[u] = "none" /\ u # v
    BY <1>1, <1>2 DEF Purge
  <2>3. Present' \subseteq Present /\ v \notin Present'
    BY <2>2 DEF Present
  <2>4. spine'[v] = None /\ UNCHANGED act
    BY <1>2 DEF Purge, TypeOK, buckets
  <2> QED
    BY <2>1, <2>3, <2>4
<1>3. CASE EnumerateSpine(v) \/ EnumerateActive(v) \/ CloseEntry(v) \/ EraseFails(v)
  <2>1. UNCHANGED <<act, stored>>
    BY <1>3 DEF EnumerateSpine, EnumerateFrom, EnumerateActive, CloseEntry, EraseFails, buckets
  <2>2. \A u \in Users : erasure'[u] = "none" => erasure[u] = "none"
    BY <1>1, <1>3 DEF EnumerateSpine, EnumerateFrom, EnumerateActive, CloseEntry, EraseFails
  <2> QED
    BY <2>1, <2>2 DEF Present
<1> QED
  BY <1>2, <1>3 DEF Erase

\* What a re-scan finds on a day are users who came.
LEMMA ScanCame ==
    ASSUME Base, SpineInv, ActInv, QuietRescan, upset = {}, scan # None, NEW d \in Days, NEW u \in Users,
           u \in Projection(scan).act[d]
    PROVE  Came(u, d)
<1>1. scan[u] # None /\ d - Cohort(scan[u]) \in scan[u].bits
  BY DEF Projection
<1>2. PICK s \in Sessions : UserOf[s] = u /\ <<s, Cohort(scan[u]), d - Cohort(scan[u])>> \in marks
  BY <1>1 DEF SpineInv, Recorded
<1>3. PICK c, b : c = Cohort(scan[u]) /\ b = d - Cohort(scan[u])
  OBVIOUS
<1>4. c \in Days /\ b \in 0 .. (Span - 1) /\ <<s, c, b>> \in marks
  BY <1>2, <1>3 DEF Base, History
<1>5. c + b = StartOf(s) /\ pc[s] # "failed" /\ pc[s] \in {"fold", "done", "failed"}
  BY <1>4 DEF ActInv, Base, History
<1>6. StartOf(s) = d
  <2>1. c \in Int /\ d \in Int /\ b = d - c
    BY <1>3, <1>4, DaysType
  <2> QED
    BY <1>5, <2>1
<1>7. pc[s] = "done"
  BY <1>5 DEF Base, ScanIsQuiet, Quiet
<1> QED
  BY <1>2, <1>6, <1>7 DEF Came, Marked

LEMMA ActNext == Base /\ SpineInv /\ ActInv /\ [Next]_vars => ActInv'
<1> SUFFICES ASSUME Base, SpineInv, ActInv, [Next]_vars PROVE ActInv'
  OBVIOUS
<1>0. Base' /\ TypeOK
  BY BaseNext DEF Base
<1>1. CASE \E s \in Sessions : Handle(s)
  BY <1>0, <1>1, ActHandle
<1>2. ASSUME UNCHANGED <<pc, todo, marks>>, upset' = {} => upset = {}, Present' \subseteq Present,
             ASSUME QuietRescan, upset = {}, NEW d \in Days, NEW u \in Present'
             PROVE  /\ u \in stored'.act[d] => u \in stored.act[d] \/ (act[d] # None /\ u \in act[d]) \/ Came(u, d)
                    /\ act'[d] # None /\ u \in act'[d] => act[d] # None /\ u \in act[d]
                    /\ Shown(u, d) => Shown(u, d)'
      PROVE  ActInv'
  <2> SUFFICES ASSUME QuietRescan, upset' = {}
               PROVE  /\ \A r \in Sessions, c \in Days, b \in 0 .. (Span - 1) :
                            <<r, c, b>> \in marks' => c + b = StartOf(r) /\ pc'[r] # "failed"
                      /\ \A d \in Days, u \in Present' :
                            /\ u \in stored'.act[d] => Came(u, d)'
                            /\ act'[d] # None /\ u \in act'[d] => Came(u, d)'
                            /\ Came(u, d)' => Shown(u, d)'
    BY DEF ActInv
  <2>1. upset = {}
    BY <1>2
  <2>2. /\ \A r \in Sessions, c \in Days, b \in 0 .. (Span - 1) :
              <<r, c, b>> \in marks => c + b = StartOf(r) /\ pc[r] # "failed"
        /\ \A d \in Days, u \in Present :
              /\ u \in stored.act[d] => Came(u, d)
              /\ act[d] # None /\ u \in act[d] => Came(u, d)
              /\ Came(u, d) => Shown(u, d)
    BY <2>1 DEF ActInv
  <2>3. \A u, d : Came(u, d)' <=> Came(u, d)
    BY <1>2 DEF Came, Marked
  <2>4. ASSUME NEW d \in Days, NEW u \in Present'
        PROVE  /\ u \in stored'.act[d] => Came(u, d)'
               /\ act'[d] # None /\ u \in act'[d] => Came(u, d)'
               /\ Came(u, d)' => Shown(u, d)'
    <3>1. u \in Present
      BY <1>2
    <3>2. /\ u \in stored'.act[d] => u \in stored.act[d] \/ (act[d] # None /\ u \in act[d]) \/ Came(u, d)
          /\ act'[d] # None /\ u \in act'[d] => act[d] # None /\ u \in act[d]
          /\ Shown(u, d) => Shown(u, d)'
      BY <1>2, <2>1
    <3> QED
      BY <2>2, <2>3, <3>1, <3>2
  <2> QED
    BY <1>2, <2>2, <2>4
<1>3. ASSUME NEW v \in Users, Erase(v) PROVE ActInv'
  <2>1. UNCHANGED <<pc, todo, marks, dirty>> /\ (upset' = {} => upset = {})
    BY <1>0, <1>3, EraseDoes
  <2>2. UNCHANGED act /\ Present' \subseteq Present
    BY <1>0, <1>3, EraseLists
  <2>3. ASSUME NEW d \in Days, NEW u \in Present'
        PROVE  /\ u \in stored'.act[d] <=> u \in stored.act[d]
               /\ Shown(u, d) => Shown(u, d)'
    <3>1. u \in Users
      BY DEF Present
    <3>2. u \in stored'.act[d] <=> u \in stored.act[d]
      BY <1>0, <1>3, <3>1, EraseLists
    <3> QED
      BY <2>1, <2>2, <3>2 DEF Shown
  <2> QED
    BY <1>2, <2>1, <2>2, <2>3
<1>4. CASE Sweep
  <2>1. UNCHANGED <<pc, todo, marks, act, upset>> /\ dirty' = {} /\ Present' = Present
    BY <1>4 DEF Sweep, handlers, bounds, privacy, Present
  <2>2. ASSUME NEW d \in Days, NEW u
        PROVE  /\ u \in stored'.act[d] => u \in stored.act[d] \/ (act[d] # None /\ u \in act[d])
               /\ Shown(u, d) => Shown(u, d)'
    <3>1. stored'.act[d] = IF <<"act", d>> \in dirty /\ act[d] # None
                           THEN stored.act[d] \cup act[d] ELSE stored.act[d]
      BY <1>0, <1>4, SweptLists
    <3> QED
      BY <3>1 DEF Shown
  <2> QED
    BY <1>2, <2>1, <2>2
<1>5. CASE LoseRedis
  <2>1. upset' # {}
    BY <1>5 DEF LoseRedis
  <2> QED
    BY <2>1 DEF ActInv
<1>6. CASE RescanWrite
  <2>1. UNCHANGED <<pc, todo, marks, act, upset, dirty>> /\ Present' = Present /\ scan # None
    BY <1>6 DEF RescanWrite, handlers, buckets, bounds, privacy, Present
  <2>2. ASSUME QuietRescan, upset = {}, NEW d \in Days, NEW u \in Present'
        PROVE  /\ u \in stored'.act[d] => u \in stored.act[d] \/ Came(u, d)
               /\ Shown(u, d) => Shown(u, d)'
    <3>1. stored'.act[d] = stored.act[d] \cup Projection(scan).act[d]
      BY <1>0, <1>6 DEF RescanWrite, TypeOK
    <3>2. u \in Users
      BY DEF Present
    <3>3. u \in Projection(scan).act[d] => Came(u, d)
      BY <2>1, <2>2, <3>2, ScanCame
    <3> QED
      BY <2>1, <3>1, <3>3 DEF Shown
  <2> QED
    BY <1>2, <2>1, <2>2
<1>7. CASE RescanRead \/ Tick \/ UNCHANGED vars
  <2>1. UNCHANGED <<pc, todo, marks, act, upset, dirty, stored>> /\ Present' = Present
    BY <1>7 DEF RescanRead, Tick, vars, handlers, buckets, bounds, privacy, Present
  <2>2. ASSUME NEW d \in Days, NEW u PROVE Shown(u, d)' <=> Shown(u, d)
    BY <2>1 DEF Shown
  <2> QED
    BY <1>2, <2>1, <2>2
<1> QED
  BY <1>1, <1>3, <1>4, <1>5, <1>6, <1>7 DEF Next

LEMMA ActInit == Init => ActInv
<1> SUFFICES ASSUME Init PROVE ActInv
  OBVIOUS
<1>1. marks = {} /\ \A d \in Days : act[d] = None /\ stored.act[d] = {}
  BY DEF Init
<1>2. \A u, d : ~Came(u, d)
  BY DEF Init, Came, Marked
<1> QED
  BY <1>1, <1>2 DEF ActInv

-----------------------------------------------------------------------------
(* The pages: no more users back than a cohort has *)

LackingAt(c, off) == {u \in Users : spine[u] # None /\ Cohort(spine[u]) = c /\ off \notin spine[u].bits}

\* The users back on a day and the rows still without that day are of the cohort,
\* and distinct.
Scarce(c, d) == Cardinality(Seen(c, d)) + Cardinality(LackingAt(c, d - c)) <= Cardinality(Born(c))

ScarceInv == upset = {} => \A c, d \in Days : Scarce(c, d)

LEMMA LackingAtFinite == \A c, off : IsFiniteSet(LackingAt(c, off)) /\ Cardinality(LackingAt(c, off)) \in Nat
<1> TAKE c, off
<1>1. LackingAt(c, off) \subseteq Users
  BY DEF LackingAt
<1> QED
  BY <1>1, SpineAssumption, FS_Subset, FS_CardinalityType

LEMMA ScarceSeed ==
    ASSUME Base, NEW s \in Sessions, Seed(s), NEW c \in Days, NEW d \in Days, Scarce(c, d)
    PROVE  Scarce(c, d)'
<1>1. /\ spine \in [Users -> Row \cup {None}] /\ pc[s] = "seed" /\ UserOf[s] \in Users /\ UNCHANGED marks
  BY SeedDoes DEF Base, TypeOK
<1>2. CASE UNCHANGED <<spine, rows>>
  BY <1>1, <1>2 DEF Scarce, LackingAt, Seen, Born
<1>3. CASE /\ spine[UserOf[s]] = None
           /\ spine' = [spine EXCEPT ![UserOf[s]] = [first |-> IntervalOf(s).start, bits |-> {}]]
           /\ rows' = rows \cup {<<s, StartOf(s)>>}
  <2> DEFINE row == [first |-> IntervalOf(s).start, bits |-> {}]
  <2>1. PICK u \in Users : u = UserOf[s]
    BY <1>1
  <2>2. Cohort(row) = StartOf(s) /\ row.bits = {} /\ row # None
    <3>1. row \in Row
      BY DaysType DEF Row
    <3> QED
      BY <3>1, NoneAssumption, DaysType DEF Cohort
  <2>3. spine' = [spine EXCEPT ![u] = row] /\ spine[u] = None
    BY <1>3, <2>1
  <2> HIDE DEF row
  <2>4. PICK off : off = d - c
    OBVIOUS
  <2>5. /\ Seen(c, d)' = Seen(c, d) /\ Cardinality(Seen(c, d)) \in Nat
        /\ Cardinality(Seen(c, d)) + Cardinality(LackingAt(c, off)) <= Cardinality(Born(c))
        /\ Cardinality(Born(c)) \in Nat /\ Cardinality(LackingAt(c, off)) \in Nat
        /\ IsFiniteSet(LackingAt(c, off)) /\ IsFiniteSet(Born(c))
    BY <1>1, <2>4, Finite, LackingAtFinite DEF Seen, Scarce
  <2>6. Cardinality(Seen(c, d)') + Cardinality(LackingAt(c, off)') <= Cardinality(Born(c)')
    <3>2. CASE c = StartOf(s)
      <4>1. LackingAt(c, off)' = LackingAt(c, off) \cup {u} /\ u \notin LackingAt(c, off)
        BY <1>1, <2>2, <2>3, <3>2 DEF LackingAt
      <4>2. Born(c)' = Born(c) \cup {<<s, c>>}
        BY <1>3, <3>2 DEF Born
      <4>3. <<s, c>> \notin Born(c)
        BY <1>1 DEF Born, Base, History
      <4>4. Cardinality(LackingAt(c, off)') = Cardinality(LackingAt(c, off)) + 1
        BY <2>5, <4>1, FS_AddElement
      <4>5. Cardinality(Born(c)') = Cardinality(Born(c)) + 1
        BY <2>5, <4>2, <4>3, FS_AddElement
      <4> QED
        BY <2>5, <4>4, <4>5
    <3>3. CASE c # StartOf(s)
      <4>1. LackingAt(c, off)' = LackingAt(c, off)
        BY <1>1, <2>2, <2>3, <3>3 DEF LackingAt
      <4>2. Born(c)' = Born(c)
        BY <1>3, <3>3 DEF Born
      <4> QED
        BY <2>5, <4>1, <4>2
    <3> QED
      BY <3>2, <3>3
  <2> QED
    BY <2>4, <2>6 DEF Scarce
<1> QED
  BY <1>2, <1>3, SeedDoes

LEMMA ScarceSetBit ==
    ASSUME Base, AtBit, NEW s \in Sessions, SetBit(s), NEW c \in Days, NEW d \in Days, Scarce(c, d)
    PROVE  Scarce(c, d)'
<1>1. PICK u \in Users, h \in Days, off \in 0 .. (Span - 1) :
         u = UserOf[s] /\ h = token[s].cohort /\ off = StartOf(s) - token[s].cohort
  BY SetBitDoes
<1>2. /\ spine \in [Users -> Row \cup {None}] /\ pc[s] = "bit" /\ UNCHANGED rows
  BY SetBitDoes DEF Base, TypeOK
<1>3. spine[u] \in Row /\ spine[u] # None /\ Cohort(spine[u]) = h
  BY <1>1, <1>2 DEF AtBit
<1>4. PICK n \in Int : n = d - c
  <2>1. d \in Int /\ c \in Int
    BY DaysType
  <2> QED
    BY <2>1
<1>5. /\ Cardinality(Seen(c, d)) + Cardinality(LackingAt(c, n)) <= Cardinality(Born(c))
      /\ Born(c)' = Born(c)
      /\ Cardinality(Born(c)) \in Nat /\ Cardinality(LackingAt(c, n)) \in Nat
      /\ Cardinality(Seen(c, d)) \in Nat /\ IsFiniteSet(Seen(c, d)) /\ IsFiniteSet(LackingAt(c, n))
  BY <1>2, <1>4, Finite, LackingAtFinite DEF Scarce, Born
<1>7. CASE UNCHANGED <<spine, marks>>
  BY <1>2, <1>7 DEF Scarce, LackingAt, Seen, Born
<1>8. CASE /\ off \notin spine[u].bits
           /\ spine' = [spine EXCEPT ![u].bits = @ \cup {off}]
           /\ marks' = marks \cup {<<s, h, off>>}
  <2> DEFINE row == [spine[u] EXCEPT !.bits = @ \cup {off}]
  <2>1. row \in Row /\ row # None /\ Cohort(row) = h /\ row.bits = spine[u].bits \cup {off}
    <3>1. row \in Row /\ row.first = spine[u].first /\ row.bits = spine[u].bits \cup {off}
      BY <1>3 DEF Row
    <3> QED
      BY <1>3, <3>1, NoneAssumption DEF Cohort
  <2>2. spine' = [spine EXCEPT ![u] = row]
    BY <1>8
  <2> HIDE DEF row
  <2>3. Cardinality(Seen(c, d)') + Cardinality(LackingAt(c, n)') <= Cardinality(Born(c)')
    <3>1. CASE c = h /\ n = off
      <4>1. LackingAt(c, n)' = LackingAt(c, n) \ {u} /\ u \in LackingAt(c, n)
        BY <1>2, <1>3, <1>8, <2>1, <2>2, <3>1 DEF LackingAt
      <4>2. Seen(c, d)' = Seen(c, d) \cup {<<s, c, off>>}
        BY <1>4, <1>8, <3>1 DEF Seen
      <4>3. <<s, c, off>> \notin Seen(c, d)
        BY <1>2, <3>1 DEF Seen, Base, History
      <4>4. Cardinality(LackingAt(c, n)') = Cardinality(LackingAt(c, n)) - 1
        BY <1>5, <4>1, FS_RemoveElement
      <4>5. Cardinality(Seen(c, d)') = Cardinality(Seen(c, d)) + 1
        <5> DEFINE old == Seen(c, d)
        <5>1. IsFiniteSet(old) /\ <<s, c, off>> \notin old
          BY <1>5, <4>3
        <5> HIDE DEF old
        <5>2. Cardinality(old \cup {<<s, c, off>>}) = Cardinality(old) + 1
          BY <5>1, FS_AddElement
        <5> QED
          BY <4>2, <5>2 DEF old
      <4> QED
        BY <1>5, <4>4, <4>5
    <3>2. CASE ~(c = h /\ n = off)
      <4>1. LackingAt(c, n)' = LackingAt(c, n)
        BY <1>2, <1>3, <1>8, <2>1, <2>2, <3>2 DEF LackingAt
      <4>2. Seen(c, d)' = Seen(c, d)
        BY <1>4, <1>8, <3>2 DEF Seen
      <4> QED
        BY <1>5, <4>1, <4>2
    <3> QED
      BY <3>1, <3>2
  <2> QED
    BY <1>4, <2>3 DEF Scarce
<1> QED
  BY <1>1, <1>3, <1>7, <1>8 DEF SetBit

LEMMA ScarceNext == Base /\ SpineInv /\ ScarceInv /\ [Next]_vars => ScarceInv'
<1> SUFFICES ASSUME Base, SpineInv, ScarceInv, [Next]_vars, upset' = {}, NEW c \in Days, NEW d \in Days
             PROVE  Scarce(c, d)'
  BY DEF ScarceInv
<1>1. ASSUME UNCHANGED <<rows, marks>>, upset = {}, \A u \in Users : spine'[u] = None \/ spine'[u] = spine[u]
      PROVE  Scarce(c, d)'
  <2>1. PICK n : n = d - c
    OBVIOUS
  <2>2. /\ Cardinality(Seen(c, d)) + Cardinality(LackingAt(c, n)) <= Cardinality(Born(c))
        /\ Seen(c, d)' = Seen(c, d) /\ Born(c)' = Born(c)
        /\ Cardinality(Seen(c, d)) \in Nat /\ Cardinality(Born(c)) \in Nat
        /\ Cardinality(LackingAt(c, n)) \in Nat /\ IsFiniteSet(LackingAt(c, n))
    BY <1>1, <2>1, Finite, LackingAtFinite DEF ScarceInv, Scarce, Seen, Born
  <2>3. LackingAt(c, n)' \subseteq LackingAt(c, n)
    BY <1>1 DEF LackingAt
  <2>4. Cardinality(LackingAt(c, n)') <= Cardinality(LackingAt(c, n)) /\ Cardinality(LackingAt(c, n)') \in Nat
    BY <2>2, <2>3, FS_Subset, FS_CardinalityType
  <2> QED
    BY <2>1, <2>2, <2>4 DEF Scarce
<1>2. ASSUME NEW s \in Sessions, Handle(s) PROVE Scarce(c, d)'
  <2>1. upset = {} /\ ~Fail(s)
    BY <1>2, HandleFrame
  <2>2. Scarce(c, d) /\ AtBit
    BY <2>1 DEF ScarceInv, SpineInv
  <2>3. CASE Seed(s)
    BY <2>2, <2>3, ScarceSeed
  <2>4. CASE SetBit(s)
    BY <2>2, <2>4, ScarceSetBit
  <2>5. CASE Receive(s) \/ Reread(s) \/ \E step : FoldStep(s, step)
    <3>1. UNCHANGED <<spine, rows, marks>>
      BY <2>5, ReceiveDoes, RereadDoes, FoldDoes
    <3> QED
      BY <1>1, <2>1, <3>1
  <2> QED
    BY <1>2, <2>1, <2>3, <2>4, <2>5
    DEF Handle, FoldStart, FoldEnd, FoldActive, FoldNewUser, FoldReturn
<1>3. ASSUME NEW u \in Users, Erase(u) PROVE Scarce(c, d)'
  <2>1. UNCHANGED <<rows, marks>> /\ upset = {}
    BY <1>3, EraseDoes DEF Base
  <2>2. \A v \in Users : spine'[v] = None \/ spine'[v] = spine[v]
    BY <1>3, EraseDoes DEF Base, TypeOK
  <2> QED
    BY <1>1, <2>1, <2>2
<1>4. CASE Sweep \/ LoseRedis \/ RescanRead \/ RescanWrite \/ Tick \/ UNCHANGED vars
  <2>1. ~LoseRedis
    BY DEF LoseRedis
  <2>2. UNCHANGED <<spine, rows, marks, upset>>
    BY <1>4, <2>1 DEF Sweep, RescanRead, RescanWrite, Tick, vars, handlers, bounds
  <2> QED
    BY <1>1, <2>2
<1> QED
  BY <1>2, <1>3, <1>4 DEF Next

LEMMA ScarceInit == Init => ScarceInv
<1> SUFFICES ASSUME Init, NEW c \in Days, NEW d \in Days PROVE Scarce(c, d)
  BY DEF ScarceInv
<1>1. Seen(c, d) = {} /\ Born(c) = {} /\ LackingAt(c, d - c) = {}
  BY DEF Init, Seen, Born, LackingAt
<1>2. Cardinality({}) = 0
  BY FS_EmptySet
<1> QED
  BY <1>1, <1>2 DEF Scarce

-----------------------------------------------------------------------------
(* The pages: a user's first day *)

Coming(s, u, d) ==
    /\ UserOf[s] = u /\ StartOf(s) = d
    /\ pc[s] = "bit" \/ "act" \in todo[s] \/ Shown(u, d)

\* A handler takes nobody off a day.
LEMMA ShownStays ==
    ASSUME Base, NEW s \in Sessions, Handle(s), ~Fail(s), NEW d \in Days, NEW u \in Users, Shown(u, d)
    PROVE  Shown(u, d)'
<1>1. UNCHANGED stored
  BY HandleFrame
<1>2. CASE ~FoldActive(s)
  <2>1. UNCHANGED act /\ (<<"act", d>> \in dirty' <=> <<"act", d>> \in dirty)
    BY <1>2, MarkedDoes
  <2> QED
    BY <1>1, <2>1 DEF Shown
<1>3. CASE FoldActive(s)
  <2>1. /\ act'[StartOf(s)] = Filled(act[StartOf(s)], stored.act[StartOf(s)]) \cup {UserOf[s]}
        /\ act'[StartOf(s)] # None
        /\ \A e \in Days : e # StartOf(s) => act'[e] = act[e]
        /\ dirty' = dirty \cup {<<"act", StartOf(s)>>}
    BY <1>3, ActiveDoes
  <2>2. CASE d # StartOf(s)
    BY <1>1, <2>1, <2>2 DEF Shown
  <2>3. CASE d = StartOf(s)
    BY <1>1, <2>1, <2>3 DEF Shown, Filled
  <2> QED
    BY <2>2, <2>3
<1> QED
  BY <1>2, <1>3

\* A handler on its way to a user's first day stays so until the day lists the user.
LEMMA ComingStays ==
    ASSUME Base, NEW s \in Sessions, Handle(s), ~Fail(s), NEW d \in Days, NEW u \in Users,
           NEW r \in Sessions, Coming(r, u, d)
    PROVE  Coming(r, u, d)'
<1>1. pc \in [Sessions -> Steps] /\ todo \in [Sessions -> SUBSET DOMAIN Rank]
  BY DEF Base, TypeOK, Steps
<1>2. UserOf[r] = u /\ StartOf(r) = d
  BY DEF Coming
<1>3. CASE Shown(u, d)
  BY <1>2, <1>3, ShownStays DEF Coming
<1>4. CASE r # s
  <2>1. pc'[r] = pc[r] /\ todo'[r] = todo[r]
    BY <1>4, HandleFrame
  <2> QED
    BY <1>2, <1>3, <2>1, ShownStays DEF Coming
<1>5. CASE r = s /\ pc[s] = "bit"
  <2>1. SetBit(s)
    BY <1>5, FoldDoes
    DEF Handle, Receive, Seed, Reread, FoldStart, FoldEnd, FoldActive, FoldNewUser, FoldReturn
  <2>2. PICK found : todo' = [todo EXCEPT ![s] = Plan(s, found)]
    BY <2>1 DEF SetBit, Fold
  <2>3. "act" \in Plan(s, found)
    BY <1>2, <1>5, SpineAssumption DEF Plan
  <2>4. "act" \in todo'[s]
    BY <1>1, <2>2, <2>3
  <2> QED
    BY <1>2, <1>5, <2>4 DEF Coming
<1>6. CASE r = s /\ "act" \in todo[s]
  <2>0. pc[s] = "fold"
    BY <1>6 DEF Base, TodoAtFold
  <2>1. CASE FoldActive(s)
    <3>1. Shown(u, d)'
      BY <1>2, <1>6, <2>1, ActiveDoes DEF Shown
    <3> QED
      BY <1>2, <1>6, <3>1 DEF Coming
  <2>2. CASE ~FoldActive(s)
    <3>1. PICK step : FoldStep(s, step) /\ step # "act"
      BY <2>0, <2>2
      DEF Handle, Receive, Seed, Reread, SetBit, FoldStart, FoldEnd, FoldNewUser, FoldReturn
    <3>2. "act" \in todo'[s]
      BY <1>1, <1>6, <3>1, FoldDoes
    <3> QED
      BY <1>2, <1>6, <3>2 DEF Coming
  <2> QED
    BY <2>1, <2>2
<1> QED
  BY <1>3, <1>4, <1>5, <1>6 DEF Coming

\* The row of a user keeps its cohort under a handler, and a row that is new starts
\* the cohort of its session.
LEMMA RowsKeep ==
    ASSUME Base, NEW s \in Sessions, Handle(s), ~Fail(s), NEW u \in Users, spine'[u] # None
    PROVE  \/ spine[u] # None /\ Cohort(spine'[u]) = Cohort(spine[u])
           \/ UserOf[s] = u /\ StartOf(s) = Cohort(spine'[u]) /\ pc'[s] = "bit"
<1>0. pc \in [Sessions -> Steps] /\ spine \in [Users -> Row \cup {None}]
  BY DEF Base, TypeOK, Steps
<1>1. CASE UNCHANGED spine
  BY <1>1
<1>2. CASE Seed(s) /\ spine' # spine
  <2>1. /\ spine' = [spine EXCEPT ![UserOf[s]] = [first |-> IntervalOf(s).start, bits |-> {}]]
        /\ pc' = [pc EXCEPT ![s] = "bit"] /\ UserOf[s] \in Users
    BY <1>2, SeedDoes
  <2>2. CASE u = UserOf[s]
    <3>1. Cohort(spine'[u]) = LogicalDay(IntervalOf(s).start)
      BY <1>0, <2>1, <2>2 DEF Cohort
    <3>2. pc'[s] = "bit"
      BY <1>0, <2>1
    <3> QED
      BY <2>2, <3>1, <3>2, DaysType DEF StartOf, StartDay
  <2>3. CASE u # UserOf[s]
    BY <1>0, <2>1, <2>3
  <2> QED
    BY <2>2, <2>3
<1>3. CASE SetBit(s) /\ spine' # spine
  <2>0. PICK v \in Users, off \in 0 .. (Span - 1) :
           v = UserOf[s] /\ off = StartOf(s) - token[s].cohort
    BY <1>3, SetBitDoes
  <2>1. spine[v] # None /\ spine' = [spine EXCEPT ![v].bits = @ \cup {off}]
    BY <1>3, <2>0 DEF SetBit
  <2>2. spine[v] \in Row
    BY <1>0, <2>1
  <2>3. CASE u = v
    <3>1. spine'[u].first = spine[u].first
      BY <1>0, <2>1, <2>2, <2>3 DEF Row
    <3> QED
      BY <2>1, <2>3, <3>1 DEF Cohort
  <2>4. CASE u # v
    BY <1>0, <2>1, <2>4
  <2> QED
    BY <2>3, <2>4
<1>4. CASE Receive(s) \/ Reread(s) \/ \E step : FoldStep(s, step)
  <2>1. UNCHANGED spine
    BY <1>4, ReceiveDoes, RereadDoes, FoldDoes
  <2> QED
    BY <1>1, <2>1
<1> QED
  BY <1>1, <1>2, <1>3, <1>4 DEF Handle, FoldStart, FoldEnd, FoldActive, FoldNewUser, FoldReturn

LEMMA NewHandle ==
    ASSUME Base, NewInv, NEW s \in Sessions, Handle(s)
    PROVE  NewInv'
<1> SUFFICES ASSUME upset' = {}, NEW u \in Users, spine'[u] # None
             PROVE  \E d \in Days, r \in Sessions : d = Cohort(spine'[u]) /\ Coming(r, u, d)'
  BY DEF NewInv, Coming
<1>0. upset = {} /\ ~Fail(s)
  BY HandleFrame
<1>1. CASE UserOf[s] = u /\ StartOf(s) = Cohort(spine'[u]) /\ pc'[s] = "bit"
  BY <1>1, DaysType DEF Coming
<1>2. CASE spine[u] # None /\ Cohort(spine'[u]) = Cohort(spine[u])
  <2>1. PICK d \in Days : d = Cohort(spine[u])
    BY <1>2 DEF Base, CohortsAreDays
  <2>2. PICK r \in Sessions : Coming(r, u, d)
    BY <1>0, <1>2, <2>1 DEF NewInv, Coming
  <2>3. Coming(r, u, d)'
    BY <1>0, <2>2, ComingStays
  <2> QED
    BY <1>2, <2>1, <2>3
<1> QED
  BY <1>0, <1>1, <1>2, RowsKeep

LEMMA NewNext == Base /\ NewInv /\ [Next]_vars => NewInv'
<1> SUFFICES ASSUME Base, NewInv, [Next]_vars PROVE NewInv'
  OBVIOUS
<1>0. TypeOK
  BY DEF Base
<1>1. CASE \E s \in Sessions : Handle(s)
  BY <1>1, NewHandle
<1>2. ASSUME UNCHANGED <<pc, todo>>, upset' = {} => upset = {},
             ASSUME upset = {}, NEW u \in Users, spine'[u] # None
             PROVE  /\ spine[u] # None /\ spine'[u] = spine[u]
                    /\ \A d \in Days : Shown(u, d) => Shown(u, d)'
      PROVE  NewInv'
  <2> SUFFICES ASSUME upset' = {}, NEW u \in Users, spine'[u] # None
               PROVE  \E d \in Days, r \in Sessions : d = Cohort(spine'[u]) /\ Coming(r, u, d)'
    BY DEF NewInv, Coming
  <2>1. upset = {} /\ spine[u] # None /\ spine'[u] = spine[u]
    BY <1>2
  <2>2. PICK d \in Days : d = Cohort(spine[u])
    BY <2>1 DEF Base, CohortsAreDays
  <2>3. PICK r \in Sessions : Coming(r, u, d)
    BY <2>1, <2>2 DEF NewInv, Coming
  <2>4. Shown(u, d) => Shown(u, d)'
    BY <1>2, <2>1
  <2>5. Coming(r, u, d)'
    BY <1>2, <2>3, <2>4 DEF Coming
  <2> QED
    BY <2>1, <2>2, <2>5
<1>3. ASSUME NEW v \in Users, Erase(v) PROVE NewInv'
  <2>1. UNCHANGED <<pc, todo, dirty>> /\ (upset' = {} => upset = {})
    BY <1>0, <1>3, EraseDoes
  <2>2. UNCHANGED act
    BY <1>0, <1>3, EraseLists
  <2>3. ASSUME NEW u \in Users, spine'[u] # None
        PROVE  /\ spine[u] # None /\ spine'[u] = spine[u]
               /\ \A d \in Days : Shown(u, d) => Shown(u, d)'
    <3>1. spine[u] # None /\ spine'[u] = spine[u]
      BY <1>0, <1>3, <2>3, EraseDoes DEF TypeOK
    <3>2. \A d \in Days : u \in stored'.act[d] <=> u \in stored.act[d]
      BY <1>0, <1>3, <2>3, EraseLists
    <3> QED
      BY <2>1, <2>2, <3>1, <3>2 DEF Shown
  <2> QED
    BY <1>2, <2>1, <2>3
<1>4. CASE Sweep
  <2>1. UNCHANGED <<pc, todo, act, upset, spine>>
    BY <1>4 DEF Sweep, handlers, bounds
  <2>2. ASSUME NEW d \in Days, NEW u PROVE Shown(u, d) => Shown(u, d)'
    <3>1. stored'.act[d] = IF <<"act", d>> \in dirty /\ act[d] # None
                           THEN stored.act[d] \cup act[d] ELSE stored.act[d]
      BY <1>0, <1>4, SweptLists
    <3> QED
      BY <3>1 DEF Shown
  <2> QED
    BY <1>2, <2>1, <2>2
<1>5. CASE LoseRedis
  <2>1. upset' # {}
    BY <1>5 DEF LoseRedis
  <2> QED
    BY <2>1 DEF NewInv
<1>6. CASE RescanWrite
  <2>1. UNCHANGED <<pc, todo, act, upset, dirty, spine>>
    BY <1>6 DEF RescanWrite, handlers, buckets, bounds
  <2>2. ASSUME NEW d \in Days, NEW u PROVE Shown(u, d) => Shown(u, d)'
    <3>1. stored'.act[d] = stored.act[d] \cup Projection(scan).act[d]
      BY <1>0, <1>6 DEF RescanWrite, TypeOK
    <3> QED
      BY <2>1, <3>1 DEF Shown
  <2> QED
    BY <1>2, <2>1, <2>2
<1>7. CASE RescanRead \/ Tick \/ UNCHANGED vars
  <2>1. UNCHANGED <<pc, todo, act, upset, dirty, stored, spine>>
    BY <1>7 DEF RescanRead, Tick, vars, handlers, buckets, bounds
  <2>2. ASSUME NEW d \in Days, NEW u PROVE Shown(u, d)' <=> Shown(u, d)
    BY <2>1 DEF Shown
  <2> QED
    BY <1>2, <2>1, <2>2
<1> QED
  BY <1>1, <1>3, <1>4, <1>5, <1>6, <1>7 DEF Next

LEMMA NewInit == Init => NewInv
  BY DEF Init, NewInv

-----------------------------------------------------------------------------
(* The pages: what they read *)

\* The sessions that are done and have their time, or a part of it, on a day.
Touching(d) == {s \in Counted : d \in {StartOf(s)} \cup EndsOf(s)}

\* What a session that is done has added to a day it touches is its share of it.
LEMMA WholeShare ==
    ASSUME NEW s \in Sessions, NEW d \in Days, d = StartOf(s) \/ d \in EndsOf(s),
           Started(s), Ended(s) <=> EndsOf(s) # {}
    PROVE  TimeOn(s, d) = DurOnDay(IntervalOf(s), d) /\ TimeOn(s, d) \in Nat
<1>1. /\ DurOnDay(IntervalOf(s), StartOf(s)) \in Nat /\ DurOnDay(IntervalOf(s), EndOf(s)) \in Nat
      /\ EndsOf(s) \subseteq {EndOf(s)} /\ StartOf(s) \notin EndsOf(s)
      /\ EndsOf(s) # {} => EndOf(s) # StartOf(s)
  BY ShareType DEF EndOf, StartOf, EndsOf, EndDays
<1>2. CASE d = StartOf(s)
  <2>1. ~(Ended(s) /\ EndOf(s) = d)
    BY <1>1, <1>2
  <2> QED
    BY <1>1, <1>2, <2>1 DEF TimeOn, If
<1>3. CASE d \in EndsOf(s)
  <2>1. d = EndOf(s) /\ d # StartOf(s) /\ Ended(s)
    BY <1>1, <1>3
  <2> QED
    BY <1>1, <2>1 DEF TimeOn, If
<1> QED
  BY <1>2, <1>3

PartFold(f, S, d) ==
    f = [T \in SUBSET S |->
           IF T = {} THEN 0
           ELSE DurOnDay(IntervalOf(CHOOSE s \in T : TRUE), d) + f[T \ {CHOOSE s \in T : TRUE}]]

LEMMA PartsAreFold ==
    ASSUME NEW S, NEW d, \E f : PartFold(f, S, d)
    PROVE  \E f : PartFold(f, S, d) /\ MapThenSumSet(LAMBDA s : DurOnDay(IntervalOf(s), d), S) = f[S]
<1>1. \E f : /\ MapThenSumSet(LAMBDA s : DurOnDay(IntervalOf(s), d), S) = f[S]
             /\ f = CHOOSE g : PartFold(g, S, d)
  BY DEF MapThenSumSet, MapThenFoldSet, PartFold
<1> QED
  BY <1>1

LEMMA PartsAreSum ==
    ASSUME NEW S, IsFiniteSet(S), NEW d, NEW w,
           \A s \in S : w[s] = DurOnDay(IntervalOf(s), d) /\ w[s] \in Nat
    PROVE  MapThenSumSet(LAMBDA s : DurOnDay(IntervalOf(s), d), S) = SumOf(w, S)
<1> DEFINE v == [T \in SUBSET S |-> DurOnDay(IntervalOf(CHOOSE s \in T : TRUE), d)]
<1>1. \A T \in SUBSET S : T # {} => v[T] = w[CHOOSE s \in T : TRUE]
  OBVIOUS
<1>2. \A f : PartFold(f, S, d) <=> RecFold(f, v, S)
  BY DEF PartFold, RecFold
<1> HIDE DEF v
<1>3. (\E f : RecFold(f, v, S)) /\ \A f : RecFold(f, v, S) => f[S] = SumOf(w, S)
  BY <1>1, RecIsSum
<1>4. PICK f : /\ PartFold(f, S, d)
               /\ MapThenSumSet(LAMBDA s : DurOnDay(IntervalOf(s), d), S) = f[S]
  BY <1>2, <1>3, PartsAreFold
<1> QED
  BY <1>2, <1>3, <1>4

\* With the handlers through, what the sessions have added to a day is the count
\* of those that started on it, and their time there.
LEMMA QuietDay ==
    ASSUME TypeOK, Quiet, NEW d \in Days
    PROVE  /\ SumOf([s \in Sessions |-> CountsOn(s, d)], Sessions)
                = Cardinality({s \in Counted : StartOf(s) = d})
           /\ SumOf([s \in Sessions |-> TimeOn(s, d)], Sessions)
                = MapThenSumSet(LAMBDA s : DurOnDay(IntervalOf(s), d), Touching(d))
<1> DEFINE mine == {s \in Counted : StartOf(s) = d}
           counts == [s \in Sessions |-> CountsOn(s, d)]
           times == [s \in Sessions |-> TimeOn(s, d)]
<1>1. \A s \in Sessions : /\ Started(s) <=> s \in Counted
                          /\ Ended(s) <=> s \in Counted /\ EndsOf(s) # {}
  BY DEF Quiet, Started, Ended, Counted
<1>2. Counted \subseteq Sessions /\ IsFiniteSet(Counted) /\ mine \subseteq Counted /\ IsFiniteSet(mine)
  <2>1. Counted \subseteq Sessions /\ mine \subseteq Counted
    BY DEF Counted
  <2> QED
    BY <2>1, SpineAssumption, FS_Subset
<1>3. SumOf(counts, Sessions) = Cardinality(mine)
  <2>1. \A s \in Sessions : counts[s] = IF s \in mine THEN 1 ELSE 0
    BY <1>1 DEF CountsOn, If
  <2> HIDE DEF counts, mine
  <2>2. \A s \in Sessions : 1 .. counts[s] = {n \in {1} : s \in mine}
    BY <2>1
  <2>3. Units(counts, Sessions) = UNION {{s} \X {n \in {1} : s \in mine} : s \in Sessions}
    BY <2>2 DEF Units
  <2>4. Units(counts, Sessions) = mine \X {1}
    BY <1>2, <2>3
  <2> QED
    BY <1>2, <2>4, OnesCount DEF SumOf
<1>4. SumOf(times, Sessions) = MapThenSumSet(LAMBDA s : DurOnDay(IntervalOf(s), d), Touching(d))
  <2>0. Touching(d) \subseteq Sessions /\ IsFiniteSet(Touching(d))
    <3>1. Touching(d) \subseteq Counted
      BY DEF Touching
    <3> QED
      BY <1>2, <3>1, FS_Subset
  <2>1. ASSUME NEW s \in Touching(d) PROVE times[s] = DurOnDay(IntervalOf(s), d) /\ times[s] \in Nat
    <3>1. /\ s \in Sessions /\ Started(s) /\ (Ended(s) <=> EndsOf(s) # {})
          /\ d = StartOf(s) \/ d \in EndsOf(s)
      BY <1>1, <2>0 DEF Touching
    <3> QED
      BY <3>1, WholeShare
  <2>2. ASSUME NEW s \in Sessions \ Touching(d) PROVE times[s] = 0
    <3>1. CASE s \in Counted
      <4>1. d # StartOf(s) /\ d \notin EndsOf(s) /\ EndsOf(s) \subseteq {EndOf(s)}
        BY <2>2, <3>1, ShareType DEF Touching
      <4>2. ~(Ended(s) /\ EndOf(s) = d)
        BY <1>1, <4>1
      <4> QED
        BY <2>2, <4>1, <4>2 DEF TimeOn, If
    <3>2. CASE s \notin Counted
      BY <1>1, <2>2, <3>2 DEF TimeOn, If
    <3> QED
      BY <3>1, <3>2
  <2> HIDE DEF times
  <2>3. \A s \in Sessions \ Touching(d) : 1 .. times[s] = {}
    BY <2>2
  <2>4. Units(times, Sessions) = Units(times, Touching(d))
    BY <2>0, <2>3 DEF Units
  <2>5. MapThenSumSet(LAMBDA s : DurOnDay(IntervalOf(s), d), Touching(d)) = SumOf(times, Touching(d))
    BY <2>0, <2>1, PartsAreSum
  <2> QED
    BY <2>4, <2>5 DEF SumOf
<1> QED
  BY <1>3, <1>4

LEMMA TodayType == ASSUME TypeOK PROVE Today \in Int
  BY DayHolds DEF TypeOK, Today

\* Of a day that is not over, or whose bucket is flushed, the session page shows
\* what counts.
LEMMA SessionDayIs ==
    ASSUME Base, AddInv, upset = {}, NEW d \in Days, Current("sess", d)
    PROVE  SessionDay(d) = Told(d)
<1>1. CASE sess[d] # None
  <2>1. sess[d] \in TimeCell /\ stored.sess[d] \in TimeCell /\ Below(stored.sess[d], sess[d])
    BY <1>1 DEF Base, TypeOK, AddInv
  <2>2. LaterTime(stored.sess[d], sess[d]) = sess[d]
    BY <2>1, MergeBelow DEF LaterTime
  <2>3. ~Live(d) => stored.sess[d] = sess[d]
    BY <1>1 DEF Current, Live, AddInv
  <2> QED
    BY <1>1, <2>2, <2>3 DEF SessionDay, Told, Filled
<1>2. CASE sess[d] = None
  BY <1>2 DEF SessionDay, Told, Filled
<1> QED
  BY <1>1, <1>2

LEMMA SessionsOnPage ==
    ASSUME Base, AddInv, PerDayInv, upset = {}, Quiet, NEW d \in Days, Current("sess", d)
    PROVE  /\ SessionDay(d).count = Cardinality({s \in Counted : StartOf(s) = d})
           /\ SessionDay(d).dur = MapThenSumSet(LAMBDA s : DurOnDay(IntervalOf(s), d), Touching(d))
<1>1. DayBalance(d) /\ TypeOK
  BY DEF PerDayInv, Base
<1>2. SessionDay(d) = Told(d)
  BY SessionDayIs
<1>3. /\ SessionDay(d).count = SumOf([s \in Sessions |-> CountsOn(s, d)], Sessions)
      /\ SessionDay(d).dur = SumOf([s \in Sessions |-> TimeOn(s, d)], Sessions)
  BY <1>1, <1>2 DEF DayBalance
<1>4. SumOf([s \in Sessions |-> CountsOn(s, d)], Sessions) = Cardinality({s \in Counted : StartOf(s) = d})
  BY <1>1, QuietDay
<1>5. SumOf([s \in Sessions |-> TimeOn(s, d)], Sessions)
        = MapThenSumSet(LAMBDA s : DurOnDay(IntervalOf(s), d), Touching(d))
  BY <1>1, QuietDay
<1> QED
  BY <1>3, <1>4, <1>5

\* Of those who did not ask to be erased, the page of active users lists who came.
LEMMA MembersOnPage ==
    ASSUME Base, ActInv, QuietRescan, upset = {}, Quiet, NEW d \in Days, Current("act", d)
    PROVE  Members(d) \cap Present = {UserOf[s] : s \in {q \in Counted : StartOf(q) = d}} \cap Present
<1>1. ASSUME NEW u \in Present
      PROVE  u \in Members(d) <=> u \in {UserOf[s] : s \in {q \in Counted : StartOf(q) = d}}
  <2>1. Came(u, d) <=> u \in {UserOf[s] : s \in {q \in Counted : StartOf(q) = d}}
    BY DEF Came, Marked, Quiet, Counted
  <2>2. u \in Members(d) => Came(u, d)
    BY DEF ActInv, Members
  <2>3. Came(u, d) => u \in Members(d)
    BY DEF ActInv, Shown, Members, Current, Live
  <2> QED
    BY <2>1, <2>2, <2>3
<1> QED
  BY <1>1

\* The users new on a day are the cohort of the day.
LEMMA NewOnPage ==
    ASSUME Base, NewInv, upset = {}, Quiet, NEW d \in Days, Current("act", d), d <= Today
    PROVE  NewAmong(d) = Cardinality({u \in Users : spine[u] # None /\ Cohort(spine[u]) = d})
<1>1. d \in Int /\ Today \in Int /\ Days \subseteq Int
  BY DaysType, TodayType DEF Base
<1>2. \A e \in Days : d <= e /\ e <= d <=> e = d
  BY <1>1
<1>3. ASSUME NEW u
      PROVE  u \in ActiveMembers(d, d) <=>
                \/ u \in stored.act[d]
                \/ Live(d) /\ d = Today /\ act[d] # None /\ u \in act[d]
  <2> DEFINE days == {e \in Days : d <= e /\ e <= d}
             live == IF Live(d) /\ Today \in days /\ act[Today] # None THEN act[Today] ELSE {}
  <2>1. ActiveMembers(d, d) = (UNION {stored.act[e] : e \in days}) \cup live
    BY DEF ActiveMembers
  <2>2. \A e : e \in days <=> e = d
    BY <1>2
  <2>3. u \in live <=> Live(d) /\ d = Today /\ act[d] # None /\ u \in act[d]
    BY <2>2
  <2> HIDE DEF days, live
  <2> QED
    BY <2>1, <2>2, <2>3
<1>4. stored.act[d] \subseteq Users /\ (act[d] # None => act[d] \subseteq Users)
  BY DEF Base, TypeOK
<1>5. ActiveMembers(d, d) \subseteq Users
  BY <1>3, <1>4
<1>6. ASSUME NEW u \in Users, spine[u] # None, Cohort(spine[u]) = d
      PROVE  u \in ActiveMembers(d, d)
  <2>1. PICK s \in Sessions : pc[s] = "bit" \/ "act" \in todo[s] \/ Shown(u, d)
    BY <1>6 DEF NewInv
  <2>2. Shown(u, d)
    BY <2>1 DEF Quiet, Base, TodoAtFold
  <2>3. <<"act", d>> \in dirty => d = Today /\ Live(d)
    BY <1>1 DEF Current, Live
  <2> QED
    BY <1>3, <2>2, <2>3 DEF Shown
<1>7. {u \in ActiveMembers(d, d) : spine[u] # None /\ Cohort(spine[u]) = d}
        = {u \in Users : spine[u] # None /\ Cohort(spine[u]) = d}
  BY <1>5, <1>6
<1> QED
  BY <1>7 DEF NewAmong

\* The retention page shows no more of a cohort back than the spine recorded, its
\* size as recorded, and of a day that is not over or flushed all of those back.
LEMMA ReturnsOnPage ==
    ASSUME Base, WithinInv, ExactInv, QuietRescan, upset = {}, Quiet, NEW c \in Days, NEW d \in Days
    PROVE  /\ Retained(c, d) \in Nat /\ Retained(c, d) <= Cardinality(Seen(c, d))
           /\ CohortSize(c) = Cardinality(Born(c))
           /\ Current("ret", d) => Retained(c, d) = Cardinality(Seen(c, d))
<1>1. ASSUME NEW e \in Days
      PROVE  /\ stored.ret[e] \in ReturnCell /\ Within(stored.ret[e], e)
             /\ ret[e] # None => ret[e] \in ReturnCell /\ Exact(ret[e], e)
             /\ ret[e] = None \/ <<"ret", e>> \notin dirty => Exact(stored.ret[e], e)
  BY DEF Base, TypeOK, WithinInv, ExactInv, Filled
<1>2. /\ \A e : Grown(e) = Born(e) /\ Cardinality(Born(e)) \in Nat
      /\ \A b, e : Kept(b, e) = Seen(b, e) /\ Cardinality(Seen(b, e)) \in Nat
  BY Finite, QuietOwesNothing
<1>3. CohortSize(c) = Cardinality(Born(c))
  <2>1. /\ stored.ret[c].size \in Nat /\ stored.ret[c].size <= Cardinality(Born(c))
        /\ ret[c] # None => ret[c].size = Cardinality(Born(c))
        /\ ret[c] = None => stored.ret[c].size = Cardinality(Born(c))
    BY <1>1, <1>2 DEF Within, Exact, ReturnCell
  <2> QED
    BY <1>2, <2>1 DEF CohortSize, Larger
<1>4. /\ stored.ret[d].cell[c] \in Nat /\ stored.ret[d].cell[c] <= Cardinality(Seen(c, d))
      /\ ret[d] # None => ret[d].cell[c] = Cardinality(Seen(c, d))
      /\ ret[d] = None \/ <<"ret", d>> \notin dirty => stored.ret[d].cell[c] = Cardinality(Seen(c, d))
  BY <1>1, <1>2 DEF Within, Exact, ReturnCell
<1>5. Retained(c, d) \in Nat /\ Retained(c, d) <= Cardinality(Seen(c, d))
  BY <1>2, <1>4 DEF Retained, Larger
<1>6. Current("ret", d) => Retained(c, d) = Cardinality(Seen(c, d))
  BY <1>2, <1>4 DEF Retained, Larger, Current, Live
<1> QED
  BY <1>3, <1>5, <1>6

\* The sums of the pages, as the recursions the reads come to.
WindowFold(f, S) ==
    f = [T \in SUBSET S |->
           IF T = {} THEN 0 ELSE SessionDay(CHOOSE d \in T : TRUE).count + f[T \ {CHOOSE d \in T : TRUE}]]

SizesFold(f, S) ==
    f = [T \in SUBSET S |->
           IF T = {} THEN 0 ELSE CohortSize(CHOOSE c \in T : TRUE) + f[T \ {CHOOSE c \in T : TRUE}]]

BackOn(c, offset) == IF c + offset \in Days THEN Retained(c, c + offset) ELSE 0
BacksFold(f, S, offset) ==
    f = [T \in SUBSET S |->
           IF T = {} THEN 0 ELSE BackOn(CHOOSE c \in T : TRUE, offset) + f[T \ {CHOOSE c \in T : TRUE}]]

LEMMA WindowIsFold ==
    ASSUME NEW S, \E f : WindowFold(f, S)
    PROVE  \E f : WindowFold(f, S) /\ MapThenSumSet(LAMBDA d : SessionDay(d).count, S) = f[S]
<1>1. \E f : /\ MapThenSumSet(LAMBDA d : SessionDay(d).count, S) = f[S]
             /\ f = CHOOSE g : WindowFold(g, S)
  BY DEF MapThenSumSet, MapThenFoldSet, WindowFold
<1> QED
  BY <1>1

LEMMA SizesAreFold ==
    ASSUME NEW S, \E f : SizesFold(f, S)
    PROVE  \E f : SizesFold(f, S) /\ MapThenSumSet(CohortSize, S) = f[S]
<1>1. \E f : MapThenSumSet(CohortSize, S) = f[S] /\ f = CHOOSE g : SizesFold(g, S)
  BY DEF MapThenSumSet, MapThenFoldSet, SizesFold
<1> QED
  BY <1>1

LEMMA BacksAreFold ==
    ASSUME NEW S, NEW n, \E f : BacksFold(f, S, n)
    PROVE  \E f : /\ BacksFold(f, S, n)
                  /\ MapThenSumSet(LAMBDA c : IF c + n \in Days THEN Retained(c, c + n) ELSE 0, S) = f[S]
<1>1. \E f : /\ MapThenSumSet(LAMBDA c : IF c + n \in Days THEN Retained(c, c + n) ELSE 0, S) = f[S]
             /\ f = CHOOSE g : BacksFold(g, S, n)
  BY DEF MapThenSumSet, MapThenFoldSet, BacksFold, BackOn
<1> QED
  BY <1>1

LEMMA WindowIsSum ==
    ASSUME NEW S, IsFiniteSet(S), NEW w, \A d \in S : w[d] = SessionDay(d).count /\ w[d] \in Nat
    PROVE  MapThenSumSet(LAMBDA d : SessionDay(d).count, S) = SumOf(w, S)
<1> DEFINE v == [T \in SUBSET S |-> SessionDay(CHOOSE d \in T : TRUE).count]
<1>1. \A T \in SUBSET S : T # {} => v[T] = w[CHOOSE d \in T : TRUE]
  OBVIOUS
<1>2. \A f : WindowFold(f, S) <=> RecFold(f, v, S)
  BY DEF WindowFold, RecFold
<1> HIDE DEF v
<1>3. (\E f : RecFold(f, v, S)) /\ \A f : RecFold(f, v, S) => f[S] = SumOf(w, S)
  BY <1>1, RecIsSum
<1>4. PICK f : WindowFold(f, S) /\ MapThenSumSet(LAMBDA d : SessionDay(d).count, S) = f[S]
  BY <1>2, <1>3, WindowIsFold
<1> QED
  BY <1>2, <1>3, <1>4

LEMMA SizesAreSum ==
    ASSUME NEW S, IsFiniteSet(S), NEW w, \A c \in S : w[c] = CohortSize(c) /\ w[c] \in Nat
    PROVE  MapThenSumSet(CohortSize, S) = SumOf(w, S)
<1> DEFINE v == [T \in SUBSET S |-> CohortSize(CHOOSE c \in T : TRUE)]
<1>1. \A T \in SUBSET S : T # {} => v[T] = w[CHOOSE c \in T : TRUE]
  OBVIOUS
<1>2. \A f : SizesFold(f, S) <=> RecFold(f, v, S)
  BY DEF SizesFold, RecFold
<1> HIDE DEF v
<1>3. (\E f : RecFold(f, v, S)) /\ \A f : RecFold(f, v, S) => f[S] = SumOf(w, S)
  BY <1>1, RecIsSum
<1>4. PICK f : SizesFold(f, S) /\ MapThenSumSet(CohortSize, S) = f[S]
  BY <1>2, <1>3, SizesAreFold
<1> QED
  BY <1>2, <1>3, <1>4

LEMMA BacksAreSum ==
    ASSUME NEW S, IsFiniteSet(S), NEW n, NEW w, \A c \in S : w[c] = BackOn(c, n) /\ w[c] \in Nat
    PROVE  MapThenSumSet(LAMBDA c : IF c + n \in Days THEN Retained(c, c + n) ELSE 0, S) = SumOf(w, S)
<1> DEFINE v == [T \in SUBSET S |-> BackOn(CHOOSE c \in T : TRUE, n)]
<1>1. \A T \in SUBSET S : T # {} => v[T] = w[CHOOSE c \in T : TRUE]
  OBVIOUS
<1>2. \A f : BacksFold(f, S, n) <=> RecFold(f, v, S)
  BY DEF BacksFold, RecFold
<1> HIDE DEF v
<1>3. (\E f : RecFold(f, v, S)) /\ \A f : RecFold(f, v, S) => f[S] = SumOf(w, S)
  BY <1>1, RecIsSum
<1>4. PICK f : /\ BacksFold(f, S, n)
               /\ MapThenSumSet(LAMBDA c : IF c + n \in Days THEN Retained(c, c + n) ELSE 0, S) = f[S]
  BY <1>2, <1>3, BacksAreFold
<1> QED
  BY <1>2, <1>3, <1>4

\* The sizes of the classes of a set add up to the set.
InClasses(A, k, S) == {a \in A : k[a] \in S}
LEMMA ClassesAddUp ==
    ASSUME NEW S, IsFiniteSet(S), NEW A, IsFiniteSet(A), NEW k, NEW w,
           \A x \in S : w[x] = Cardinality(InClasses(A, k, {x}))
    PROVE  SumOf(w, S) = Cardinality(InClasses(A, k, S))
<1> USE DEF InClasses
<1> DEFINE f == [T \in SUBSET S |-> Cardinality({a \in A : k[a] \in T})]
<1>1. \A T : {a \in A : k[a] \in T} \subseteq A
  OBVIOUS
<1>2. \A T : IsFiniteSet({a \in A : k[a] \in T}) /\ Cardinality({a \in A : k[a] \in T}) \in Nat
  BY <1>1, FS_Subset, FS_CardinalityType
<1>3. \A x \in S : w[x] \in Nat
  <2> TAKE x \in S
  <2>1. {a \in A : k[a] = x} = {a \in A : k[a] \in {x}}
    OBVIOUS
  <2> QED
    BY <1>2, <2>1
<1>4. f[{}] = 0
  <2>1. {a \in A : k[a] \in {}} = {}
    OBVIOUS
  <2> QED
    BY <2>1, FS_EmptySet
<1>5. ASSUME NEW T \in SUBSET S, T # {}, NEW x, x = CHOOSE y \in T : TRUE
      PROVE  f[T] = w[x] + f[T \ {x}]
  <2> DEFINE all == {a \in A : k[a] \in T}
             mine == {a \in A : k[a] \in {x}}
             rest == {a \in A : k[a] \in T \ {x}}
  <2>1. x \in T
    BY <1>5
  <2>2. all = mine \cup rest /\ mine \cap rest = {}
    BY <2>1
  <2>3. mine \subseteq A
    OBVIOUS
  <2>4. IsFiniteSet(mine) /\ IsFiniteSet(rest) /\ Cardinality(rest) \in Nat /\ Cardinality(mine) \in Nat
    BY <1>2, <2>3, FS_Subset, FS_CardinalityType
  <2>5. f[T] = Cardinality(all) /\ f[T \ {x}] = Cardinality(rest) /\ w[x] = Cardinality(mine)
    BY <2>1
  <2> HIDE DEF all, mine, rest, f
  <2>6. Cardinality(mine \cup rest) = Cardinality(mine) + Cardinality(rest) - Cardinality(mine \cap rest)
    BY <2>4, FS_Union
  <2>7. Cardinality(mine \cap rest) = 0
    BY <2>2, FS_EmptySet
  <2> QED
    BY <2>2, <2>4, <2>5, <2>6, <2>7
<1>6. f[S] = Cardinality({a \in A : k[a] \in S})
  OBVIOUS
<1> HIDE DEF f
<1>7. IsFold(f, w, S)
  BY <1>4, <1>5 DEF IsFold
<1>8. f[S] = SumOf(w, S)
  BY <1>3, <1>7, FoldIsSum
<1> QED
  BY <1>6, <1>8

LEMMA SumBelow ==
    ASSUME NEW S, IsFiniteSet(S), NEW w, NEW v, \A x \in S : w[x] \in Nat /\ v[x] \in Nat /\ w[x] <= v[x]
    PROVE  SumOf(w, S) <= SumOf(v, S)
<1>1. IsFiniteSet(Units(v, S))
  BY SumType
<1>2. \A x \in S : 1 .. w[x] \subseteq 1 .. v[x]
  OBVIOUS
<1>3. Units(w, S) \subseteq Units(v, S)
  BY <1>2 DEF Units
<1> QED
  BY <1>1, <1>3, FS_Subset DEF SumOf

\* The sessions of a window are those of its days.
LEMMA WindowCounts ==
    ASSUME Base, AddInv, PerDayInv, upset = {}, Quiet, dirty = {}, NEW from \in Days, NEW to \in Days
    PROVE  Window(from, to).sessions = Cardinality({s \in Counted : StartOf(s) \in from .. to})
<1> DEFINE days == {d \in Days : from <= d /\ d <= to}
           w == [d \in Days |-> Cardinality({s \in Counted : StartOf(s) = d})]
           k == [s \in Counted |-> StartOf(s)]
<1>1. Counted \subseteq Sessions /\ IsFiniteSet(Counted)
  <2>1. Counted \subseteq Sessions
    BY DEF Counted
  <2> QED
    BY <2>1, SpineAssumption, FS_Subset
<1>2. days \subseteq Days /\ IsFiniteSet(days)
  <2>1. days \subseteq Days
    OBVIOUS
  <2> QED
    BY <2>1, DaysFinite, FS_Subset
<1>3. \A d \in Days : w[d] = SessionDay(d).count /\ w[d] \in Nat
  <2> TAKE d \in Days
  <2>1. Current("sess", d)
    BY DEF Current
  <2>2. SessionDay(d).count = Cardinality({s \in Counted : StartOf(s) = d})
    BY <2>1, SessionsOnPage
  <2>3. {s \in Counted : StartOf(s) = d} \subseteq Counted
    OBVIOUS
  <2> QED
    BY <1>1, <2>2, <2>3, FS_Subset, FS_CardinalityType
<1>4. Window(from, to).sessions = MapThenSumSet(LAMBDA d : SessionDay(d).count, days)
  BY DEF Window
<1>5. \A x \in days : w[x] = Cardinality(InClasses(Counted, k, {x}))
  <2> TAKE x \in days
  <2>1. {s \in Counted : StartOf(s) = x} = InClasses(Counted, k, {x})
    BY DEF InClasses
  <2> QED
    BY <2>1
<1>6. InClasses(Counted, k, days) = {s \in Counted : StartOf(s) \in from .. to}
  <2>1. from \in Int /\ to \in Int /\ \A s \in Counted : StartOf(s) \in Days /\ StartOf(s) \in Int
    BY <1>1, DaysType
  <2> QED
    BY <2>1 DEF InClasses
<1> HIDE DEF days, w, k
<1>7. MapThenSumSet(LAMBDA d : SessionDay(d).count, days) = SumOf(w, days)
  BY <1>2, <1>3, WindowIsSum
<1>8. SumOf(w, days) = Cardinality(InClasses(Counted, k, days))
  BY <1>1, <1>2, <1>5, ClassesAddUp
<1> QED
  BY <1>4, <1>6, <1>7, <1>8

\* No headline has more users back than its cohorts have.
LEMMA HeadlineHolds ==
    ASSUME Base, WithinInv, ExactInv, ScarceInv, QuietRescan, upset = {}, Quiet, NEW n
    PROVE  Headline(n).retained <= Headline(n).size
<1> DEFINE mature == {c \in KnownCohorts : ~Immature(c, n)}
           sizes == [c \in Days |-> Cardinality(Born(c))]
           backs == [c \in Days |-> BackOn(c, n)]
<1>1. mature \subseteq Days /\ IsFiniteSet(mature)
  <2>1. mature \subseteq Days
    BY DEF KnownCohorts
  <2> QED
    BY <2>1, DaysFinite, FS_Subset
<1>2. ASSUME NEW c \in Days
      PROVE  /\ sizes[c] = CohortSize(c) /\ sizes[c] \in Nat
             /\ backs[c] = BackOn(c, n) /\ backs[c] \in Nat /\ backs[c] <= sizes[c]
  <2>1. CohortSize(c) = Cardinality(Born(c)) /\ Cardinality(Born(c)) \in Nat
    BY ReturnsOnPage, Finite
  <2>2. CASE c + n \in Days
    <3>1. PICK d \in Days : d = c + n
      BY <2>2
    <3>2. Retained(c, d) \in Nat /\ Retained(c, d) <= Cardinality(Seen(c, d))
      BY ReturnsOnPage
    <3>3. Scarce(c, d)
      BY DEF ScarceInv
    <3>4. Cardinality(Seen(c, d)) <= Cardinality(Born(c))
      <4>1. PICK m : m = d - c
        OBVIOUS
      <4>2. Cardinality(Seen(c, d)) \in Nat /\ Cardinality(LackingAt(c, m)) \in Nat
        BY Finite, LackingAtFinite
      <4> QED
        BY <2>1, <3>3, <4>1, <4>2 DEF Scarce
    <3>5. BackOn(c, n) = Retained(c, d)
      BY <3>1 DEF BackOn
    <3>6. Cardinality(Seen(c, d)) \in Nat
      BY Finite
    <3> QED
      BY <2>1, <3>2, <3>4, <3>5, <3>6
  <2>3. CASE c + n \notin Days
    BY <2>1, <2>3 DEF BackOn
  <2> QED
    BY <2>2, <2>3
<1>3. /\ Headline(n).size = MapThenSumSet(CohortSize, mature)
      /\ Headline(n).retained
           = MapThenSumSet(LAMBDA c : IF c + n \in Days THEN Retained(c, c + n) ELSE 0, mature)
  BY DEF Headline
<1> HIDE DEF mature, sizes, backs
<1>4. MapThenSumSet(CohortSize, mature) = SumOf(sizes, mature)
  BY <1>1, <1>2, SizesAreSum
<1>5. MapThenSumSet(LAMBDA c : IF c + n \in Days THEN Retained(c, c + n) ELSE 0, mature) = SumOf(backs, mature)
  BY <1>1, <1>2, BacksAreSum
<1>6. SumOf(backs, mature) <= SumOf(sizes, mature)
  BY <1>1, <1>2, SumBelow
<1> QED
  BY <1>3, <1>4, <1>5, <1>6

\* With the re-scan run while nothing writes the spine, the pages of a day that is
\* not over or is flushed show every session taken so far, flushed or not and none
\* twice, with the time of those that start or end on it, who came, who was new and
\* how many of each cohort came back, and no headline has more users back than its
\* cohorts have: for every cap on a session and every reporting offset.
THEOREM PagesCorrect == Spec => [](QuietRescan => PagesShowWhatWasTaken)
<1> DEFINE Inv == /\ Base /\ SpineInv /\ WithinInv /\ ExactInv
                  /\ AddInv /\ PerDayInv /\ ActInv /\ NewInv /\ ScarceInv
<1>1. Init => Inv
  <2>1. Init => ExactInv
    <3> SUFFICES ASSUME Init PROVE ExactInv
      OBVIOUS
    <3>1. /\ rows = {} /\ marks = {}
          /\ \A d \in Days : /\ ret[d] = None /\ stored.ret[d].size = 0
                             /\ \A c \in Days : stored.ret[d].cell[c] = 0
      BY DEF Init, NoReturns
    <3>2. \A c, d : Grown(d) = {} /\ Kept(c, d) = {}
      BY <3>1 DEF Grown, Kept
    <3>3. Cardinality({}) = 0
      BY FS_EmptySet
    <3> QED
      BY <3>1, <3>2, <3>3 DEF ExactInv, Exact, Filled
  <2> QED
    BY <2>1, InitWithin, AddInit, PerDayInit, ActInit, NewInit, ScarceInit
<1>2. Inv /\ [Next]_vars => Inv'
  BY BaseNext, SpineNext, WithinNext, ExactNext, AddNext, PerDayNext, ActNext, NewNext, ScarceNext
<1>3. Inv => (QuietRescan => PagesShowWhatWasTaken)
  <2> SUFFICES ASSUME Inv, QuietRescan, Quiet, upset = {} PROVE PagesShowWhatWasTaken
    BY DEF PagesShowWhatWasTaken
  <2>1. ASSUME NEW d \in Days, Current("sess", d)
        PROVE  /\ SessionDay(d).count = Cardinality({s \in Counted : StartOf(s) = d})
               /\ SessionDay(d).dur = MapThenSumSet(LAMBDA s : DurOnDay(IntervalOf(s), d),
                                                    {s \in Counted : d \in {StartOf(s)} \cup EndsOf(s)})
    BY <2>1, SessionsOnPage DEF Touching
  <2>2. ASSUME NEW d \in Days, Current("act", d)
        PROVE  /\ Members(d) \cap Present
                    = {UserOf[s] : s \in {q \in Counted : StartOf(q) = d}} \cap Present
               /\ d <= Today =>
                    NewAmong(d) = Cardinality({u \in Users : spine[u] # None /\ Cohort(spine[u]) = d})
    BY <2>2, MembersOnPage, NewOnPage
  <2>3. ASSUME NEW d \in Days, Current("ret", d), NEW c \in KnownCohorts
        PROVE  Retained(c, d) = Cardinality(Seen(c, d)) /\ CohortSize(c) = Cardinality(Born(c))
    <3>1. c \in Days
      BY DEF KnownCohorts
    <3> QED
      BY <2>3, <3>1, ReturnsOnPage
  <2>4. ASSUME dirty = {}, NEW f \in Days, NEW t \in Days
        PROVE  Window(f, t).sessions = Cardinality({s \in Counted : StartOf(s) \in f .. t})
    BY <2>4, WindowCounts
  <2>5. \A n \in Targets : Headline(n).retained <= Headline(n).size
    BY HeadlineHolds
  <2> QED
    BY <2>1, <2>2, <2>3, <2>4, <2>5 DEF PagesShowWhatWasTaken
<1> QED
  BY <1>1, <1>2, <1>3, PTL DEF Spec
-----------------------------------------------------------------------------
(* Erasure *)

Underway == {"reading", "clear", "purged", "executed"}

\* Of a user not seen again, from the enumeration on: nothing is at hand; the days of
\* the bitmap are sealed once they were read, those of the lists once these were,
\* and those of the buckets, unless one was hidden; after the delete the row is gone
\* and only a reopened day lists the user.
Fading(u) ==
    /\ erasure[u] \in Underway => ~InFlight(u)
    /\ erasure[u] = "reading" => \A d \in BitDays(u) : Settled(d)
    /\ erasure[u] \in {"purged", "executed"} => spine[u] = None
    /\ u \notin hidden =>
          /\ erasure[u] \in {"clear", "purged", "executed"} =>
                \A d \in Days : act[d] # None /\ u \in act[d] => Settled(d)
          /\ erasure[u] = "clear" => \A d \in ListedDays(u) : Settled(d)
          /\ erasure[u] \in {"purged", "executed"} => ListedDays(u) \subseteq reopened

\* A sealed day has something to flush, or is reopened at all, only by a user it took
\* after its seal.
Reopening ==
    /\ \A d \in Days : <<"act", d>> \in dirty /\ Settled(d) => d \in reopened
    /\ \A d \in reopened : Settled(d)

\* A quiet re-scan holds the spine as it is, and no erasure is at work.
Fresh == QuietRescan /\ scan # None => scan = spine /\ ~Erasing

EraseInv == Reopening /\ Fresh /\ \A u \in Users : u \notin returned => Fading(u)

LEMMA SettledStays ==
    ASSUME TypeOK, TypeOK', now' = now \/ Tick, NEW d \in Days, Settled(d)
    PROVE  Settled(d)'
<1>1. d \in Int
  BY DaysType
<1>2. d * Day \in Int /\ Offset \in Int
  BY <1>1, TimeAssumption
<1>3. InstantOf(d) \in Int
  BY <1>2 DEF InstantOf
<1>4. DayEnd(InstantOf(d)) \in Int
  BY <1>3, DayHolds, TimeAssumption
<1>5. now \in Int /\ now' \in Int /\ (now' = now \/ now' > now)
  BY DEF TypeOK, Tick
<1>6. PICK n \in Int : n = DayEnd(InstantOf(d)) + EraseGrace
  BY <1>4, SpineAssumption
<1>7. now >= n
  BY <1>6 DEF Settled
<1>8. now' >= n
  BY <1>5, <1>6, <1>7
<1> QED
  BY <1>6, <1>8 DEF Settled

\* What a handler changes for a user who is not seen again by it.
LEMMA HandleFading ==
    ASSUME Base, EraseInv, NEW s \in Sessions, Handle(s), NEW u \in Users, u \notin returned'
    PROVE  /\ u \notin returned /\ erasure' = erasure /\ hidden' = hidden /\ now' = now
           /\ stored' = stored /\ scan' = scan
           /\ erasure[u] \in Underway => ~InFlight(u)' /\ spine'[u] = spine[u]
           /\ erasure[u] \in Underway => \A d \in Days : act'[d] # None /\ u \in act'[d] =>
                 (act[d] # None /\ u \in act[d]) \/ u \in stored.act[d]
<1>0. TypeOK /\ Owned /\ pc \in [Sessions -> Steps] /\ spine \in [Users -> Row \cup {None}]
  BY DEF Base, TypeOK, Steps
<1>1. /\ returned \subseteq returned' /\ erasure' = erasure /\ hidden' = hidden /\ now' = now
      /\ stored' = stored /\ scan' = scan
      /\ \A r \in Sessions \ {s} : pc'[r] = pc[r]
  <2>1. CASE Receive(s)
    BY <1>0, <2>1 DEF Receive, Fold
  <2>2. CASE Seed(s) \/ Reread(s) \/ SetBit(s) \/ Fail(s)
    BY <1>0, <2>2 DEF Seed, Reread, SetBit, Fail, Place, Fold, privacy
  <2>3. CASE \E step : FoldStep(s, step)
    BY <1>0, <2>3 DEF FoldStep
  <2> QED
    BY <2>1, <2>2, <2>3 DEF Handle, FoldStart, FoldEnd, FoldActive, FoldNewUser, FoldReturn
<1>2. u \notin returned
  BY <1>1
<1>3. ASSUME erasure[u] \in Underway
      PROVE  ~InFlight(u)' /\ (Receive(s) \/ UserOf[s] # u)
  <2>1. ~InFlight(u)
    BY <1>2, <1>3 DEF EraseInv, Fading
  <2>2. CASE Receive(s)
    <3>1. UserOf[s] = u => pc'[s] = "late"
      BY <1>0, <1>3, <2>2, SpineAssumption DEF Receive, Underway, Fold
    <3> QED
      BY <1>1, <2>1, <2>2, <3>1 DEF InFlight
  <2>3. CASE ~Receive(s)
    <3>1. pc[s] \in {"seed", "reread", "bit", "fold"}
      BY <2>3 DEF Handle, Seed, Reread, SetBit, Fail, FoldStart, FoldEnd, FoldActive, FoldNewUser,
                  FoldReturn, FoldStep
    <3>2. UserOf[s] # u
      BY <2>1, <3>1 DEF InFlight
    <3> QED
      BY <1>1, <2>1, <3>2 DEF InFlight
  <2> QED
    BY <2>2, <2>3
<1>4. ASSUME erasure[u] \in Underway
      PROVE  /\ spine'[u] = spine[u]
             /\ \A d \in Days : act'[d] # None /\ u \in act'[d] =>
                   (act[d] # None /\ u \in act[d]) \/ u \in stored.act[d]
  <2>1. CASE Seed(s) \/ SetBit(s)
    <3>1. UserOf[s] # u
      BY <1>3, <1>4, <2>1 DEF Seed, SetBit, Receive
    <3>2. spine' = spine \/ (\E x : spine' = [spine EXCEPT ![UserOf[s]] = x])
      BY <2>1 DEF Seed, SetBit
    <3>3. UNCHANGED act
      BY <2>1 DEF Seed, SetBit, buckets
    <3> QED
      BY <1>0, <3>1, <3>2, <3>3
  <2>2. CASE FoldActive(s)
    <3>1. UserOf[s] # u /\ UNCHANGED spine
      BY <1>3, <1>4, <2>2 DEF FoldActive, FoldStep, Receive
    <3>2. /\ act' = [act EXCEPT ![StartOf(s)] = Filled(act[StartOf(s)], stored.act[StartOf(s)])
                                               \cup {UserOf[s]}]
          /\ DOMAIN act = Days
      BY <1>0, <2>2 DEF FoldActive, TypeOK
    <3>3. ASSUME NEW d \in Days, act'[d] # None, u \in act'[d]
          PROVE  (act[d] # None /\ u \in act[d]) \/ u \in stored.act[d]
      <4>1. CASE d = StartOf(s)
        BY <3>1, <3>2, <3>3, <4>1 DEF Filled
      <4>2. CASE d # StartOf(s)
        BY <3>2, <3>3, <4>2
      <4> QED
        BY <4>1, <4>2
    <3> QED
      BY <3>1, <3>3
  <2>3. CASE ~(Seed(s) \/ SetBit(s) \/ FoldActive(s))
    <3>1. UNCHANGED <<spine, act>>
      BY <2>3 DEF Handle, Receive, Reread, Fail, FoldStart, FoldEnd, FoldNewUser, FoldReturn, FoldStep,
                  AddTime, buckets
    <3> QED
      BY <3>1
  <2> QED
    BY <2>1, <2>2, <2>3
<1> QED
  BY <1>1, <1>2, <1>3, <1>4

LEMMA EraseHandle ==
    ASSUME Base, Base', EraseInv, NEW s \in Sessions, Handle(s)
    PROVE  EraseInv'
<1>1. ASSUME NEW u \in Users, u \notin returned' PROVE Fading(u)'
  <2>1. /\ u \notin returned /\ erasure' = erasure /\ hidden' = hidden /\ now' = now
        /\ stored' = stored
        /\ erasure[u] \in Underway => ~InFlight(u)' /\ spine'[u] = spine[u]
        /\ erasure[u] \in Underway => \A d \in Days : act'[d] # None /\ u \in act'[d] =>
              (act[d] # None /\ u \in act[d]) \/ u \in stored.act[d]
    BY <1>1, HandleFading
  <2>2. Fading(u) /\ Reopening
    BY <2>1 DEF EraseInv
  <2>3. /\ \A d \in Days : Settled(d)' <=> Settled(d)
        /\ ListedDays(u)' = ListedDays(u)
        /\ erasure[u] \in Underway => BitDays(u)' = BitDays(u)
        /\ ListedDays(u) \subseteq Days /\ BitDays(u) \subseteq Days
    BY <2>1 DEF Settled, ListedDays, BitDays
  <2>4. reopened \subseteq reopened'
    BY DEF Handle, Receive, Seed, Reread, SetBit, Fail, FoldStart, FoldEnd, FoldActive, FoldNewUser,
           FoldReturn, AddTime, privacy
  <2>5. \A d \in Days : u \in stored.act[d] <=> d \in ListedDays(u)
    BY DEF ListedDays
  <2> QED
    BY <2>1, <2>2, <2>3, <2>4, <2>5 DEF Fading, Underway, Reopening
<1>2. Reopening'
  <2>1. now' = now
    BY DEF Handle, Receive, Seed, Reread, SetBit, Fail, FoldStart, FoldEnd, FoldActive, FoldNewUser,
           FoldReturn, FoldStep
  <2>2. \A d \in Days : Settled(d)' <=> Settled(d)
    BY <2>1 DEF Settled
  <2>3. Reopening /\ reopened \subseteq Days
    BY DEF EraseInv, Base, TypeOK
  <2>4. CASE FoldActive(s)
    <3>1. PICK d \in Days : d = StartOf(s)
      BY DaysType
    <3>2. dirty' = dirty \cup {<<"act", d>>} /\ reopened' = reopened \cup {e \in {d} : Settled(e)}
      BY <2>4, <3>1 DEF FoldActive
    <3> QED
      BY <2>2, <2>3, <3>2 DEF Reopening
  <2>5. CASE ~FoldActive(s)
    <3>1. UNCHANGED reopened /\ \A d \in Days : <<"act", d>> \in dirty' => <<"act", d>> \in dirty
      BY <2>5 DEF Handle, Receive, Seed, Reread, SetBit, Fail, FoldStart, FoldEnd, FoldNewUser,
             FoldReturn, FoldStep, AddTime, privacy, buckets
    <3> QED
      BY <2>2, <2>3, <3>1 DEF Reopening
  <2> QED
    BY <2>4, <2>5
<1>3. Fresh'
  <2> SUFFICES ASSUME QuietRescan, scan' # None PROVE scan' = spine' /\ ~Erasing'
    BY DEF Fresh
  <2>1. /\ scan' = scan /\ erasure' = erasure
    BY DEF Handle, Receive, Seed, Reread, SetBit, Fail, FoldStart, FoldEnd, FoldActive, FoldNewUser,
           FoldReturn, FoldStep, privacy
  <2>2. Quiet /\ ~Receive(s)
    BY <2>1 DEF Base, ScanIsQuiet, Receive
  <2>3. FALSE
    BY <2>2 DEF Quiet, Handle, Seed, Reread, SetBit, Fail, FoldStart, FoldEnd, FoldActive, FoldNewUser,
           FoldReturn, FoldStep
  <2> QED
    BY <2>3
<1> QED
  BY <1>1, <1>2, <1>3 DEF EraseInv

LEMMA EraseErase ==
    ASSUME Base, Base', EraseInv, NEW v \in Users, Erase(v)
    PROVE  EraseInv'
<1>0. /\ TypeOK /\ erasure \in [Users -> Requests] /\ spine \in [Users -> Row \cup {None}]
      /\ now' = now /\ UNCHANGED <<pc, act, dirty, scan, reopened>>
  <2>1. now' = now /\ UNCHANGED <<pc, act, dirty, scan, reopened>>
    BY DEF Erase, EnumerateSpine, EnumerateFrom, EnumerateActive, Purge, CloseEntry, EraseFails,
           handlers, buckets
  <2> QED
    BY <2>1 DEF Base, TypeOK, Requests
<1>1. /\ \A d : Settled(d)' <=> Settled(d)
      /\ \A u \in Users : InFlight(u)' <=> InFlight(u)
  BY <1>0 DEF Settled, InFlight
<1>2. Reopening'
  BY <1>0, <1>1 DEF EraseInv, Reopening
<1>3. Fresh'
  <2> SUFFICES ASSUME QuietRescan, scan' # None PROVE scan' = spine' /\ ~Erasing'
    BY DEF Fresh
  <2>1. scan = spine /\ ~Erasing /\ scan # None
    BY <1>0 DEF EraseInv, Fresh
  <2>2. CloseEntry(v) \/ EraseFails(v) => erasure[v] \in {"reading", "clear", "purged"}
    BY DEF CloseEntry, EraseFails
  <2>3. FALSE
    BY <2>1, <2>2 DEF Erasing, Erase, EnumerateSpine, EnumerateFrom, EnumerateActive, Purge
  <2> QED
    BY <2>3
<1>4. ASSUME NEW u \in Users, u # v, u \notin returned' PROVE Fading(u)'
  <2>1. erasure'[u] = erasure[u] /\ spine'[u] = spine[u] /\ (u \in hidden' <=> u \in hidden)
    BY <1>0, <1>4 DEF Erase, EnumerateSpine, EnumerateFrom, EnumerateActive, Purge, CloseEntry, EraseFails
  <2>2. u \notin returned
    BY <1>4 DEF Erase, EnumerateSpine, EnumerateFrom, EnumerateActive, Purge, CloseEntry, EraseFails
  <2>3. \A d \in Days : u \in stored'.act[d] <=> u \in stored.act[d]
    BY <1>0, <1>4, EraseLists
  <2>4. ListedDays(u)' = ListedDays(u) /\ BitDays(u)' = BitDays(u)
    BY <2>1, <2>3 DEF ListedDays, BitDays
  <2>5. Fading(u)
    BY <2>2 DEF EraseInv
  <2> QED
    BY <1>0, <1>1, <2>1, <2>4, <2>5 DEF Fading
<1>5. ASSUME v \notin returned' PROVE Fading(v)'
  <2>1. CASE EnumerateSpine(v)
    <3>1. /\ ~InFlight(v) /\ UNCHANGED <<spine, stored>>
          /\ erasure'[v] = IF \A d \in BitDays(v) : Settled(d) THEN "reading" ELSE "awaiting_seal"
      BY <1>0, <1>5, <2>1 DEF EnumerateSpine, EnumerateFrom
    <3>2. BitDays(v)' = BitDays(v)
      BY <3>1 DEF BitDays
    <3> QED
      BY <1>1, <3>1, <3>2 DEF Fading
  <2>2. CASE EnumerateActive(v)
    <3>1. /\ v \notin returned /\ UNCHANGED <<spine, stored>> /\ erasure[v] = "reading"
          /\ erasure'[v] = IF \A d \in ListedDays(v) : Settled(d) THEN "clear" ELSE "awaiting_seal"
      BY <1>0, <1>5, <2>2 DEF EnumerateActive
    <3>2. v \notin hidden' =>
            \A d \in Days : act[d] # None /\ v \in act[d] => d \in BitDays(v) \cup ListedDays(v)
      BY <2>2 DEF EnumerateActive
    <3>3. ListedDays(v)' = ListedDays(v)
      BY <3>1 DEF ListedDays
    <3>4. Fading(v)
      BY <3>1 DEF EraseInv
    <3>5. /\ erasure'[v] \in {"clear", "awaiting_seal"}
          /\ erasure'[v] = "clear" => \A d \in ListedDays(v) : Settled(d)
      BY <3>1
    <3>6. ~InFlight(v) /\ \A d \in BitDays(v) : Settled(d)
      BY <3>1, <3>4 DEF Fading, Underway
    <3>7. v \notin hidden' /\ erasure'[v] = "clear" =>
            \A d \in Days : act[d] # None /\ v \in act[d] => Settled(d)
      BY <3>2, <3>5, <3>6
    <3> QED
      BY <1>0, <1>1, <3>3, <3>5, <3>6, <3>7 DEF Fading
  <2>3. CASE Purge(v)
    <3>1. /\ v \notin returned /\ hidden' = hidden /\ erasure[v] = "clear" /\ erasure'[v] = "purged"
          /\ spine'[v] = None
      BY <1>0, <1>5, <2>3 DEF Purge
    <3>2. stored'.act = [d \in Days |-> stored.act[d] \ {v}]
      BY <1>0, <2>3 DEF Purge, TypeOK
    <3>3. ListedDays(v)' = {}
      BY <3>2 DEF ListedDays
    <3>4. Fading(v)
      BY <3>1 DEF EraseInv
    <3> QED
      BY <1>0, <1>1, <3>1, <3>3, <3>4 DEF Fading, Underway
  <2>4. CASE CloseEntry(v)
    <3>1. /\ v \notin returned /\ hidden' = hidden /\ erasure[v] = "purged" /\ erasure'[v] = "executed"
          /\ UNCHANGED <<spine, stored>>
      BY <1>0, <1>5, <2>4 DEF CloseEntry
    <3>2. ListedDays(v)' = ListedDays(v) /\ Fading(v)
      BY <3>1 DEF ListedDays, EraseInv
    <3> QED
      BY <1>0, <1>1, <3>1, <3>2 DEF Fading, Underway
  <2>5. CASE EraseFails(v)
    <3>1. erasure'[v] = "pending"
      BY <1>0, <2>5 DEF EraseFails
    <3> QED
      BY <3>1 DEF Fading, Underway
  <2> QED
    BY <2>1, <2>2, <2>3, <2>4, <2>5 DEF Erase
<1> QED
  BY <1>2, <1>3, <1>4, <1>5 DEF EraseInv

LEMMA EraseRest ==
    ASSUME Base, Base', EraseInv, QuietRescan,
           Sweep \/ LoseRedis \/ RescanRead \/ RescanWrite \/ Tick \/ UNCHANGED vars
    PROVE  EraseInv'
<1>0. /\ TypeOK /\ TypeOK' /\ Reopening /\ Fresh
      /\ \A u \in Users : u \notin returned => Fading(u)
      /\ UNCHANGED <<pc, spine, returned, hidden, reopened, erasure>>
  BY DEF Base, EraseInv, Sweep, LoseRedis, RescanRead, RescanWrite, Tick, vars, handlers, privacy
<1>1. \A u \in Users :
         (InFlight(u)' <=> InFlight(u)) /\ BitDays(u)' = BitDays(u) /\ BitDays(u) \subseteq Days
  BY <1>0 DEF InFlight, BitDays
<1>2. reopened \subseteq Days
  BY <1>0 DEF TypeOK
<1>3. CASE Sweep
  <2>1. /\ dirty' = {} /\ UNCHANGED <<act, scan, now>>
        /\ \A d \in Days : Settled(d)' <=> Settled(d)
    BY <1>3 DEF Sweep, Settled
  <2>2. ASSUME NEW u \in Users, NEW d \in Days, d \in ListedDays(u)', d \notin ListedDays(u)
        PROVE  <<"act", d>> \in dirty /\ act[d] # None /\ u \in act[d]
    <3>1. stored'.act[d] = IF <<"act", d>> \in dirty /\ act[d] # None
                           THEN stored.act[d] \cup act[d] ELSE stored.act[d]
      BY <1>0, <1>3, SweptLists
    <3> QED
      BY <2>2, <3>1 DEF ListedDays
  <2>3. ASSUME NEW u \in Users, u \notin returned' PROVE Fading(u)'
    <3>1. Fading(u) /\ ListedDays(u)' \subseteq Days
      BY <1>0, <2>3 DEF ListedDays
    <3>2. erasure[u] = "clear" /\ u \notin hidden => \A d \in ListedDays(u)' : Settled(d)
      BY <2>2, <3>1 DEF Fading
    <3>3. erasure[u] \in {"purged", "executed"} /\ u \notin hidden => ListedDays(u)' \subseteq reopened
      BY <1>0, <2>2, <3>1 DEF Fading, Reopening
    <3> QED
      BY <1>0, <1>1, <2>1, <3>1, <3>2, <3>3 DEF Fading
  <2>4. Reopening' /\ Fresh'
    BY <1>0, <1>2, <2>1 DEF Reopening, Fresh, Erasing
  <2> QED
    BY <2>3, <2>4 DEF EraseInv
<1>4. CASE RescanWrite
  <2>1. /\ scan # None /\ scan' = None /\ UNCHANGED <<act, dirty, now>>
        /\ \A d \in Days : stored'.act[d] = stored.act[d] \cup Projection(scan).act[d]
        /\ \A d \in Days : Settled(d)' <=> Settled(d)
    BY <1>0, <1>4 DEF RescanWrite, Settled, buckets, TypeOK
  <2>2. scan = spine /\ ~Erasing
    BY <1>0, <2>1 DEF Fresh
  <2>3. ASSUME NEW u \in Users, u \notin returned' PROVE Fading(u)'
    <3>1. Fading(u) /\ erasure[u] \notin {"reading", "clear", "purged"}
      BY <1>0, <2>2, <2>3 DEF Erasing
    <3>2. ASSUME erasure[u] = "executed" PROVE ListedDays(u)' = ListedDays(u)
      <4>1. spine[u] = None
        BY <3>1, <3>2 DEF Fading
      <4>2. \A d \in Days : u \notin Projection(scan).act[d]
        BY <2>2, <4>1 DEF Projection
      <4>3. \A d \in Days : u \in stored'.act[d] <=> u \in stored.act[d]
        BY <2>1, <4>2
      <4> QED
        BY <4>3 DEF ListedDays
    <3> QED
      BY <1>0, <1>1, <2>1, <3>1, <3>2 DEF Fading, Underway
  <2>4. Reopening' /\ Fresh'
    BY <1>0, <1>2, <2>1 DEF Reopening, Fresh
  <2> QED
    BY <2>3, <2>4 DEF EraseInv
<1>5. CASE LoseRedis
  <2>1. /\ dirty' = {} /\ UNCHANGED <<stored, scan, now>> /\ \A d \in Days : act'[d] = None
        /\ \A d \in Days : Settled(d)' <=> Settled(d)
        /\ \A u \in Users : ListedDays(u)' = ListedDays(u)
    BY <1>5 DEF LoseRedis, Settled, ListedDays
  <2>2. ASSUME NEW u \in Users, u \notin returned' PROVE Fading(u)'
    <3>1. Fading(u) /\ ListedDays(u) \subseteq Days
      BY <1>0, <2>2 DEF ListedDays
    <3> QED
      BY <1>0, <1>1, <2>1, <3>1 DEF Fading
  <2>3. Reopening' /\ Fresh'
    BY <1>0, <1>2, <2>1 DEF Reopening, Fresh, Erasing
  <2> QED
    BY <2>2, <2>3 DEF EraseInv
<1>6. CASE RescanRead \/ UNCHANGED vars
  <2>1. /\ UNCHANGED <<dirty, act, stored, now>>
        /\ \A d \in Days : Settled(d)' <=> Settled(d)
        /\ \A u \in Users : ListedDays(u)' = ListedDays(u)
    BY <1>6 DEF RescanRead, vars, buckets, Settled, ListedDays
  <2>2. ASSUME NEW u \in Users, u \notin returned' PROVE Fading(u)'
    <3>1. Fading(u) /\ ListedDays(u) \subseteq Days
      BY <1>0, <2>2 DEF ListedDays
    <3> QED
      BY <1>0, <1>1, <2>1, <3>1 DEF Fading
  <2>3. Reopening'
    BY <1>0, <1>2, <2>1 DEF Reopening
  <2>4. Fresh'
    <3>1. CASE RescanRead
      BY <1>0, <3>1 DEF RescanRead, Fresh, Erasing
    <3>2. CASE UNCHANGED vars
      BY <1>0, <3>2 DEF vars, Fresh, Erasing
    <3> QED
      BY <1>6, <3>1, <3>2
  <2> QED
    BY <2>2, <2>3, <2>4 DEF EraseInv
<1>7. CASE Tick
  <2>1. /\ dirty = {} /\ UNCHANGED <<dirty, act, stored, scan>> /\ ~Erasing
        /\ \A u \in Users : ListedDays(u)' = ListedDays(u)
    BY <1>7 DEF Tick, buckets, ListedDays
  <2>2. \A d \in Days : Settled(d) => Settled(d)'
    BY <1>0, <1>7, SettledStays
  <2>3. ASSUME NEW u \in Users, u \notin returned' PROVE Fading(u)'
    <3>1. Fading(u) /\ erasure[u] \notin {"reading", "clear", "purged"}
      BY <1>0, <2>1, <2>3 DEF Erasing
    <3> QED
      BY <1>0, <1>1, <2>1, <2>2, <3>1 DEF Fading
  <2>4. Reopening' /\ Fresh'
    BY <1>0, <1>2, <2>1, <2>2 DEF Reopening, Fresh, Erasing
  <2> QED
    BY <2>3, <2>4 DEF EraseInv
<1> QED
  BY <1>3, <1>4, <1>5, <1>6, <1>7

\* With the re-scan run while nothing writes the spine, an erased user who is not seen
\* again has no row, and of the days the enumeration could see only a reopened one
\* lists the user: whatever sweeps, retries, failures and losses of Redis come after,
\* for every grace of the erasure and of the seal check.
THEOREM ErasedCorrect == Spec => [](QuietRescan => ErasedStaysErased)
<1> DEFINE Inv == Base /\ (QuietRescan => EraseInv)
<1>1. Init => Inv
  <2> SUFFICES ASSUME Init PROVE EraseInv
    BY BaseInit
  <2>1. /\ reopened = {} /\ dirty = {} /\ scan = None /\ \A u \in Users : erasure[u] = "none"
    BY DEF Init
  <2> QED
    BY <2>1 DEF EraseInv, Reopening, Fresh, Fading, Underway
<1>2. Inv /\ [Next]_vars => Inv'
  <2> SUFFICES ASSUME Inv, [Next]_vars PROVE Inv'
    OBVIOUS
  <2>1. Base'
    BY BaseNext
  <2>2. ASSUME QuietRescan PROVE EraseInv'
    BY <2>1, <2>2, EraseHandle, EraseErase, EraseRest DEF Next
  <2> QED
    BY <2>1, <2>2
<1>3. Inv => (QuietRescan => ErasedStaysErased)
  BY DEF EraseInv, Fading, ErasedStaysErased
<1> QED
  BY <1>1, <1>2, <1>3, PTL DEF Spec
=============================================================================
