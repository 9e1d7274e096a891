----------------------------- MODULE WsDequeProof -----------------------------
(***************************************************************************)
(* Proofs about WsDeque for every number of thieves, every capacity and    *)
(* every word size.  They need what the code's callers provide and the     *)
(* deque itself never tests (Fits): a task is pushed before the first pop, *)
(* and never more tasks wait than there are slots.  The tasks ever pushed  *)
(* may be many more, so that indices wrap around the ring.                 *)
(* Under the same condition the deque implements TaskDeque.                *)
(***************************************************************************)
EXTENDS WsDeque, SequenceTheorems, TLAPS

Fits == Seed > 0 /\ MaxWaiting <= Cap

(* Arithmetic modulo a word or a capacity, on the values that occur.       *)

\* Reduction modulo m leaves a number that is already below m alone.
LEMMA SmallMod == ASSUME NEW m \in Nat, m > 0, NEW x \in 0 .. m - 1
                  PROVE  x % m = x
  OBVIOUS

\* -1 is the largest machine word.
LEMMA MinusOneMod == ASSUME NEW m \in Nat, m > 0
                     PROVE  (-1) % m = m - 1
  OBVIOUS

LEMMA Quotient == ASSUME NEW m \in Nat, m > 0, NEW x \in Nat
                  PROVE  x \div m \in Int /\ x % m = x - m * (x \div m)
  OBVIOUS

\* Numbers less than m apart differ modulo m.
LEMMA WindowMod == ASSUME NEW m \in Nat, m > 0, NEW i \in Nat, NEW j \in Nat,
                          i < j, j < i + m
                   PROVE  i % m # j % m
<1> DEFINE q(x) == x \div m
<1>1. /\ q(i) \in Int /\ i % m = i - m * q(i)
      /\ q(j) \in Int /\ j % m = j - m * q(j)
  BY Quotient
<1> HIDE DEF q
<1>2. SUFFICES ASSUME i % m = j % m PROVE FALSE
  OBVIOUS
<1>3. m * q(j) - m * q(i) = j - i
  BY <1>1, <1>2
<1>4. q(j) - q(i) \in Int /\ m * (q(j) - q(i)) = j - i
  BY <1>1, <1>3
<1>5. CASE q(j) - q(i) >= 1
  BY <1>4, <1>5
<1>6. CASE q(j) - q(i) <= 0
  BY <1>4, <1>6
<1> QED BY <1>4, <1>5, <1>6

\* The slots of the tasks that can wait at a time are different, and the
\* counter operators are plain arithmetic on the values that occur.
LEMMA Arith ==
  ASSUME Fits
  PROVE  /\ \A i \in Nat : Slot(i) \in 0 .. Cap - 1
         /\ \A i, j \in Nat : i < j /\ j < i + MaxWaiting => Slot(i) # Slot(j)
         /\ \A i \in 0 .. Seed - 1 : Slot(i) = i
         /\ \A x \in 0 .. MaxTasks : Inc(x) = x + 1
         /\ \A x \in 1 .. MaxTasks : Dec(x) = x - 1
         /\ \A b \in 0 .. MaxTasks, t \in 0 .. MaxTasks :
               t <= b + 1 => (SignedGE(b, t) <=> b >= t)
<1> USE CapAssumption, TaskAssumption, WordAssumption DEF Fits
<1>0. Word > 0 /\ Word > MaxTasks + 1 /\ Word \div 2 < Word /\ Word \div 2 \in Nat
  OBVIOUS
<1>1. /\ \A i \in Nat : Slot(i) \in 0 .. Cap - 1
      /\ \A i \in 0 .. Seed - 1 : Slot(i) = i
  BY SmallMod DEF Slot
<1>5. \A i, j \in Nat : i < j /\ j < i + MaxWaiting => Slot(i) # Slot(j)
  BY WindowMod DEF Slot
<1>2. \A x \in 0 .. MaxTasks : Inc(x) = x + 1
  BY <1>0, SmallMod DEF Inc
<1>3. \A x \in 1 .. MaxTasks : Dec(x) = x - 1
  BY <1>0, SmallMod DEF Dec
<1>4. ASSUME NEW b \in 0 .. MaxTasks, NEW t \in 0 .. MaxTasks, t <= b + 1
      PROVE  SignedGE(b, t) <=> b >= t
  <2>1. CASE b >= t
    <3>1. (b - t) % Word = b - t
      BY <1>0, <2>1, SmallMod
    <3> QED BY <1>0, <2>1, <3>1 DEF SignedGE
  <2>2. CASE b < t
    <3>1. b - t = -1
      BY <1>4, <2>2
    <3>2. (b - t) % Word = Word - 1
      BY <1>0, <3>1, MinusOneMod
    <3> QED BY <1>0, <2>2, <3>2 DEF SignedGE
  <2> QED BY <2>1, <2>2
<1> QED BY <1>1, <1>2, <1>3, <1>4, <1>5


\* Updating a function at one point keeps its type.
LEMMA UpdateType == ASSUME NEW D, NEW R, NEW f \in [D -> R], NEW d, NEW v \in R
                    PROVE  [f EXCEPT ![d] = v] \in [D -> R]
  OBVIOUS

-----------------------------------------------------------------------------
(* The inductive invariant.                                                *)

\* Seeding leaves task i + 1 at position i and establishes the invariant.
LEMMA InitInv == Fits /\ Init => Inv
<1> SUFFICES ASSUME Fits, Init PROVE Inv
  OBVIOUS
<1> USE CapAssumption, TaskAssumption DEF Fits
<1>1. ASSUME NEW i \in 0 .. Seed - 1
      PROVE  SeededBuf[i] = i + 1
  <2> DEFINE held == {j \in 0 .. Seed - 1 : Slot(j) = i}
  <2>1. \A j \in 0 .. Seed - 1 : Slot(j) = j
    BY Arith
  <2>2. held = {i}
    BY <2>1
  <2>3. SeededBuf[i] = 1 + CHOOSE k \in held : \A j \in held : j <= k
    BY <2>2 DEF SeededBuf
  <2> QED BY <2>2, <2>3
<1>2. ASSUME NEW i \in 0 .. Cap - 1
      PROVE  SeededBuf[i] \in 0 .. MaxTasks
  <2>1. CASE i < Seed
    BY <1>1, <2>1
  <2>2. CASE i >= Seed
    <3>1. {j \in 0 .. Seed - 1 : Slot(j) = i} = {}
      BY <2>2, Arith
    <3> QED BY <3>1 DEF SeededBuf
  <2> QED BY <2>1, <2>2
<1>3. SeededBuf \in [0 .. Cap - 1 -> 0 .. MaxTasks]
  BY <1>2 DEF SeededBuf
<1>4. TypeOK
  BY <1>3 DEF Init, ws_init, TypeOK
<1>5. End = Seed /\ Held = 0 .. Seed - 1
  BY DEF Init, ws_init, End, Popping, Held
<1>6. CountersInv /\ PopInv /\ ThiefInv
  BY <1>5 DEF Init, ws_init, CountersInv, PopInv, ThiefInv, Popping
<1>9. \A i \in Held : i \in 0 .. Seed - 1 /\ Slot(i) = i /\ buf[Slot(i)] = i + 1
  BY <1>1, <1>5, Arith DEF Init, ws_init
<1>7. HeldInv
  BY <1>9 DEF Init, ws_init, HeldInv
<1>8. TakenInv
  <2>1. ASSUME NEW k \in 1 .. Seed
        PROVE  \E i \in Held : buf[Slot(i)] = k
    <3>1. k - 1 \in Held /\ buf[Slot(k - 1)] = k
      BY <1>5, <1>9
    <3> QED BY <3>1
  <2> QED BY <2>1 DEF Init, ws_init, TakenInv
<1> QED BY <1>4, <1>6, <1>7, <1>8 DEF Inv


\* The facts every step's proof starts from.
Facts ==
  /\ End \in Nat
  /\ opc \in {"idle", "push"} => bot >= 1 /\ Dec(bot) = bot - 1 /\ End = bot
  /\ Popping => bot = ob /\ End = ob + 1 /\ ob < MaxTasks
  /\ opc \in {"idle", "push"} => ~Popping
  /\ Popping => (SignedGE(ob, top) <=> ob >= top)
  /\ \A i \in Held : i \in Nat /\ i < pushed

\* They follow from the invariant.
LEMMA StepFacts == ASSUME Fits, Inv PROVE Facts
<1> USE CapAssumption, TaskAssumption DEF Fits
<1>1. TypeOK /\ CountersInv
  BY DEF Inv
<1>2. opc \in {"idle", "push"} => ~Popping
  BY DEF Popping
<1>3. /\ opc \in {"idle", "push"} => bot >= 1 /\ End = bot
      /\ End \in Nat
      /\ Popping => bot = ob /\ End = ob + 1 /\ ob < MaxTasks
  BY <1>1, <1>2 DEF TypeOK, CountersInv, End
<1>4. opc \in {"idle", "push"} => Dec(bot) = bot - 1
  BY <1>1, <1>3, Arith DEF TypeOK
<1>5. Popping => (SignedGE(ob, top) <=> ob >= top)
  BY <1>1, <1>3, Arith DEF TypeOK, CountersInv
<1>6. \A i \in Held : i < pushed /\ i \in Nat
  BY <1>1, <1>3 DEF TypeOK, CountersInv, Held, Popping
<1> QED BY <1>1, <1>2, <1>3, <1>4, <1>5, <1>6, Arith DEF TypeOK, Facts

\* ws_push writes slot bot, which holds no task yet.
LEMMA PushWriteInv == ASSUME Fits, Inv, PushWrite PROVE Inv'
<1> USE CapAssumption, TaskAssumption DEF Fits
<1>0. Facts /\ TypeOK /\ CountersInv /\ PopInv /\ HeldInv /\ TakenInv /\ ThiefInv
  BY StepFacts DEF Inv
<1>1. bot < MaxTasks /\ Slot(bot) \in 0 .. Cap - 1 /\ bot <= pushed
  BY <1>0, Arith DEF PushWrite, Facts, TypeOK, CountersInv
<1>2. TypeOK'
  BY <1>0, <1>1 DEF PushWrite, thiefVars, TypeOK
<1>3. End = bot /\ End' = bot /\ ~Popping' /\ opc = "idle"
  BY <1>0 DEF PushWrite, Facts, End, Popping
<1>4. CountersInv' /\ PopInv'
  BY <1>0, <1>3 DEF PushWrite, thiefVars, CountersInv, PopInv, TypeOK
<1>5. Held' = Held \cup {bot} /\ bot \notin Held /\ bot \in 0 .. MaxTasks
  BY <1>0, <1>1, <1>3 DEF PushWrite, Held, CountersInv, TypeOK
<1>6. /\ \A i \in 0 .. Cap - 1 : i # Slot(bot) => buf'[i] = buf[i]
      /\ buf'[Slot(bot)] = pushed + 1
      /\ pushed' = pushed + 1
      /\ pushed + 1 \in 1 .. MaxTasks
      /\ UNCHANGED <<top, taken, tpc, tt, tval>>
  BY <1>0, <1>1 DEF PushWrite, thiefVars, TypeOK
<1>7. \A i \in Held : i # bot /\ Slot(i) # Slot(bot) /\ buf'[Slot(i)] = buf[Slot(i)]
  <2>1. \A i \in Held : i \in Nat /\ i < bot /\ bot < i + MaxWaiting
    BY <1>0, <1>3 DEF PushWrite, Held, TypeOK
  <2>3. bot \in Nat
    BY <1>0 DEF TypeOK
  <2>2. \A i \in Held : Slot(i) # Slot(bot) /\ Slot(i) \in 0 .. Cap - 1
    BY <2>1, <2>3, Arith
  <2> QED BY <1>6, <2>1, <2>2
<1>8. HeldInv'
  <2>1. taken'[pushed + 1] = 0
    BY <1>0, <1>6 DEF TakenInv, TypeOK
  <2>2. ASSUME NEW i \in Held'
        PROVE  buf'[Slot(i)] \in 1 .. pushed' /\ taken'[buf'[Slot(i)]] = 0
    <3>1. CASE i = bot
      BY <1>0, <1>6, <2>1, <3>1 DEF TypeOK
    <3>2. CASE i \in Held
      <4>1. buf[Slot(i)] \in 1 .. pushed /\ taken[buf[Slot(i)]] = 0 /\ buf'[Slot(i)] = buf[Slot(i)]
        BY <1>0, <1>7, <3>2 DEF HeldInv
      <4> QED BY <1>0, <1>6, <4>1 DEF TypeOK
    <3> QED BY <1>5, <3>1, <3>2
  <2>3. ASSUME NEW i \in Held', NEW j \in Held', buf'[Slot(i)] = buf'[Slot(j)]
        PROVE  i = j
    <3>1. \A k \in Held : buf[Slot(k)] # pushed + 1
      BY <1>0 DEF HeldInv, TypeOK
    <3> QED BY <1>0, <1>5, <1>6, <1>7, <2>3, <3>1 DEF HeldInv
  <2> QED BY <2>2, <2>3 DEF HeldInv
<1>9. TakenInv'
  <2>1. ASSUME NEW k \in 1 .. pushed', taken'[k] = 0
        PROVE  \E i \in Held' : buf'[Slot(i)] = k
    <3>1. CASE k = pushed + 1
      BY <1>5, <1>6, <3>1
    <3>2. CASE k # pushed + 1
      <4>1. k \in 1 .. pushed /\ taken[k] = 0
        BY <1>0, <1>6, <2>1, <3>2 DEF TypeOK
      <4>2. PICK i \in Held : buf[Slot(i)] = k
        BY <1>0, <4>1 DEF TakenInv
      <4> QED BY <1>5, <1>7, <4>2
    <3> QED BY <3>1, <3>2
  <2> QED BY <1>0, <1>6, <2>1 DEF TakenInv, TypeOK
<1>10. ThiefInv'
  <2>1. top < End => buf'[Slot(top)] = buf[Slot(top)]
    BY <1>0, <1>3, <1>7 DEF Held, TypeOK
  <2> QED BY <1>0, <1>1, <1>3, <1>6, <2>1 DEF ThiefInv, TypeOK, CountersInv
<1> QED BY <1>2, <1>4, <1>8, <1>9, <1>10 DEF Inv

\* A step that leaves the tasks alone and the deque as it is.
LEMMA SameTasks ==
  ASSUME Inv, Held' = Held, End' = End, UNCHANGED <<top, buf, taken, pushed>>
  PROVE  HeldInv' /\ TakenInv' /\ (UNCHANGED thiefVars => ThiefInv')
<1> USE DEF Inv
<1>1. HeldInv'
  BY DEF HeldInv
<1>2. TakenInv'
  BY DEF TakenInv
<1>3. UNCHANGED thiefVars => ThiefInv'
  BY DEF ThiefInv, thiefVars
<1> QED BY <1>1, <1>2, <1>3

\* Publishing bot makes that slot part of the deque.
LEMMA PushPublishInv == ASSUME Fits, Inv, PushPublish PROVE Inv'
<1> USE CapAssumption, TaskAssumption DEF Fits
<1>0. Facts /\ TypeOK /\ CountersInv /\ PopInv /\ HeldInv /\ TakenInv /\ ThiefInv
  BY StepFacts DEF Inv
<1>1. Inc(bot) = bot + 1 /\ bot < MaxTasks /\ End = bot
  BY <1>0, Arith DEF PushPublish, Facts, TypeOK, CountersInv
<1>2. End' = bot + 1 /\ ~Popping'
  BY <1>1 DEF PushPublish, End, Popping
<1>3. TypeOK' /\ CountersInv' /\ PopInv'
  BY <1>0, <1>1, <1>2 DEF PushPublish, thiefVars, TypeOK, CountersInv, PopInv
<1>4. Held' = Held
  BY <1>0, <1>1, <1>2 DEF PushPublish, CountersInv, Held, TypeOK
<1>5. HeldInv' /\ TakenInv'
  BY <1>0, <1>4 DEF PushPublish, HeldInv, TakenInv
<1>6. ThiefInv'
  BY <1>0, <1>1, <1>2 DEF PushPublish, thiefVars, ThiefInv, TypeOK
<1> QED BY <1>3, <1>5, <1>6 DEF Inv

\* Lowering bot changes nothing yet: the task there still counts.
LEMMA PopClaimInv == ASSUME Fits, Inv, PopClaim PROVE Inv'
<1> USE CapAssumption, TaskAssumption DEF Fits
<1>0. Facts /\ TypeOK /\ CountersInv /\ PopInv
  BY StepFacts DEF Inv
<1>1. bot' = bot - 1 /\ ob' = bot - 1 /\ End = bot /\ End' = bot /\ Popping'
  BY <1>0 DEF PopClaim, Facts, End, Popping, TypeOK
<1>2. TypeOK' /\ CountersInv' /\ PopInv'
  BY <1>0, <1>1 DEF PopClaim, thiefVars, Facts, TypeOK, CountersInv, PopInv
<1>3. Held' = Held
  BY <1>0, <1>1 DEF PopClaim, Held, TypeOK
<1>4. HeldInv' /\ TakenInv' /\ ThiefInv'
  BY <1>1, <1>3, SameTasks DEF PopClaim, thiefVars
<1> QED BY <1>2, <1>4 DEF Inv

\* Handing out the task at one end of the deque.
LEMMA TakeInv ==
  ASSUME Fits, Inv, NEW p \in Held, Held' = Held \ {p}, HandOut(buf[Slot(p)]),
         buf' = buf, pushed' = pushed
  PROVE  HeldInv' /\ TakenInv' /\ taken' \in [0 .. MaxTasks -> Nat]
<1> USE TaskAssumption DEF Inv, HandOut
<1>1. buf[Slot(p)] \in 1 .. pushed /\ taken[buf[Slot(p)]] = 0 /\ pushed \in 0 .. MaxTasks
  BY DEF HeldInv, TypeOK
<1>2. /\ taken' \in [0 .. MaxTasks -> Nat]
      /\ taken'[buf[Slot(p)]] = 1
      /\ \A k \in 0 .. MaxTasks : k # buf[Slot(p)] => taken'[k] = taken[k]
  BY <1>1 DEF TypeOK
<1>3. HeldInv'
  BY <1>1, <1>2 DEF HeldInv
<1>4. TakenInv'
  <2>1. /\ taken'[0] = 0
        /\ \A k \in 1 .. MaxTasks : taken'[k] <= 1 /\ (k > pushed => taken'[k] = 0)
    BY <1>1, <1>2 DEF TakenInv
  <2>2. ASSUME NEW k \in 1 .. pushed, taken'[k] = 0
        PROVE  \E i \in Held' : buf'[Slot(i)] = k
    <3>1. k # buf[Slot(p)] /\ taken[k] = 0
      BY <1>1, <1>2, <2>2
    <3>2. PICK i \in Held : buf[Slot(i)] = k
      BY <3>1 DEF TakenInv
    <3> QED BY <3>1, <3>2
  <2> QED BY <2>1, <2>2 DEF TakenInv
<1> QED BY <1>2, <1>3, <1>4


\* ws_pop takes a task that is not the last: no thief can have it.
LEMMA PopTakeInv == ASSUME Fits, Inv, PopTake PROVE Inv'
<1> USE CapAssumption, TaskAssumption DEF Fits
<1>0. Facts /\ TypeOK /\ CountersInv /\ PopInv /\ HeldInv /\ TakenInv /\ ThiefInv
  BY StepFacts DEF Inv
<1>1. Popping /\ bot = ob /\ End = ob + 1 /\ ob > top /\ opc = "claimed"
  BY <1>0 DEF PopTake, LastTask, Popping, Facts, TypeOK
<1>2. End' = ob /\ ~Popping' /\ opc' = "idle" /\ bot' = ob
  BY <1>1 DEF PopTake, End, Popping
<1>3. ob \in Held /\ Held' = Held \ {ob}
  BY <1>0, <1>1, <1>2 DEF PopTake, Held, TypeOK
<1>4. buf[Slot(ob)] \in 1 .. pushed
  BY <1>0, <1>3 DEF HeldInv
<1>5. HeldInv' /\ TakenInv' /\ taken' \in [0 .. MaxTasks -> Nat]
  BY <1>3, <1>4, TakeInv DEF PopTake
<1>6. TypeOK'
  <2>1. answer' \in 0 .. MaxTasks /\ opc' = "idle" /\ ob' = 0
    <3>1. answer' = buf[Slot(ob)] /\ opc' = "idle" /\ ob' = 0
      BY DEF PopTake
    <3>2. pushed \in 0 .. MaxTasks
      BY <1>0 DEF TypeOK
    <3> QED BY <1>4, <3>1, <3>2
  <2>2. UNCHANGED <<top, bot, buf, oval, pushed, tpc, tt, tval>>
    BY DEF PopTake, thiefVars
  <2> QED BY SMTT(30), <1>0, <1>5, <2>1, <2>2 DEF TypeOK
<1>7. CountersInv' /\ PopInv'
  BY <1>0, <1>1, <1>2 DEF PopTake, CountersInv, PopInv, TypeOK
<1>8. ThiefInv'
  BY <1>0, <1>1, <1>2 DEF PopTake, thiefVars, ThiefInv, TypeOK
<1> QED BY <1>5, <1>6, <1>7, <1>8 DEF Inv

\* Reading the last task.
LEMMA PopLastInv == ASSUME Fits, Inv, PopLast PROVE Inv'
<1> USE CapAssumption, TaskAssumption DEF Fits
<1>0. Facts /\ TypeOK /\ CountersInv /\ PopInv /\ HeldInv
  BY StepFacts DEF Inv
<1>1. Popping /\ bot = ob /\ End = ob + 1 /\ ob = top /\ opc = "claimed"
  BY <1>0 DEF PopLast, LastTask, Popping, Facts, TypeOK
<1>2. End' = End /\ Popping' /\ Held' = Held
  BY <1>0, <1>1 DEF PopLast, End, Popping, Held
<1>3. ob \in Held
  BY <1>0, <1>1 DEF Held, TypeOK, Facts
<1>4. buf[Slot(ob)] \in 0 .. MaxTasks
  BY <1>0, <1>3, Arith DEF Facts, TypeOK
<1>5. TypeOK'
  BY <1>0, <1>4 DEF PopLast, thiefVars, TypeOK
<1>6. CountersInv' /\ PopInv'
  BY <1>0, <1>1, <1>2, <1>4 DEF PopLast, CountersInv, PopInv, TypeOK
<1>7. HeldInv' /\ TakenInv' /\ ThiefInv'
  BY <1>2, SameTasks DEF PopLast, thiefVars
<1> QED BY <1>5, <1>6, <1>7 DEF Inv

\* Finding the deque empty.
LEMMA PopEmptyInv == ASSUME Fits, Inv, PopEmpty PROVE Inv'
<1> USE CapAssumption, TaskAssumption DEF Fits
<1>0. Facts /\ TypeOK /\ CountersInv /\ PopInv
  BY StepFacts DEF Inv
<1>1. Popping /\ bot = ob /\ End = ob + 1 /\ top = ob + 1 /\ opc = "claimed"
  BY <1>0 DEF PopEmpty, Popping, Facts, TypeOK, CountersInv
<1>2. End' = End /\ Popping' /\ Held' = Held
  BY <1>0, <1>1 DEF PopEmpty, End, Popping, Held
<1>3. TypeOK' /\ CountersInv' /\ PopInv'
  BY <1>0, <1>1, <1>2 DEF PopEmpty, thiefVars, TypeOK, CountersInv, PopInv
<1>4. HeldInv' /\ TakenInv' /\ ThiefInv'
  BY <1>2, SameTasks DEF PopEmpty, thiefVars
<1> QED BY <1>3, <1>4 DEF Inv

\* The owner's compare-and-swap for the last task.
LEMMA PopRaceInv == ASSUME Fits, Inv, PopRace PROVE Inv'
<1> USE CapAssumption, TaskAssumption DEF Fits
<1>0. Facts /\ TypeOK /\ CountersInv /\ PopInv /\ HeldInv /\ TakenInv /\ ThiefInv
  BY StepFacts DEF Inv
<1>1. Popping /\ bot = ob /\ End = ob + 1 /\ opc = "race" /\ ob <= top /\ ob < MaxTasks
  BY <1>0 DEF PopRace, Popping, Facts, PopInv
<1>2. End' = ob + 1 /\ Popping' /\ opc' = "restore" /\ bot' = bot /\ ob' = ob
  BY <1>1 DEF PopRace, End, Popping
<1>3. CASE top = ob
  <2>1. Inc(top) = ob + 1 /\ top' = ob + 1 /\ HandOut(oval) /\ oval = buf[Slot(ob)] /\ answer' = oval
    BY <1>0, <1>1, <1>3, Arith DEF PopRace, PopInv, TypeOK
  <2>2. ob \in Held /\ Held' = Held \ {ob}
    BY SMTT(30), <1>0, <1>1, <1>2, <1>3, <2>1 DEF Held, TypeOK
  <2>3. HeldInv' /\ TakenInv' /\ taken' \in [0 .. MaxTasks -> Nat]
    <3>1. buf' = buf /\ pushed' = pushed /\ HandOut(buf[Slot(ob)])
      BY <2>1 DEF PopRace
    <3> QED BY <2>2, <3>1, TakeInv
  <2>4. TypeOK'
    <3>1. answer' \in 0 .. MaxTasks /\ opc' = "restore" /\ oval' = 0
      BY <1>0, <2>1 DEF PopRace, TypeOK
    <3>2. UNCHANGED <<bot, buf, ob, pushed, tpc, tt, tval>>
      BY DEF PopRace, thiefVars
    <3>3. top' \in 0 .. MaxTasks
      BY <1>0, <1>1, <2>1 DEF TypeOK
    <3> QED BY SMTT(30), <1>0, <2>3, <3>1, <3>2, <3>3 DEF TypeOK
  <2>5. CountersInv' /\ PopInv'
    BY <1>0, <1>1, <1>2, <2>1 DEF PopRace, CountersInv, PopInv, TypeOK
  <2>6. ThiefInv'
    BY <1>0, <1>2, <1>3, <2>1 DEF PopRace, thiefVars, ThiefInv, TypeOK
  <2> QED BY <2>3, <2>4, <2>5, <2>6 DEF Inv
<1>4. CASE top # ob
  <2>1. top = ob + 1 /\ top' = top /\ taken' = taken /\ answer' = 0
    BY <1>0, <1>1, <1>4 DEF PopRace, CountersInv, TypeOK
  <2>2. Held' = Held /\ End' = End
    BY <1>0, <1>1, <1>2, <2>1 DEF Held
  <2>3. HeldInv' /\ TakenInv' /\ ThiefInv'
    BY <2>1, <2>2, SameTasks DEF PopRace, thiefVars
  <2>4. TypeOK' /\ CountersInv' /\ PopInv'
    BY <1>0, <1>1, <1>2, <2>1 DEF PopRace, thiefVars, TypeOK, CountersInv, PopInv
  <2> QED BY <2>3, <2>4 DEF Inv
<1> QED BY <1>3, <1>4

\* Putting bot back.
LEMMA PopRestoreInv == ASSUME Fits, Inv, PopRestore PROVE Inv'
<1> USE CapAssumption, TaskAssumption DEF Fits
<1>0. Facts /\ TypeOK /\ CountersInv /\ PopInv
  BY StepFacts DEF Inv
<1>1. Popping /\ bot = ob /\ End = ob + 1 /\ top = ob + 1 /\ opc = "restore" /\ ob < MaxTasks
  BY <1>0 DEF PopRestore, Popping, Facts, PopInv
<1>2. bot' = ob + 1 /\ End' = End /\ ~Popping' /\ opc' = "idle"
  BY <1>0, <1>1, Arith DEF PopRestore, Restored, End, Popping, TypeOK
<1>3. Held' = Held
  BY <1>0, <1>1, <1>2 DEF PopRestore, Held
<1>4. TypeOK' /\ CountersInv' /\ PopInv'
  BY <1>0, <1>1, <1>2 DEF PopRestore, thiefVars, TypeOK, CountersInv, PopInv
<1>5. HeldInv' /\ TakenInv' /\ ThiefInv'
  BY <1>2, <1>3, SameTasks DEF PopRestore, thiefVars
<1> QED BY <1>4, <1>5 DEF Inv


\* A thief reads top.
LEMMA StealTopInv == ASSUME Fits, Inv, NEW h \in Thieves, StealTop(h) PROVE Inv'
<1>0. Facts /\ TypeOK /\ CountersInv /\ PopInv /\ ThiefInv
  BY StepFacts DEF Inv
<1>1. End' = End /\ Popping' = Popping /\ Held' = Held
  BY DEF StealTop, ownerVars, End, Popping, Held
<1>2. TypeOK' /\ CountersInv' /\ PopInv'
  BY <1>0, <1>1 DEF StealTop, ownerVars, TypeOK, CountersInv, PopInv
<1>3. HeldInv' /\ TakenInv'
  BY <1>1, SameTasks DEF StealTop, ownerVars
<1>4. ThiefInv'
  BY <1>0, <1>1 DEF StealTop, ThiefInv, TypeOK
<1> QED BY <1>2, <1>3, <1>4 DEF Inv

\* It reads bot and goes on only if top was below it.
LEMMA StealBotInv == ASSUME Fits, Inv, NEW h \in Thieves, StealBot(h) PROVE Inv'
<1> USE TaskAssumption
<1>0. Facts /\ TypeOK /\ CountersInv /\ PopInv /\ ThiefInv
  BY StepFacts DEF Inv
<1>1. End' = End /\ Popping' = Popping /\ Held' = Held
  BY DEF StealBot, ownerVars, End, Popping, Held
<1>2. TypeOK'
  <2>1. tpc' \in [Thieves -> {"idle", "bot", "read", "cas"}]
    BY <1>0 DEF StealBot, TypeOK
  <2>2. tt' \in [Thieves -> 0 .. MaxTasks]
    <3>1. tt' = tt \/ tt' = [tt EXCEPT ![h] = 0]
      BY DEF StealBot
    <3>2. tt \in [Thieves -> 0 .. MaxTasks] /\ 0 \in 0 .. MaxTasks
      BY <1>0 DEF TypeOK
    <3> QED BY <3>1, <3>2, UpdateType
  <2>3. UNCHANGED <<top, bot, buf, opc, ob, oval, tval, pushed, taken, answer>>
    BY DEF StealBot, ownerVars
  <2> QED BY SMTT(30), <1>0, <2>1, <2>2, <2>3 DEF TypeOK
<1>6. CountersInv' /\ PopInv'
  BY <1>0, <1>1 DEF StealBot, ownerVars, CountersInv, PopInv
<1>3. HeldInv' /\ TakenInv'
  BY <1>1, SameTasks DEF StealBot, ownerVars
<1>4. bot <= End
  BY <1>0 DEF Facts, CountersInv, End, TypeOK
<1>5. ThiefInv'
  <2>1. UNCHANGED <<top, buf, tval>>
    BY DEF StealBot, ownerVars
  <2>2. /\ \A g \in Thieves : g # h => tpc'[g] = tpc[g] /\ tt'[g] = tt[g]
        /\ tpc'[h] # "cas" /\ tt'[h] <= top
        /\ tpc'[h] = "read" /\ tt'[h] = top => top < bot
    BY <1>0 DEF StealBot, NothingToSteal, ThiefInv, TypeOK
  <2>3. top < bot => top < End
    BY <1>0, <1>4 DEF Facts, TypeOK
  <2> QED BY <1>0, <1>1, <2>1, <2>2, <2>3 DEF ThiefInv
<1> QED BY <1>2, <1>3, <1>5, <1>6 DEF Inv

\* It reads the slot.
LEMMA StealReadInv == ASSUME Fits, Inv, NEW h \in Thieves, StealRead(h) PROVE Inv'
<1> USE CapAssumption, TaskAssumption DEF Fits
<1>0. Facts /\ TypeOK /\ CountersInv /\ PopInv /\ ThiefInv
  BY StepFacts DEF Inv
<1>1. End' = End /\ Popping' = Popping /\ Held' = Held
  BY DEF StealRead, ownerVars, End, Popping, Held
<1>2. Slot(tt[h]) \in 0 .. Cap - 1
  BY <1>0, Arith DEF TypeOK
<1>4. TypeOK' /\ CountersInv' /\ PopInv'
  BY <1>0, <1>1, <1>2 DEF StealRead, ownerVars, TypeOK, CountersInv, PopInv
<1>5. HeldInv' /\ TakenInv'
  BY <1>1, SameTasks DEF StealRead, ownerVars
<1>6. ThiefInv'
  BY <1>0, <1>1 DEF StealRead, ThiefInv, TypeOK
<1> QED BY <1>4, <1>5, <1>6 DEF Inv

\* A thief's compare-and-swap.
LEMMA StealCasInv == ASSUME Fits, Inv, NEW h \in Thieves, StealCas(h) PROVE Inv'
<1> USE CapAssumption, TaskAssumption DEF Fits
<1>0. Facts /\ TypeOK /\ CountersInv /\ PopInv /\ HeldInv /\ TakenInv /\ ThiefInv
  BY StepFacts DEF Inv
<1>1. End' = End /\ Popping' = Popping
  BY DEF StealCas, ownerVars, End, Popping
<1>2. /\ UNCHANGED <<bot, buf, opc, ob, oval, pushed, answer>>
      /\ tpc' = [tpc EXCEPT ![h] = "idle"]
      /\ tt' = [tt EXCEPT ![h] = 0]
      /\ tval' = [tval EXCEPT ![h] = 0]
  BY DEF StealCas, ownerVars
<1>5. /\ tpc' \in [Thieves -> {"idle", "bot", "read", "cas"}]
      /\ tt' \in [Thieves -> 0 .. MaxTasks]
      /\ tval' \in [Thieves -> 0 .. MaxTasks]
  <2>1. 0 \in 0 .. MaxTasks /\ "idle" \in {"idle", "bot", "read", "cas"}
    OBVIOUS
  <2> QED BY <1>0, <1>2, <2>1, UpdateType DEF TypeOK
<1>6. top \in Nat /\ ob \in Nat /\ bot \in Nat /\ End \in Nat
  BY <1>0 DEF TypeOK, Facts
<1>3. CASE top = tt[h]
  <2>1. top < End /\ tval[h] = buf[Slot(top)] /\ End <= MaxTasks
    BY <1>0, <1>3 DEF StealCas, ThiefInv, CountersInv, TypeOK, Facts
  <2>2. top' = top + 1 /\ HandOut(buf[Slot(top)])
    BY <1>0, <1>3, <2>1, Arith DEF StealCas, TypeOK
  <2>3. top \in Held /\ Held' = Held \ {top}
    BY SMTT(30), <1>0, <1>1, <1>2, <2>1, <2>2 DEF Held, TypeOK, Facts
  <2>4. HeldInv' /\ TakenInv' /\ taken' \in [0 .. MaxTasks -> Nat]
    BY <1>2, <2>2, <2>3, TakeInv
  <2>5. TypeOK'
    <3>1. top' \in 0 .. MaxTasks
      BY <1>6, <2>1, <2>2
    <3> QED BY <1>0, <1>2, <1>5, <2>4, <3>1 DEF TypeOK
  <2>6. CountersInv' /\ PopInv'
    <3>1. opc # "restore"
      BY <1>0, <1>6, <2>1 DEF PopInv, Facts, Popping
    <3> QED BY <1>0, <1>1, <1>2, <1>6, <2>1, <2>2, <3>1 DEF CountersInv, PopInv
  <2>7. ThiefInv'
    <3>1. \A g \in Thieves : tt'[g] \in Nat /\ tt'[g] <= top
      BY <1>0, <1>2, <1>6 DEF ThiefInv, TypeOK
    <3> QED BY <1>6, <2>2, <3>1 DEF ThiefInv
  <2> QED BY <2>4, <2>5, <2>6, <2>7 DEF Inv
<1>4. CASE top # tt[h]
  <2>1. UNCHANGED <<top, taken>>
    BY <1>4 DEF StealCas
  <2>2. Held' = Held
    BY <1>1, <1>2, <2>1 DEF Held
  <2>3. HeldInv' /\ TakenInv'
    BY <1>1, <1>2, <2>1, <2>2, SameTasks
  <2>4. TypeOK'
    BY <1>0, <1>2, <1>5, <2>1 DEF TypeOK
  <2>6. CountersInv' /\ PopInv'
    BY <1>0, <1>1, <1>2, <2>1 DEF CountersInv, PopInv
  <2>5. ThiefInv'
    BY <1>0, <1>1, <1>2, <2>1 DEF ThiefInv, TypeOK
  <2> QED BY <2>3, <2>4, <2>5, <2>6 DEF Inv
<1> QED BY <1>3, <1>4

\* Every step of the deque keeps the invariant.
LEMMA NextInv == Fits /\ Inv /\ [Next]_vars => Inv'
<1> SUFFICES ASSUME Fits, Inv, [Next]_vars PROVE Inv'
  OBVIOUS
<1>1. CASE OwnerStep
  BY <1>1, PushWriteInv, PushPublishInv, PopClaimInv, PopTakeInv, PopLastInv,
     PopEmptyInv, PopRaceInv, PopRestoreInv DEF OwnerStep
<1>2. ASSUME NEW h \in Thieves, StealStep(h) PROVE Inv'
  BY <1>2, StealTopInv, StealBotInv, StealReadInv, StealCasInv DEF StealStep
<1>3. CASE UNCHANGED vars
  BY <1>3 DEF vars, Inv, TypeOK, CountersInv, PopInv, HeldInv, TakenInv,
              ThiefInv, Held, End, Popping
<1> QED BY <1>1, <1>2, <1>3 DEF Next

-----------------------------------------------------------------------------

\* The types hold and the unsigned counters of the deque never wrap, for
\* any number of thieves.
THEOREM CountersNeverWrap == Fits => (Spec => []TypeOK)
<1> SUFFICES ASSUME Fits PROVE Spec => []TypeOK
  OBVIOUS
<1>1. Inv => TypeOK
  BY DEF Inv
<1>2. Init => Inv
  BY InitInv
<1>3. Inv /\ [Next]_vars => Inv'
  BY NextInv
<1> QED BY <1>1, <1>2, <1>3, PTL DEF Spec

\* No task is handed out twice and none is lost, for any number of thieves,
\* any capacity and any interleaving of their steps with the owner's.
THEOREM TasksExactlyOnce == Fits => (Spec => []ExactlyOnce)
<1> SUFFICES ASSUME Fits PROVE Spec => []ExactlyOnce
  OBVIOUS
<1>1. Inv => ExactlyOnce
  <2> SUFFICES ASSUME Inv PROVE ExactlyOnce
    OBVIOUS
  <2>1. Facts /\ TakenInv
    BY StepFacts DEF Inv
  <2>2. \A k \in 1 .. pushed : taken[k] = 0 => \E i \in Held : buf[Slot(i)] = k
    BY <2>1 DEF Facts, TakenInv
  <2> QED BY <2>1, <2>2 DEF ExactlyOnce, TakenInv
<1>2. Init => Inv
  BY InitInv
<1>3. Inv /\ [Next]_vars => Inv'
  BY NextInv
<1> QED BY <1>1, <1>2, <1>3, PTL DEF Spec

-----------------------------------------------------------------------------
(* The deque implements TaskDeque.                                         *)

\* What the positions from t up to e hold is a sequence of tasks, and it
\* changes at its ends as the abstract deque does.
LEMMA TasksSeq ==
  ASSUME Fits, NEW b \in [0 .. Cap - 1 -> 0 .. MaxTasks],
         NEW t \in Nat, NEW e \in Nat, t <= e
  PROVE  /\ Tasks(b, t, e) \in Seq(0 .. MaxTasks)
         /\ Len(Tasks(b, t, e)) = e - t
         /\ \A n \in 1 .. e - t : Tasks(b, t, e)[n] = b[Slot(t + n - 1)]
<1>1. ASSUME NEW n \in 1 .. e - t
      PROVE  b[Slot(t + n - 1)] \in 0 .. MaxTasks
  <2>1. t + n - 1 \in Nat
    OBVIOUS
  <2>2. Slot(t + n - 1) \in 0 .. Cap - 1
    BY <2>1, Arith
  <2> QED BY <2>2
<1> DEFINE v(n) == b[Slot(t + n - 1)]
           d == e - t
<1>2. d \in Nat /\ \A n \in 1 .. d : v(n) \in 0 .. MaxTasks
  BY <1>1
<1>3. Tasks(b, t, e) = [n \in 1 .. d |-> v(n)]
  BY DEF Tasks
<1> HIDE DEF v, d
<1>4. Tasks(b, t, e) \in [1 .. d -> 0 .. MaxTasks]
  BY <1>2, <1>3
<1>5. Tasks(b, t, e) \in Seq(0 .. MaxTasks)
  BY <1>2, <1>4, SeqDef
<1>7. Len(Tasks(b, t, e)) = d
  BY <1>2, <1>4, <1>5, LenProperties
<1>6. \A n \in 1 .. d : Tasks(b, t, e)[n] = v(n)
  BY <1>3
<1> QED BY <1>5, <1>6, <1>7 DEF v, d

LEMMA TasksEmpty ==
  ASSUME NEW b, NEW t \in Nat, NEW e \in Nat, e <= t
  PROVE  Tasks(b, t, e) = << >>
BY DEF Tasks

LEMMA TasksAppend ==
  ASSUME Fits, NEW b \in [0 .. Cap - 1 -> 0 .. MaxTasks],
         NEW t \in Nat, NEW e \in Nat, t <= e
  PROVE  Tasks(b, t, e + 1) = Append(Tasks(b, t, e), b[Slot(e)])
<1> DEFINE L == Tasks(b, t, e)  M == Tasks(b, t, e + 1)
<1>1. /\ L \in Seq(0 .. MaxTasks) /\ Len(L) = e - t
      /\ \A n \in 1 .. e - t : L[n] = b[Slot(t + n - 1)]
  BY Zenon, TasksSeq
<1>2. e + 1 \in Nat /\ t <= e + 1
  OBVIOUS
<1>3. /\ M \in Seq(0 .. MaxTasks) /\ Len(M) = (e + 1) - t
      /\ \A n \in 1 .. (e + 1) - t : M[n] = b[Slot(t + n - 1)]
  BY Zenon, <1>2, TasksSeq
<1>4. b[Slot(e)] \in 0 .. MaxTasks
  BY Arith
<1> HIDE DEF L, M
<1>5. Len(Append(L, b[Slot(e)])) = (e + 1) - t
  BY <1>1, <1>4
<1>6. ASSUME NEW n \in 1 .. (e + 1) - t
      PROVE  M[n] = Append(L, b[Slot(e)])[n]
  <2>1. CASE n = (e + 1) - t
    <3>1. t + n - 1 = e /\ n = Len(L) + 1
      BY <1>1, <2>1
    <3>2. M[n] = b[Slot(e)]
      BY <1>3, <3>1
    <3> QED BY <1>1, <1>4, <3>1, <3>2
  <2>2. CASE n # (e + 1) - t
    <3>1. n \in 1 .. e - t /\ n \in 1 .. Len(L)
      BY <1>1, <2>2
    <3> QED BY <1>1, <1>3, <1>4, <3>1
  <2> QED BY <2>1, <2>2
<1>7. Append(L, b[Slot(e)]) \in Seq(0 .. MaxTasks)
  BY <1>1, <1>4
<1>8. M = Append(L, b[Slot(e)])
  BY <1>3, <1>5, <1>6, <1>7
<1> QED BY <1>8 DEF L, M

LEMMA TasksTail ==
  ASSUME Fits, NEW b \in [0 .. Cap - 1 -> 0 .. MaxTasks],
         NEW t \in Nat, NEW e \in Nat, t < e
  PROVE  /\ Tasks(b, t, e) # << >>
         /\ Head(Tasks(b, t, e)) = b[Slot(t)]
         /\ Tail(Tasks(b, t, e)) = Tasks(b, t + 1, e)
<1> DEFINE L == Tasks(b, t, e)  M == Tasks(b, t + 1, e)
<1>0. t <= e
  OBVIOUS
<1>1. /\ L \in Seq(0 .. MaxTasks) /\ Len(L) = e - t
      /\ \A n \in 1 .. e - t : L[n] = b[Slot(t + n - 1)]
  BY Zenon, <1>0, TasksSeq
<1>2. t + 1 \in Nat /\ t + 1 <= e
  OBVIOUS
<1>3. /\ M \in Seq(0 .. MaxTasks) /\ Len(M) = e - (t + 1)
      /\ \A n \in 1 .. e - (t + 1) : M[n] = b[Slot((t + 1) + n - 1)]
  BY Zenon, <1>2, TasksSeq
<1> HIDE DEF L, M
<1>4. L # << >> /\ Head(L) = L[1]
  BY <1>1
<1>5. L[1] = b[Slot(t)]
  <2>1. 1 \in 1 .. e - t /\ t + 1 - 1 = t
    OBVIOUS
  <2> QED BY <1>1, <2>1
<1>6. Tail(L) \in Seq(0 .. MaxTasks) /\ Len(Tail(L)) = e - (t + 1)
  BY <1>1, <1>4
<1>7. ASSUME NEW n \in 1 .. e - (t + 1)
      PROVE  M[n] = Tail(L)[n]
  <2>1. n + 1 \in 1 .. e - t /\ (t + 1) + n - 1 = t + (n + 1) - 1
    OBVIOUS
  <2>2. L[n + 1] = M[n]
    BY <1>1, <1>3, <2>1
  <2>3. Tail(L)[n] = L[n + 1]
    BY <1>1, <1>4, <1>6
  <2> QED BY <2>2, <2>3
<1>8. Tail(L) = M
  BY <1>3, <1>6, <1>7
<1> QED BY <1>4, <1>5, <1>8 DEF L, M

LEMMA TasksFront ==
  ASSUME Fits, NEW b \in [0 .. Cap - 1 -> 0 .. MaxTasks],
         NEW t \in Nat, NEW e \in Nat, t < e
  PROVE  /\ Tasks(b, t, e) # << >>
         /\ Abstract!Last(Tasks(b, t, e)) = b[Slot(e - 1)]
         /\ Abstract!Front(Tasks(b, t, e)) = Tasks(b, t, e - 1)
<1> DEFINE L == Tasks(b, t, e)  M == Tasks(b, t, e - 1)
<1>0. t <= e
  OBVIOUS
<1>1. /\ L \in Seq(0 .. MaxTasks) /\ Len(L) = e - t
      /\ \A n \in 1 .. e - t : L[n] = b[Slot(t + n - 1)]
  BY Zenon, <1>0, TasksSeq
<1>2. e - 1 \in Nat /\ t <= e - 1
  OBVIOUS
<1>3. /\ M \in Seq(0 .. MaxTasks) /\ Len(M) = (e - 1) - t
      /\ \A n \in 1 .. (e - 1) - t : M[n] = b[Slot(t + n - 1)]
  BY Zenon, <1>2, TasksSeq
<1> HIDE DEF L, M
<1>4. L # << >>
  BY <1>1
<1>5. L[Len(L)] = b[Slot(e - 1)]
  <2>1. e - t \in 1 .. e - t /\ t + (e - t) - 1 = e - 1
    OBVIOUS
  <2> QED BY <1>1, <2>1
<1>6. SubSeq(L, 1, Len(L) - 1) = M
  <2>1. SubSeq(L, 1, Len(L) - 1) = [n \in 1 .. (e - 1) - t |-> L[n]]
    BY <1>1
  <2>2. \A n \in 1 .. (e - 1) - t : n \in 1 .. e - t /\ L[n] = M[n]
    BY <1>1, <1>3
  <2>3. M = [n \in 1 .. (e - 1) - t |-> M[n]]
    BY <1>3
  <2> QED BY <2>1, <2>2, <2>3
<1> QED BY <1>4, <1>5, <1>6 DEF L, M, Abstract!Last, Abstract!Front

\* The slot ws_push has written and not yet published holds the new task.
PushedInv == opc = "push" => buf[Slot(bot)] = pushed

LEMMA PushedStep == Fits /\ Inv /\ PushedInv /\ [Next]_vars => PushedInv'
<1> SUFFICES ASSUME Fits, Inv, PushedInv, [Next]_vars PROVE PushedInv'
  OBVIOUS
<1>0. TypeOK
  BY DEF Inv
<1>1. CASE PushWrite
  <2>1. Slot(bot) \in 0 .. Cap - 1
    BY <1>0, Arith DEF TypeOK
  <2>2. buf'[Slot(bot)] = pushed + 1 /\ bot' = bot /\ pushed' = pushed + 1
    BY <1>0, <1>1, <2>1 DEF PushWrite, TypeOK
  <2> QED BY <2>2 DEF PushedInv, Slot
<1>2. CASE PushPublish \/ PopClaim \/ PopTake \/ PopLast \/ PopEmpty \/ PopRace \/ PopRestore
  BY <1>2 DEF PushPublish, PopClaim, PopTake, PopLast, PopEmpty, PopRace, PopRestore, PushedInv
<1>3. ASSUME NEW h \in Thieves, StealStep(h) PROVE PushedInv'
  BY <1>3 DEF StealStep, StealTop, StealBot, StealRead, StealCas, ownerVars, PushedInv, Slot
<1>4. CASE UNCHANGED vars
  BY <1>4 DEF vars, PushedInv, Slot
<1> QED BY <1>1, <1>2, <1>3, <1>4 DEF Next, OwnerStep

\* The seeded deque is the abstract deque it starts with.
LEMMA InitLive == Fits /\ Init => Abstract!Init
<1> SUFFICES ASSUME Fits, Init PROVE Abstract!Init
  OBVIOUS
<1> USE CapAssumption, TaskAssumption DEF Fits
<1>1. Inv
  BY InitInv
<1>2. /\ top = 0 /\ bot = Seed /\ buf = SeededBuf /\ opc = "idle"
      /\ pushed = Seed /\ taken = [k \in 0 .. MaxTasks |-> 0] /\ answer = 0
  BY DEF Init, ws_init
<1>3. End = Seed /\ ~Popping /\ Published = Seed
  BY <1>2 DEF End, Popping, Published
<1>4. ASSUME NEW i \in 0 .. Seed - 1
      PROVE  buf[Slot(i)] = i + 1
  <2> DEFINE held == {j \in 0 .. Seed - 1 : Slot(j) = i}
  <2>1. \A j \in 0 .. Seed - 1 : Slot(j) = j
    BY Arith
  <2>2. held = {i} /\ i \in 0 .. Cap - 1
    BY <2>1
  <2>3. SeededBuf[i] = 1 + CHOOSE k \in held : \A j \in held : j <= k
    BY <2>2 DEF SeededBuf
  <2> QED BY <1>2, <2>1, <2>2, <2>3
<1>5. Live = [n \in 1 .. Seed |-> n]
  <2>1. Live = [n \in 1 .. Seed |-> buf[Slot(0 + n - 1)]]
    BY <1>2, <1>3 DEF Live, Tasks
  <2>2. ASSUME NEW n \in 1 .. Seed PROVE buf[Slot(0 + n - 1)] = n
    <3>1. n - 1 \in 0 .. Seed - 1 /\ 0 + n - 1 = n - 1
      OBVIOUS
    <3> QED BY <1>4, <3>1
  <2> QED BY <2>1, <2>2
<1> QED BY <1>2, <1>3, <1>5 DEF Abstract!Init

\* A step that changes neither what is waiting nor what was given out.
LEMMA Stutters ==
  ASSUME UNCHANGED <<top, buf, taken, answer>>, End' = End, Published' = Published
  PROVE  UNCHANGED Abstract!vars
BY DEF Abstract!vars, Live, Tasks, Slot

\* What the simulation of every step starts from.
LiveFacts ==
  /\ buf \in [0 .. Cap - 1 -> 0 .. MaxTasks]
  /\ top \in Nat /\ End \in Nat /\ bot \in Nat /\ top <= End
  /\ opc = "push" => End = bot
  /\ opc = "race" => End = ob + 1 /\ ob \in Nat /\ ob <= top
                     /\ (top = ob => oval = buf[Slot(ob)])

LEMMA LiveStart == ASSUME Fits, Inv PROVE LiveFacts /\ Facts
<1>1. Facts /\ TypeOK /\ CountersInv /\ PopInv
  BY StepFacts DEF Inv
<1>2. opc = "race" => Popping
  BY DEF Popping
<1>3. buf \in [0 .. Cap - 1 -> 0 .. MaxTasks] /\ top \in Nat /\ End \in Nat /\ bot \in Nat
  BY <1>1, TaskAssumption DEF Facts, TypeOK
<1>4. top <= End /\ (opc = "push" => End = bot)
  BY <1>1 DEF Facts, CountersInv
<1>5. opc = "race" => End = ob + 1 /\ ob \in Nat /\ ob <= top
                      /\ (top = ob => oval = buf[Slot(ob)])
  BY <1>1, <1>2, TaskAssumption DEF Facts, PopInv, TypeOK
<1> QED BY <1>1, <1>3, <1>4, <1>5 DEF LiveFacts

\* Writing the slot past the end leaves what is waiting as it is.
LEMMA PushWriteSim == ASSUME Fits, Inv, PushWrite PROVE UNCHANGED Abstract!vars
<1> USE CapAssumption, TaskAssumption DEF Fits
<1>0. LiveFacts /\ Facts /\ TypeOK
  BY LiveStart DEF Inv
<1>1. End = bot /\ End' = bot /\ top' = top
  BY <1>0 DEF PushWrite, Facts, End, Popping
<1>2. Published' = Published /\ UNCHANGED <<taken, answer>>
  BY <1>0 DEF PushWrite, Published, TypeOK
<1>3. ASSUME NEW n \in 1 .. End - top
      PROVE  buf'[Slot(top + n - 1)] = buf[Slot(top + n - 1)]
  <2>1. /\ top + n - 1 \in Nat /\ top + n - 1 < bot
        /\ bot < (top + n - 1) + MaxWaiting
    BY <1>0, <1>1 DEF PushWrite, LiveFacts, TypeOK
  <2>2. Slot(top + n - 1) # Slot(bot) /\ Slot(top + n - 1) \in 0 .. Cap - 1
    BY <1>0, <2>1, Arith DEF LiveFacts
  <2> QED BY <1>0, <2>2 DEF PushWrite, LiveFacts
<1>4. Live' = Live
  BY <1>1, <1>3 DEF Live, Tasks, Slot
<1> QED BY <1>2, <1>4 DEF Abstract!vars

\* Publishing bot is the abstract push.
LEMMA PushPublishSim == ASSUME Fits, Inv, PushedInv, PushPublish PROVE Abstract!Push
<1>0. LiveFacts /\ Facts /\ TypeOK /\ CountersInv
  BY LiveStart DEF Inv
<1>1. End = bot /\ End' = bot + 1 /\ top' = top /\ buf' = buf /\ buf[Slot(bot)] = pushed
  <2>1. Inc(bot) = bot + 1
    BY <1>0, Arith DEF TypeOK
  <2> QED BY <1>0, <2>1 DEF PushPublish, LiveFacts, End, Popping, PushedInv
<1>2. Published = pushed - 1 /\ Published' = pushed /\ UNCHANGED <<taken, answer>>
  BY DEF PushPublish, Published
<1>3. Live' = Append(Live, pushed)
  <2>1. Tasks(buf, top, bot + 1) = Append(Tasks(buf, top, bot), buf[Slot(bot)])
    BY <1>0, <1>1, TasksAppend DEF LiveFacts
  <2> QED BY <1>1, <2>1 DEF Live, Tasks, Slot
<1>4. Published < MaxTasks /\ Published + 1 = pushed
  BY <1>0, <1>2, TaskAssumption DEF TypeOK
<1> QED BY <1>2, <1>3, <1>4 DEF Abstract!Push

\* A task that is not the last is popped at once.
LEMMA PopTakeSim == ASSUME Fits, Inv, PopTake PROVE Abstract!Pop
<1>0. LiveFacts /\ Facts /\ TypeOK
  BY LiveStart DEF Inv
<1>1. End = ob + 1 /\ bot = ob /\ ob > top /\ ob \in Nat
  BY <1>0, TaskAssumption DEF PopTake, LastTask, Popping, Facts, TypeOK
<1>2. End' = End - 1 /\ End - 1 = ob /\ UNCHANGED <<top, buf, pushed>>
      /\ Published' = Published
  BY <1>1 DEF PopTake, End, Popping, Published
<1>3. Live # << >> /\ Abstract!Last(Live) = buf[Slot(ob)]
      /\ Abstract!Front(Live) = Tasks(buf, top, ob)
  <2>1. top < End
    BY <1>0, <1>1 DEF LiveFacts
  <2> QED BY <1>0, <1>2, <2>1, TasksFront DEF LiveFacts, Live
<1>4. Live' = Abstract!Front(Live)
  BY <1>2, <1>3 DEF Live, Tasks, Slot
<1> QED BY <1>2, <1>3, <1>4 DEF PopTake, HandOut, Abstract!Pop

\* "empty" is answered when nothing is waiting.
LEMMA PopEmptySim == ASSUME Fits, Inv, PopEmpty PROVE Abstract!PopNothing
<1>0. LiveFacts /\ Facts /\ TypeOK
  BY LiveStart DEF Inv
<1>1. End = ob + 1 /\ ob < top /\ ob \in Nat
  BY <1>0, TaskAssumption DEF PopEmpty, Popping, Facts, TypeOK
<1>2. Live = << >>
  BY <1>0, <1>1, TasksEmpty DEF LiveFacts, Live
<1>3. End' = End /\ UNCHANGED <<top, buf, taken, pushed>> /\ answer' = 0
      /\ Published' = Published
  BY DEF PopEmpty, End, Popping, Published
<1>4. Live' = Live
  BY <1>3 DEF Live, Tasks, Slot
<1> QED BY <1>2, <1>3, <1>4 DEF Abstract!PopNothing

\* The owner's compare-and-swap decides: a pop of the only task, or nothing.
LEMMA PopRaceSim == ASSUME Fits, Inv, PopRace PROVE Abstract!Pop \/ Abstract!PopNothing
<1>0. LiveFacts /\ Facts /\ TypeOK
  BY LiveStart DEF Inv
<1>1. End = ob + 1 /\ ob \in Nat /\ ob <= top /\ End' = End /\ buf' = buf
      /\ UNCHANGED pushed /\ Published' = Published
  BY <1>0 DEF PopRace, LiveFacts, End, Popping, Published
<1>2. CASE top = ob
  <2>1. top' = top + 1 /\ oval = buf[Slot(ob)] /\ HandOut(oval) /\ answer' = oval
    <3>1. Inc(top) = top + 1
      BY <1>0, Arith DEF TypeOK
    <3> QED BY <1>0, <1>2, <3>1 DEF PopRace, LiveFacts
  <2>2. top < End /\ End - 1 = ob
    BY <1>1, <1>2
  <2>3. Live # << >> /\ Abstract!Last(Live) = buf[Slot(ob)]
        /\ Abstract!Front(Live) = Tasks(buf, top, ob)
    BY <1>0, <2>2, TasksFront DEF LiveFacts, Live
  <2>4. Tasks(buf, top, ob) = << >> /\ Tasks(buf, top + 1, End) = << >>
    BY <1>1, <1>2, TasksEmpty
  <2>5. Live' = Abstract!Front(Live)
    BY <1>1, <2>1, <2>3, <2>4 DEF Live, Tasks, Slot
  <2> QED BY <1>1, <2>1, <2>3, <2>5 DEF HandOut, Abstract!Pop
<1>3. CASE top # ob
  <2>1. top' = top /\ taken' = taken /\ answer' = 0
    BY <1>3 DEF PopRace
  <2>2. End <= top
    BY <1>0, <1>1, <1>3 DEF LiveFacts
  <2>3. Live = << >>
    BY <1>0, <2>2, TasksEmpty DEF LiveFacts, Live
  <2>4. Live' = Live
    BY <1>1, <2>1 DEF Live, Tasks, Slot
  <2> QED BY <1>1, <2>1, <2>3, <2>4 DEF Abstract!PopNothing
<1> QED BY <1>2, <1>3

\* A thief's compare-and-swap, when it succeeds, is the abstract steal.
LEMMA StealCasSim ==
  ASSUME Fits, Inv, NEW h \in Thieves, StealCas(h)
  PROVE  Abstract!Steal \/ UNCHANGED Abstract!vars
<1>0. LiveFacts /\ Facts /\ TypeOK /\ ThiefInv
  BY LiveStart DEF Inv
<1>1. End' = End /\ Published' = Published /\ UNCHANGED <<buf, pushed, answer>>
  BY DEF StealCas, ownerVars, End, Popping, Published
<1>2. CASE top = tt[h]
  <2>1. top < End /\ tval[h] = buf[Slot(top)]
    BY <1>0, <1>2 DEF StealCas, ThiefInv
  <2>2. top' = top + 1 /\ HandOut(tval[h])
    <3>1. Inc(top) = top + 1
      BY <1>0, Arith DEF TypeOK
    <3> QED BY <1>2, <3>1 DEF StealCas
  <2>3. Live # << >> /\ Head(Live) = buf[Slot(top)] /\ Tail(Live) = Tasks(buf, top + 1, End)
    BY <1>0, <2>1, TasksTail DEF LiveFacts, Live
  <2>4. Live' = Tail(Live)
    BY <1>1, <2>2, <2>3 DEF Live, Tasks, Slot
  <2> QED BY <1>1, <2>1, <2>2, <2>3, <2>4 DEF HandOut, Abstract!Steal
<1>3. CASE top # tt[h]
  <2>1. UNCHANGED <<top, taken>>
    BY <1>3 DEF StealCas
  <2> QED BY <1>1, <2>1, Stutters
<1> QED BY <1>2, <1>3

\* Every step of the deque is a step of the abstract deque or changes
\* nothing there.
LEMMA StepSim == Fits /\ Inv /\ PushedInv /\ [Next]_vars => [Abstract!Next]_(Abstract!vars)
<1> SUFFICES ASSUME Fits, Inv, PushedInv, [Next]_vars
             PROVE  Abstract!Next \/ UNCHANGED Abstract!vars
  OBVIOUS
<1>0. Facts
  BY StepFacts
<1>1. CASE PushWrite
  BY <1>1, PushWriteSim
<1>2. CASE PushPublish
  BY <1>2, PushPublishSim DEF Abstract!Next
<1>3. CASE PopClaim
  <2>1. End = bot /\ End' = bot
    BY <1>0, <1>3 DEF PopClaim, Facts, End, Popping
  <2>2. Published' = Published
    BY <1>3 DEF PopClaim, Published
  <2> QED BY <1>3, <2>1, <2>2, Stutters DEF PopClaim
<1>4. CASE PopTake
  BY <1>4, PopTakeSim DEF Abstract!Next
<1>5. CASE PopLast
  <2>1. End' = End /\ Published' = Published
    BY <1>5 DEF PopLast, End, Popping, Published
  <2> QED BY <1>5, <2>1, Stutters DEF PopLast
<1>6. CASE PopEmpty
  BY <1>6, PopEmptySim DEF Abstract!Next
<1>7. CASE PopRace
  BY <1>7, PopRaceSim DEF Abstract!Next
<1>8. CASE PopRestore
  <2>1. /\ Popping /\ bot = ob /\ End = ob + 1 /\ ob \in 0 .. MaxTasks
    BY <1>0, <1>8 DEF PopRestore, Popping, Facts, Inv, TypeOK
  <2>2. bot' = ob + 1
    BY <1>8, <2>1, Arith DEF PopRestore, Restored
  <2>3. End' = End /\ Published' = Published
    BY <1>8, <2>1, <2>2 DEF PopRestore, End, Popping, Published
  <2> QED BY <1>8, <2>3, Stutters DEF PopRestore
<1>9. ASSUME NEW h \in Thieves, StealTop(h) \/ StealBot(h) \/ StealRead(h)
      PROVE  UNCHANGED Abstract!vars
  <2>1. UNCHANGED <<top, bot, buf, ownerVars, taken>>
    BY <1>9 DEF StealTop, StealBot, StealRead
  <2>2. End' = End /\ Published' = Published /\ answer' = answer
    BY <2>1 DEF ownerVars, End, Popping, Published
  <2> QED BY <2>1, <2>2, Stutters
<1>10. ASSUME NEW h \in Thieves, StealCas(h)
       PROVE  Abstract!Next \/ UNCHANGED Abstract!vars
  BY <1>10, StealCasSim DEF Abstract!Next
<1>11. CASE UNCHANGED vars
  <2>1. End' = End /\ Published' = Published
    BY <1>11 DEF vars, End, Popping, Published
  <2> QED BY <1>11, <2>1, Stutters DEF vars
<1> QED BY <1>1, <1>2, <1>3, <1>4, <1>5, <1>6, <1>7, <1>8, <1>9, <1>10, <1>11
        DEF Next, OwnerStep, StealStep

\* The deque implements the abstract one: every push, pop and steal takes
\* effect at one instant of the call, for any number of thieves, whatever
\* the capacity.
THEOREM DequeLinearizable == Fits => (Spec => Linearizable)
<1> SUFFICES ASSUME Fits PROVE Spec => Linearizable
  OBVIOUS
<1>1. Init => Inv /\ PushedInv /\ Abstract!Init
  BY InitInv, InitLive DEF Init, PushedInv
<1>2. Inv /\ PushedInv /\ [Next]_vars => Inv' /\ PushedInv' /\ [Abstract!Next]_(Abstract!vars)
  BY NextInv, PushedStep, StepSim
<1> QED BY <1>1, <1>2, PTL DEF Spec, Linearizable, Abstract!Spec
=============================================================================
