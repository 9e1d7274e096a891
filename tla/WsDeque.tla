------------------------------- MODULE WsDeque -------------------------------
(***************************************************************************)
(* The Chase-Lev work-stealing deque of src/src/parallel/wsdeque.c: one    *)
(* owner pushes and pops at bot, any number of thieves steal at top.       *)
(*                                                                         *)
(* An action is the code between two accesses to state another thread can  *)
(* see: top, bot and the slots of buf.  The two counters are unsigned      *)
(* machine words of Word values (2^64 in the code), and slot i of the      *)
(* buffer is buf[i % Cap] (Cap is WS_CAP, the mask is Cap - 1).            *)
(*                                                                         *)
(* Every task handed to ws_push is a fresh number, 1, 2, 3, ..., so that a *)
(* task lost or handed out twice shows.  0 stands for what an unwritten    *)
(* slot holds.  The fences of the code make the accesses sequentially      *)
(* consistent; the model interleaves them in that order.                   *)
(*                                                                         *)
(* A definition Slip_X is a plausible mistake in X, kept beside it to show *)
(* that the properties notice the difference.  Nothing else uses it.       *)
(***************************************************************************)
EXTENDS Integers, Sequences

CONSTANTS Thieves,   \* the threads that call ws_steal
          Cap,       \* WS_CAP, the number of slots
          Word,      \* the number of values of a u64
          Seed,      \* tasks pushed before any thread starts
          MaxWaiting,\* bound: tasks there are once ws_push returns
          MaxTasks   \* bound: tasks ever pushed

ASSUME CapAssumption  == Cap \in Nat /\ Cap > 0
ASSUME TaskAssumption == /\ Seed \in Nat /\ MaxWaiting \in Nat /\ MaxTasks \in Nat
                         /\ Seed <= MaxWaiting /\ Seed <= MaxTasks
ASSUME WordAssumption == Word \in Nat /\ Word \div 2 > MaxTasks + 1

VARIABLES top, bot, buf,
          opc, ob, oval,         \* the owner: where it is, b and *out
          tpc, tt, tval,         \* each thief: where it is, t and *out
          pushed,                \* tasks handed to ws_push so far
          taken,                 \* how often each task was handed out
          answer                 \* what ws_pop last answered, 0 for "empty"

vars == <<top, bot, buf, opc, ob, oval, tpc, tt, tval, pushed, taken, answer>>

\* u64 arithmetic.
Inc(x) == (x + 1) % Word
Dec(x) == (x - 1) % Word

\* (int64_t)(b - t) >= 0
SignedGE(b, t) == (b - t) % Word < Word \div 2

Slot(i) == i % Cap

\* ws_pop: b is the last task, so a thief may be after it too.
Slip_LastTask == FALSE
LastTask == ob = top

\* ws_pop: where bot goes back to once the race is over.
Slip_Restored == ob
Restored == Inc(ob)

\* ws_steal: t >= b, an unsigned comparison.
Slip_NothingToSteal(h) == tt[h] > bot
NothingToSteal(h) == tt[h] >= bot

\* What round-robin seeding leaves in one deque: Seed calls of ws_push on
\* the deque ws_init set up, one slot each as long as they fit.
SeededBuf == [s \in 0 .. Cap - 1 |->
                 LET held == {i \in 0 .. Seed - 1 : Slot(i) = s}
                 IN  IF held = {} THEN 0
                     ELSE 1 + CHOOSE i \in held : \A j \in held : j <= i]

ws_init == /\ top = 0
           /\ bot = Seed
           /\ buf = SeededBuf
           /\ pushed = Seed

Init == /\ ws_init
        /\ opc = "idle" /\ ob = 0 /\ oval = 0
        /\ tpc = [h \in Thieves |-> "idle"]
        /\ tt = [h \in Thieves |-> 0]
        /\ tval = [h \in Thieves |-> 0]
        /\ taken = [k \in 0 .. MaxTasks |-> 0]
        /\ answer = 0

HandOut(k) == taken' = [taken EXCEPT ![k] = @ + 1]

thiefVars == <<tpc, tt, tval>>
ownerVars == <<opc, ob, oval, pushed, answer>>

-----------------------------------------------------------------------------
(* ws_push: the slot first, bot after the release fence.                   *)

PushWrite ==
  /\ opc = "idle"
  /\ pushed < MaxTasks /\ bot - top < MaxWaiting
  /\ buf' = [buf EXCEPT ![Slot(bot)] = pushed + 1]
  /\ pushed' = pushed + 1
  /\ opc' = "push"
  /\ UNCHANGED <<top, bot, ob, oval, taken, answer, thiefVars>>

PushPublish ==
  /\ opc = "push"
  /\ bot' = Inc(bot)
  /\ opc' = "idle"
  /\ UNCHANGED <<top, buf, ob, oval, pushed, taken, answer, thiefVars>>

-----------------------------------------------------------------------------
(* ws_pop: bot is lowered before top is read; the last task is raced for   *)
(* with a compare-and-swap, and bot is put back when the race is over.     *)
(* b and *out live as long as the call: they are 0 outside it.             *)

PopClaim ==
  /\ opc = "idle"
  /\ ob' = Dec(bot)
  /\ bot' = Dec(bot)
  /\ opc' = "claimed"
  /\ UNCHANGED <<top, buf, oval, pushed, taken, answer, thiefVars>>

\* b > t: the task is the owner's without a race.
PopTake ==
  /\ opc = "claimed"
  /\ SignedGE(ob, top) /\ ~LastTask
  /\ HandOut(buf[Slot(ob)])
  /\ answer' = buf[Slot(ob)]
  /\ opc' = "idle" /\ ob' = 0
  /\ UNCHANGED <<top, bot, buf, oval, pushed, thiefVars>>

\* b = t: one task left, read before the race for it.
PopLast ==
  /\ opc = "claimed"
  /\ SignedGE(ob, top) /\ LastTask
  /\ oval' = buf[Slot(ob)]
  /\ opc' = "race"
  /\ UNCHANGED <<top, bot, buf, ob, pushed, taken, answer, thiefVars>>

\* b < t: nothing left.
PopEmpty ==
  /\ opc = "claimed"
  /\ ~SignedGE(ob, top)
  /\ answer' = 0
  /\ opc' = "restore"
  /\ UNCHANGED <<top, bot, buf, ob, oval, pushed, taken, thiefVars>>

\* The compare-and-swap on top, against the value read by PopLast.
PopRace ==
  /\ opc = "race"
  /\ IF top = ob
     THEN top' = Inc(top) /\ HandOut(oval) /\ answer' = oval
     ELSE answer' = 0 /\ UNCHANGED <<top, taken>>
  /\ opc' = "restore" /\ oval' = 0
  /\ UNCHANGED <<bot, buf, ob, pushed, thiefVars>>

PopRestore ==
  /\ opc = "restore"
  /\ bot' = Restored
  /\ opc' = "idle" /\ ob' = 0
  /\ UNCHANGED <<top, buf, oval, pushed, taken, answer, thiefVars>>

-----------------------------------------------------------------------------
(* ws_steal: top, then bot, then the slot, then the compare-and-swap.      *)

StealTop(h) ==
  /\ tpc[h] = "idle"
  /\ tt' = [tt EXCEPT ![h] = top]
  /\ tpc' = [tpc EXCEPT ![h] = "bot"]
  /\ UNCHANGED <<top, bot, buf, ownerVars, tval, taken>>

StealBot(h) ==
  /\ tpc[h] = "bot"
  /\ IF NothingToSteal(h)
     THEN /\ tpc' = [tpc EXCEPT ![h] = "idle"]
          /\ tt' = [tt EXCEPT ![h] = 0]
     ELSE /\ tpc' = [tpc EXCEPT ![h] = "read"]
          /\ UNCHANGED tt
  /\ UNCHANGED <<top, bot, buf, ownerVars, tval, taken>>

StealRead(h) ==
  /\ tpc[h] = "read"
  /\ tval' = [tval EXCEPT ![h] = buf[Slot(tt[h])]]
  /\ tpc' = [tpc EXCEPT ![h] = "cas"]
  /\ UNCHANGED <<top, bot, buf, ownerVars, tt, taken>>

StealCas(h) ==
  /\ tpc[h] = "cas"
  /\ IF top = tt[h]
     THEN top' = Inc(top) /\ HandOut(tval[h])
     ELSE UNCHANGED <<top, taken>>
  /\ tpc' = [tpc EXCEPT ![h] = "idle"]
  /\ tt' = [tt EXCEPT ![h] = 0]
  /\ tval' = [tval EXCEPT ![h] = 0]
  /\ UNCHANGED <<bot, buf, ownerVars>>

-----------------------------------------------------------------------------

OwnerStep == \/ PushWrite \/ PushPublish
             \/ PopClaim \/ PopTake \/ PopLast \/ PopEmpty
             \/ PopRace \/ PopRestore

StealStep(h) == StealTop(h) \/ StealBot(h) \/ StealRead(h) \/ StealCas(h)

Next == OwnerStep \/ \E h \in Thieves : StealStep(h)

Spec == Init /\ [][Next]_vars

-----------------------------------------------------------------------------
(* What the deque holds.  While ws_pop has lowered bot and not yet decided *)
(* who owns the task there, that task still counts.                        *)

Popping == opc \in {"claimed", "race", "restore"}
End     == IF Popping THEN ob + 1 ELSE bot

\* Positions whose task nobody has been given yet, the one ws_push has
\* written and not published included.
Held == {i \in 0 .. MaxTasks :
            top <= i /\ (i < End \/ (i = bot /\ opc = "push"))}

\* The types, and with them that the unsigned counters never wrap: bot is
\* not lowered below 0, although ws_pop lowers it before it looks.
TypeOK ==
  /\ top \in 0 .. MaxTasks /\ bot \in 0 .. MaxTasks
  /\ buf \in [0 .. Cap - 1 -> 0 .. MaxTasks]
  /\ opc \in {"idle", "push", "claimed", "race", "restore"}
  /\ ob \in 0 .. MaxTasks /\ oval \in 0 .. MaxTasks
  /\ tpc \in [Thieves -> {"idle", "bot", "read", "cas"}]
  /\ tt \in [Thieves -> 0 .. MaxTasks]
  /\ tval \in [Thieves -> 0 .. MaxTasks]
  /\ pushed \in 0 .. MaxTasks
  /\ taken \in [0 .. MaxTasks -> Nat]
  /\ answer \in 0 .. MaxTasks

(***************************************************************************)
(* ws_pop and ws_steal hand every task out at most once, never the         *)
(* contents of an unwritten slot, and lose none: a task given to ws_push   *)
(* that nobody has received is still in a slot the deque will read.  This  *)
(* is what the compare-and-swaps of ws_pop and ws_steal, and the order in  *)
(* which the two read top and bot, are for.                                *)
(***************************************************************************)
ExactlyOnce ==
  /\ taken[0] = 0
  /\ \A k \in 1 .. MaxTasks : taken[k] <= 1
  /\ \A k \in 1 .. pushed : taken[k] = 0 => \E i \in Held : buf[Slot(i)] = k

(***************************************************************************)
(* The inductive invariant, part by part.                                  *)
(***************************************************************************)
\* The counters stay in order, and something has been pushed.
CountersInv ==
  /\ 1 <= End /\ top <= End /\ End <= pushed
  /\ End <= top + MaxWaiting
  /\ opc = "push" => End < pushed /\ End < top + MaxWaiting
  /\ Popping => ob = bot

\* How far ws_pop has come, and what it knows.
PopInv ==
  /\ opc = "race" => /\ ob <= top
                     /\ top = ob => oval = buf[Slot(ob)]
  /\ opc = "restore" => top = ob + 1

\* The tasks in the deque are different, and nobody has been given one.
HeldInv ==
  /\ \A i \in Held : buf[Slot(i)] \in 1 .. pushed /\ taken[buf[Slot(i)]] = 0
  /\ \A i, j \in Held : buf[Slot(i)] = buf[Slot(j)] => i = j

\* Tasks given out, not yet pushed, or in the deque.
TakenInv ==
  /\ taken[0] = 0
  /\ \A k \in 1 .. MaxTasks : taken[k] <= 1 /\ (k > pushed => taken[k] = 0)
  /\ \A k \in 1 .. pushed : taken[k] = 0 => \E i \in Held : buf[Slot(i)] = k

\* If top has not moved since a thief read it, the task there is still in
\* the deque, and the thief that has read the slot holds that task.
ThiefInv ==
  \A h \in Thieves :
    /\ tt[h] <= top
    /\ tpc[h] \in {"read", "cas"} /\ tt[h] = top => top < End
    /\ tpc[h] = "cas" /\ tt[h] = top => tval[h] = buf[Slot(top)]

Inv == TypeOK /\ CountersInv /\ PopInv /\ HeldInv /\ TakenInv /\ ThiefInv

-----------------------------------------------------------------------------
(* The mapping under which the deque implements TaskDeque.  A task is in   *)
(* the abstract deque from the step that publishes bot until the step that *)
(* decides who gets it.                                                    *)

\* What b holds at the positions from t up to e.
Tasks(b, t, e) == [n \in 1 .. e - t |-> b[Slot(t + n - 1)]]

Live == Tasks(buf, top, End)

Published == IF opc = "push" THEN pushed - 1 ELSE pushed

Abstract == INSTANCE TaskDeque WITH live <- Live, pushed <- Published

(***************************************************************************)
(* The deque behaves as if push, pop and steal were each one step: pops    *)
(* are last-in first-out, steals first-in first-out, and ws_pop answers    *)
(* "empty" only if the deque was empty at some moment of that call.        *)
(***************************************************************************)
Linearizable == Abstract!Spec
=============================================================================
