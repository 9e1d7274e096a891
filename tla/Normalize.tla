------------------------------ MODULE Normalize -------------------------------
(***************************************************************************)
(* thvm_normalize of src/src/parallel/normalize.c: thvm_reduce drives the  *)
(* root of a net to weak head normal form, thvm_normalize every slot that  *)
(* can be reached from it.  The slots wait in a work-stealing deque that   *)
(* only its owner uses, newest first; a set of the slots seen keeps shared *)
(* ones from being walked twice.                                           *)
(*                                                                         *)
(* The net is normalized Passes times in a row, each pass on what the one  *)
(* before returned, so that what a pass leaves undone shows in the next.   *)
(***************************************************************************)
EXTENDS Wnf, TaskSlots, FiniteSets

CONSTANTS Nets,      \* the nets to normalize: records [heap, term, ...]
          Passes     \* bound: calls of thvm_normalize

ASSUME PassAssumption == Passes \in Nat \ {0}

VARIABLES root,      \* the term passed in, then the term returned
          anchor,    \* root_slot; 0 outside a call
          deque,     \* the slots to visit, newest last
          seen,      \* g_norm_seen
          slot,      \* the slot whose term is being reduced, 0 for none
          pass,      \* calls begun
          net        \* the net at the start

walk == <<root, anchor, deque, seen, slot, pass, net>>
vars == <<machine, walk>>

Init == /\ net \in Nets
        /\ InitMachine(net)
        /\ root = net.term /\ anchor = 0 /\ deque = <<>> /\ seen = {}
        /\ slot = 0 /\ pass = 0

Idle == mode = "idle"

\* norm_seen_set
Slip_Mark(loc) == seen
Mark(loc) == seen \cup {loc}

\* An atom is returned as it is; anything else is put into a slot of its own.
Start ==
    /\ Idle /\ anchor = 0 /\ pass < Passes
    /\ pass' = pass + 1
    /\ IF IsAtom(root) THEN UNCHANGED <<heap, anchor, deque, seen>>
       ELSE /\ heap' = Append(heap, root)
            /\ anchor' = Next1(heap)
            /\ deque' = Put(<<>>, Next1(heap))
            /\ seen' = {}
    /\ UNCHANGED <<names, stack, mode, cur, left, fired, root, slot, net>>

Next2Visit == Newest(deque)

\* What there is to walk below a term: reduce_net_term_arity.
Walkable(t) == IF t.tag = "ERA" THEN 1 ELSE Arity(t)

\* Slots not to be reduced: seen already, or holding an atom.
Skip ==
    /\ Idle /\ slot = 0 /\ deque # <<>>
    /\ LET loc == Next2Visit IN
       /\ loc \in seen \/ IsAtom(heap[loc])
       /\ seen' = Mark(loc)
    /\ deque' = WithoutNewest(deque)
    /\ UNCHANGED <<machine, root, anchor, slot, pass, net>>

Visit ==
    /\ slot = 0 /\ deque # <<>>
    /\ LET loc == Next2Visit IN
       /\ loc \notin seen /\ ~IsAtom(heap[loc])
       /\ Begin(heap[loc], 0)
       /\ seen' = Mark(loc)
       /\ slot' = loc
    /\ deque' = WithoutNewest(deque)
    /\ UNCHANGED <<root, anchor, pass, net>>

Work == Step /\ UNCHANGED walk

\* The slots of the reduced term w follow, in their order, so that the last
\* one is visited first.
Slip_Follow(q, w) == IF Arity(w) = 0 THEN q ELSE Put(q, w.val)
Follow(q, w) ==
    LET put[n \in 0 .. Walkable(w)] ==
            IF n = 0 THEN q ELSE Put(put[n - 1], w.val + n - 1)
    IN put[Walkable(w)]

Slip_WriteBack(h, w) == h
WriteBack(h, w) == [h EXCEPT ![slot] = w]

Return ==
    /\ slot # 0
    /\ LET w == Result.term IN
       /\ End(WriteBack(Result.heap, w))
       /\ deque' = IF IsAtom(w) \/ w.val = 0 THEN deque ELSE Follow(deque, w)
    /\ slot' = 0
    /\ UNCHANGED <<root, anchor, seen, pass, net>>

\* The deque is empty: the anchor holds the result.
Finish ==
    /\ Idle /\ slot = 0 /\ anchor # 0 /\ deque = <<>>
    /\ root' = heap[anchor]
    /\ heap' = [heap EXCEPT ![anchor] = Era]
    /\ anchor' = 0 /\ seen' = {}
    /\ UNCHANGED <<names, stack, mode, cur, left, fired, deque, slot, pass, net>>

Finished == Idle /\ anchor = 0 /\ pass = Passes

Next == Start \/ Skip \/ Visit \/ Work \/ Return \/ Finish
        \/ (Finished /\ UNCHANGED vars)

Spec == Init /\ [][Next]_vars /\ WF_vars(Next)

-----------------------------------------------------------------------------

(***************************************************************************)
(* One pass is enough: thvm_normalize repeats until a fixed point, so a    *)
(* second call on what it returned finds no rule to fire anywhere.         *)
(***************************************************************************)
SecondPassIdle == pass > 1 => ~fired

(***************************************************************************)
(* The walk ends, with shared slots and with slots that reach themselves.  *)
(***************************************************************************)
Terminates == <>Finished

=============================================================================
