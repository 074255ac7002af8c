--------------------------- MODULE WriteTurnstile ---------------------------
(***************************************************************************)
(* The first-come-first-served turnstile every in-process SQLite writer    *)
(* passes before BEGIN (crates/yapstack-common/src/write_turnstile.rs).    *)
(*                                                                         *)
(* It is a ticket lock on a Mutex<Tickets> and a Condvar.  Each critical   *)
(* section of the mutex is one action.  `acquire' is two: drawing the      *)
(* ticket (and testing it), and the re-test after a wake-up.  `drop' is    *)
(* two: the counter is advanced under the mutex, notify_all runs after the *)
(* mutex is released, so other threads may run in between.                 *)
(***************************************************************************)
EXTENDS Naturals, FiniteSets

CONSTANTS Writers,     \* threads that write to the app's database file
          MaxTickets   \* bound of the model on the u64 ticket counter

ASSUME MaxTicketsAssumption == MaxTickets \in Nat

VARIABLES next,      \* Tickets.next: the next ticket to hand out
          serving,   \* Tickets.serving: the ticket that has the turn
          mine,      \* the ticket each thread drew last
          pc         \* where each thread is

vars == <<next, serving, mine, pc>>

(***************************************************************************)
(* out: not in the turnstile; asleep: inside Condvar::wait; woken: about   *)
(* to re-lock and re-test; turn: holds a WriteTurn; notify: has advanced   *)
(* `serving' in Drop and has not yet called notify_all.                    *)
(***************************************************************************)
Places == {"out", "asleep", "woken", "turn", "notify"}

TypeOK ==
    /\ next \in Nat
    /\ serving \in Nat
    /\ mine \in [Writers -> Nat]
    /\ pc \in [Writers -> Places]

Init ==
    /\ next = 0
    /\ serving = 0
    /\ mine = [w \in Writers |-> 0]
    /\ pc = [w \in Writers |-> "out"]

-----------------------------------------------------------------------------
(* Mutated forms of actions below, each a plausible slip in this code; the *)
(* properties at the end of the module tell them from the real ones.       *)

\* acquire barges: takes the turn whenever nobody holds it.
AcquireBarging(w) ==
    /\ pc[w] = "out"
    /\ next < MaxTickets
    /\ mine' = [mine EXCEPT ![w] = next]
    /\ next' = next + 1
    /\ pc' = [pc EXCEPT ![w] = IF \A v \in Writers : pc[v] # "turn"
                               THEN "turn" ELSE "asleep"]
    /\ UNCHANGED serving

\* `if' instead of `while' around the wait.
RetestOnce(w) ==
    /\ pc[w] = "woken"
    /\ pc' = [pc EXCEPT ![w] = "turn"]
    /\ UNCHANGED <<next, serving, mine>>

\* Drop without the notification.
ReleaseSilently(w) ==
    /\ pc[w] = "turn"
    /\ serving' = serving + 1
    /\ pc' = [pc EXCEPT ![w] = "out"]
    /\ UNCHANGED <<next, mine>>

\* notify_one instead of notify_all.
NotifyOne(w) ==
    /\ pc[w] = "notify"
    /\ \/ \E v \in Writers : /\ pc[v] = "asleep"
                             /\ pc' = [pc EXCEPT ![w] = "out", ![v] = "woken"]
       \/ /\ \A v \in Writers : pc[v] # "asleep"
          /\ pc' = [pc EXCEPT ![w] = "out"]
    /\ UNCHANGED <<next, serving, mine>>

-----------------------------------------------------------------------------
(* acquire, first pass: draw a ticket and test it, both under the mutex.   *)
Acquire(w) ==
    /\ pc[w] = "out"
    /\ next < MaxTickets
    /\ mine' = [mine EXCEPT ![w] = next]
    /\ next' = next + 1
    /\ pc' = [pc EXCEPT ![w] = IF serving = next THEN "turn" ELSE "asleep"]
    /\ UNCHANGED serving

(* acquire, a later pass of the loop: the wait returned, test again.       *)
Retest(w) ==
    /\ pc[w] = "woken"
    /\ pc' = [pc EXCEPT ![w] = IF serving = mine[w] THEN "turn" ELSE "asleep"]
    /\ UNCHANGED <<next, serving, mine>>

(* A Condvar may wake a waiter without any notification.                   *)
SpuriousWake(w) ==
    /\ pc[w] = "asleep"
    /\ pc' = [pc EXCEPT ![w] = "woken"]
    /\ UNCHANGED <<next, serving, mine>>

(* Drop of the guard, the part under the mutex.                            *)
Release(w) ==
    /\ pc[w] = "turn"
    /\ serving' = serving + 1
    /\ pc' = [pc EXCEPT ![w] = "notify"]
    /\ UNCHANGED <<next, mine>>

(* Drop of the guard: notify_all, after the mutex was released.            *)
NotifyAll(w) ==
    /\ pc[w] = "notify"
    /\ pc' = [v \in Writers |-> IF v = w THEN "out"
                                ELSE IF pc[v] = "asleep" THEN "woken"
                                ELSE pc[v]]
    /\ UNCHANGED <<next, serving, mine>>

Next == \E w \in Writers : \/ Acquire(w)
                           \/ Retest(w)
                           \/ SpuriousWake(w)
                           \/ Release(w)
                           \/ NotifyAll(w)

Spec == Init /\ [][Next]_vars

(***************************************************************************)
(* A thread inside the turnstile keeps running: the transaction it holds   *)
(* the turn for commits or rolls back (no await is allowed under a turn),  *)
(* and a notified waiter is scheduled.  Nobody is obliged to arrive, and   *)
(* no spurious wake-up is owed.                                            *)
(***************************************************************************)
FairSpec == Spec /\ \A w \in Writers : /\ WF_vars(Retest(w))
                                       /\ WF_vars(Release(w))
                                       /\ WF_vars(NotifyAll(w))

-----------------------------------------------------------------------------
InQueue(w) == pc[w] \in {"asleep", "woken"}

(* Two writers never hold the turn together: the SQLite write lock is      *)
(* asked for by one in-process writer at a time.                           *)
OneTurn == \A v, w \in Writers : pc[v] = "turn" /\ pc[w] = "turn" => v = w

(* The inductive form: whoever is inside holds an unserved ticket of its   *)
(* own, and the holder's ticket is the one being served.                   *)
TicketInv ==
    /\ serving <= next
    /\ \A w \in Writers : pc[w] = "turn" => mine[w] = serving
    /\ \A w \in Writers : pc[w] \in {"asleep", "woken", "turn"}
                              => serving <= mine[w] /\ mine[w] < next
    /\ \A v, w \in Writers :
          /\ pc[v] \in {"asleep", "woken", "turn"}
          /\ pc[w] \in {"asleep", "woken", "turn"}
          /\ mine[v] = mine[w]
          => v = w

(* First come, first served: a thread that takes the turn passes nobody    *)
(* who was already waiting, also when it never slept.                      *)
ServedInOrder ==
    [][\A v, w \in Writers :
          /\ pc[w] # "turn" /\ pc'[w] = "turn"
          /\ InQueue(v) /\ v # w
          => mine'[w] < mine[v]]_vars

(* No lost wake-up: the waiter whose ticket is served is not left asleep   *)
(* unless some thread still owes the notify_all.                           *)
NoLostWakeup ==
    \A w \in Writers : pc[w] = "asleep" /\ mine[w] = serving
                           => \E v \in Writers : pc[v] = "notify"

(* Every waiting writer gets its turn.                                     *)
NoStarvation == \A w \in Writers : InQueue(w) ~> pc[w] = "turn"

=============================================================================
