----------------------------- MODULE MC_RelayTx -----------------------------
(***************************************************************************)
(* TLC instance of RelayTx for two kinds of traffic.  In the first, one    *)
(* device's requests overlap and retry batches of two, over a log all can  *)
(* read; in the second, two devices push, pull and raise the floor while   *)
(* their status changes.                                                   *)
(***************************************************************************)
EXTENDS RelayTx, TLC

CONSTANTS c1, c2, c3,   \* ciphertexts
          MaxRaces      \* bound: requests of the second kind of traffic

VARIABLE sole           \* the one device that is served, or NoClient

traffic == <<vars, sole>>

(* c3 needs level 1, the others are readable by every build.               *)
TwoLevels == [c \in Ciphertexts |-> IF c = c3 THEN 1 ELSE 0]

(* One active device, with batches every build can read.                   *)
OwnBatches == {b \in Batches : \A e \in b : e.client = sole /\ e.ct # c3}

LogTraffic == \E h \in Handlers : at[h] = "idle" /\ ArriveFrom(h, sole, OwnBatches, {0})

(* Both devices, each with the one changeset that needs the raised floor.  *)
NewSchema(c) == {{[client |-> c, cseq |-> 1, ct |-> c3]}}

FloorTraffic ==
    \/ /\ begun < MaxRaces
       /\ \E h \in Handlers, c \in Clients : ArriveFrom(h, c, NewSchema(c), Levels)
    \/ \E c \in Clients : Around(c)

TrafficInit ==
    /\ Init
    /\ sole \in Clients \cup {NoClient}
    /\ sole # NoClient => \A c \in Clients : dev[c].status = "active"

TrafficNext ==
    /\ \/ \E h \in Handlers : Serve(h) \/ Abort(h)
       \/ sole = NoClient /\ FloorTraffic
       \/ sole # NoClient /\ LogTraffic
    /\ UNCHANGED sole

TrafficSpec == TrafficInit /\ [][TrafficNext]_traffic

Symmetry == Permutations(Handlers) \cup Permutations(Clients)
=============================================================================
