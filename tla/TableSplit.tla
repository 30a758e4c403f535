------------------------------ MODULE TableSplit ------------------------------
(***************************************************************************)
(* How a party is divided over the tables it gets.  POST .../seat and the  *)
(* cancel handler run the same loop: everybody who is left over from an    *)
(* even division is put at one of the first tables, and a table counts as  *)
(* taken by one person even if nobody is left for it.  PATCH .../tables    *)
(* takes the numbers from the staff and only checks their sum.             *)
(***************************************************************************)
EXTENDS Integers, Sequences, FiniteSets, FiniteSetsExt

AtLeastOne(n) == IF n < 1 THEN 1 ELSE n

(* Mutant: everybody left over is forgotten. *)
ShareRoundedDown(people, tables, i) == AtLeastOne(people \div tables)

(* What the i-th of the tables gets. *)
Share(people, tables, i) ==
    AtLeastOne((people \div tables) + (IF i <= people % tables THEN 1 ELSE 0))

(* The people at each table when the tables are taken in the order of list, *)
(* which may name a table twice.                                            *)
Split(people, list, tables) ==
    [t \in tables |-> MapThenSumSet(LAMBDA i : Share(people, Len(list), i),
                                    {i \in DOMAIN list : list[i] = t})]

Total(seats) == MapThenSumSet(LAMBDA t : seats[t], DOMAIN seats)

(* The orders in which tables may be named, each as often as times says. *)
Listings(times) ==
    {list \in [1..Total(times) -> DOMAIN times] :
        \A t \in DOMAIN times : Cardinality({i \in DOMAIN list : list[i] = t}) = times[t]}

(* InsufficientTableCapacityError otherwise. *)
HasCapacity(people, seats) == Total(seats) >= people
=============================================================================
