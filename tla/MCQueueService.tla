---------------------------- MODULE MCQueueService ----------------------------
(* QueueService on small sets. *)
EXTENDS QueueProperties, TLC

CONSTANTS p1, p2, p3, p4, u1, u2

MCPhone == {p1, p2, p3, p4}
MCUser  == {u1, u2}

Online(phone, user) == [phone |-> phone, user |-> user, kind |-> "ONLINE"]
WalkIn(phone) == [phone |-> phone, user |-> NoUser, kind |-> "WALK_IN"]

(* Two parties wait: an online customer and a walk-in. *)
MCInitialQueue == <<Online(p1, u1), WalkIn(p2)>>

(* Who may register: the two who wait already; the waiting user from another *)
(* phone; a new user and a walk-in who share a phone; and that new user from *)
(* the phone the walk-in waits with.                                         *)
MCGuest == {Online(p1, u1), WalkIn(p2), Online(p3, u1),
            Online(p3, u2), WalkIn(p3), Online(p2, u2)}

(* Parties that do not clash with one another, for longer queues. *)
MCParty == {Online(p1, u1), WalkIn(p2), WalkIn(p3), Online(p4, u2)}

(* Endpoints in use. *)
AllEndpoints == Endpoints
JoinOnly     == {"register"}
RingOrCancel == {"ring", "cancel"}
NoQueueYet   == <<>>

Symmetry == Permutations(Slot) \union Permutations(Entry) \union Permutations(Table)
=============================================================================
