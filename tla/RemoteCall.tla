----------------------------- MODULE RemoteCall -----------------------------
(***************************************************************************)
(* What a use case may rely on when it calls the restaurant service: a     *)
(* call takes effect at most once, it is answered once, and "ok" means     *)
(* that it took effect.  Any other answer leaves open whether it did, and  *)
(* it may still take effect afterwards.                                    *)
(***************************************************************************)
CONSTANT Call

VARIABLES
    answer,     \* Call -> "none" before the call, "pending", then the answer
    effect      \* Call -> did it take effect?

Answers == {"ok", "notFound", "rejected", "unavailable"}

Init ==
    /\ answer = [c \in Call |-> "none"]
    /\ effect = [c \in Call |-> FALSE]

Begin(c) ==
    /\ answer[c] = "none"
    /\ answer' = [answer EXCEPT ![c] = "pending"]
    /\ UNCHANGED effect

TakeEffect(c) ==
    /\ answer[c] # "none"
    /\ ~effect[c]
    /\ effect' = [effect EXCEPT ![c] = TRUE]
    /\ UNCHANGED answer

(* The effect may become known and take place in one step. *)
Answer(c, a) ==
    /\ answer[c] \in {"none", "pending"}
    /\ \E done \in BOOLEAN :
        /\ effect[c] => done
        /\ a = "ok" => done
        /\ effect' = [effect EXCEPT ![c] = done]
    /\ answer' = [answer EXCEPT ![c] = a]

Next == \E c \in Call : Begin(c) \/ TakeEffect(c) \/ (\E a \in Answers : Answer(c, a))

Spec == Init /\ [][Next]_<<answer, effect>>
=============================================================================
