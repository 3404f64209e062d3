----------------------------- MODULE CallReturn -----------------------------
(***************************************************************************)
(* What call and ret promise a program, whatever they keep in memory:      *)
(* control goes to the callee and later back behind the call, last call    *)
(* first, and nothing else touches the addresses it will go back to.       *)
(***************************************************************************)
EXTENDS Naturals, Sequences

CONSTANT Address

VARIABLES
    at,       \* the address control is at
    stack     \* the addresses control will go back to, innermost first

Init == at = 0 /\ stack = <<>>

After(address) == (address + 2) % 4096

Call ==
    /\ at' \in Address
    /\ stack' = <<After(at)>> \o stack

Return ==
    /\ stack # <<>>
    /\ at' = Head(stack)
    /\ stack' = Tail(stack)

Step ==
    /\ at' \in Address
    /\ stack' = stack

Next == Call \/ Return \/ Step

Spec == Init /\ [][Next]_<<at, stack>>
=============================================================================
