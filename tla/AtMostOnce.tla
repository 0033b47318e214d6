----------------------------- MODULE AtMostOnce -----------------------------
(***************************************************************************)
(* What a sender may rely on, whatever crashes: a message given to the     *)
(* service is typed into at most one child, as one body followed at once   *)
(* by at most one Return, and nothing of it is typed after it is settled.  *)
(***************************************************************************)
EXTENDS Sequences, Naturals

CONSTANTS Messages, Readers

VARIABLES status,  \* of each message: new, pending or settled
          lines    \* what each reader has read

Written(m, key) == \E c \in Readers : \E i \in 1..Len(lines[c]) : lines[c][i] = <<m, key>>

Init == /\ status = [m \in Messages |-> "new"]
        /\ lines = [c \in Readers |-> <<>>]

Accept(m) ==
    /\ status[m] = "new"
    /\ status' = [status EXCEPT ![m] = "pending"]
    /\ UNCHANGED lines

TypeBody(m, c) ==
    /\ status[m] = "pending" /\ ~Written(m, "body")
    /\ lines' = [lines EXCEPT ![c] = Append(@, <<m, "body">>)]
    /\ UNCHANGED status

TypeReturn(m, c) ==
    /\ status[m] = "pending" /\ lines[c] # <<>>
    /\ lines[c][Len(lines[c])] = <<m, "body">>
    /\ lines' = [lines EXCEPT ![c] = Append(@, <<m, "return">>)]
    /\ UNCHANGED status

Settle(m) ==
    /\ status[m] = "pending"
    /\ status' = [status EXCEPT ![m] = "settled"]
    /\ UNCHANGED lines

Next == \E m \in Messages :
    \/ Accept(m) \/ Settle(m)
    \/ \E c \in Readers : TypeBody(m, c) \/ TypeReturn(m, c)

Spec == Init /\ [][Next]_<<status, lines>>
=============================================================================
