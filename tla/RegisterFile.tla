---------------------------- MODULE RegisterFile ---------------------------
(***************************************************************************)
(* What the header promises of the register calls: each BAR of a board is  *)
(* an array of bytes of its own; a read answers what is there, a write     *)
(* changes the bytes it names and no other, and an access that would leave *)
(* the BAR is refused without effect.  (So may one that ends within the    *)
(* last eight bytes.)                                                      *)
(***************************************************************************)
EXTENDS Integers

CONSTANTS BarNum, Offset, Value, NULL

Width == {1, 2, 4, 8}

VARIABLES
  size,  \* the length of each BAR, 0 when the board does not have it
  regs,  \* the bytes of each BAR
  call   \* the last call and its answer

vars == <<size, regs, call>>

Init ==
  /\ \A b \in BarNum : DOMAIN regs[b] = 0..(size[b] - 1)
  /\ call = [op |-> "none", bar |-> NULL, offset |-> 0, width |-> 0,
              ret |-> "NONE", val |-> NULL]

Answer(op, b, o, w, ret, val) ==
  call' = [op |-> op, bar |-> b, offset |-> o, width |-> w, ret |-> ret, val |-> val]

\* The w bytes of the value v.
Bytes(v, w) == [k \in 0..(w - 1) |-> <<v, k>>]

Read(b, o, w) ==
  /\ o + w <= size[b]
  /\ Answer("read", b, o, w, "SUCCESS", [k \in 0..(w - 1) |-> regs[b][o + k]])
  /\ UNCHANGED <<size, regs>>

Write(b, o, w, v) ==
  /\ o + w <= size[b]
  /\ regs' = [regs EXCEPT ![b] = [i \in 0..(size[b] - 1) |->
                IF i \in o..(o + w - 1) THEN Bytes(v, w)[i - o] ELSE regs[b][i]]]
  /\ Answer("write", b, o, w, "SUCCESS", Bytes(v, w))
  /\ UNCHANGED size

Refuse(op, b, o, w) ==
  /\ b = NULL \/ o + 8 > size[b]
  /\ Answer(op, b, o, w, "ENOMEM", NULL)
  /\ UNCHANGED <<size, regs>>

Next == \E o \in Offset, w \in Width :
  \/ \E b \in BarNum : Read(b, o, w) \/ \E v \in Value : Write(b, o, w, v)
  \/ \E b \in BarNum \cup {NULL}, op \in {"read", "write"} : Refuse(op, b, o, w)

Spec == Init /\ [][Next]_vars

=============================================================================
